------------------------- MODULE SharedMoneyProofs -------------------------
(***************************************************************************)
(* Theorems about SharedMoney, for any number of expenses, loans, months   *)
(* and messages and any amounts: which rows the records name, and that the *)
(* balances of the accounts are what the records say.                      *)
(***************************************************************************)
EXTENDS SharedMoney, FiniteSetTheorems, WellFoundedInduction, TLAPS

---------------------------------------------------------------------------
(* Sums over finite sets: what they do not depend on, and how they change.  *)
(* The induction is on the finite subsets of a set, which have a smallest   *)
(* one with any property that some of them have.                            *)

\* g has the sums of f over the subsets of S, taking one element after the other.
Pick(s) == CHOOSE x \in s : TRUE
Adds(g, f, S) == g = [s \in SUBSET S |-> IF s = {} THEN 0 ELSE f[Pick(s)] + g[s \ {Pick(s)}]]

LEMMA SmallestFamily ==
  ASSUME NEW S, IsFiniteSet(S), NEW F \in SUBSET (SUBSET S), F # {}
  PROVE  \E T \in F : \A U \in F : ~(U \subseteq T /\ U # T)
<1>1. IsWellFoundedOn(StrictSubsetOrdering(S), SUBSET S)
  BY FS_StrictSubsetOrderingWellFounded, FS_FiniteSubsetsOfFinite
<1> DEFINE R == StrictSubsetOrdering(S)
<1>2. \E T \in F : \A U \in F : ~(<<U, T>> \in R)
  <2> HIDE DEF R
  <2> QED BY <1>1, WFMin DEF R
<1> QED BY <1>2 DEF StrictSubsetOrdering

LEMMA AddsAgree ==
  ASSUME NEW f, NEW S, IsFiniteSet(S), NEW A \in SUBSET S, NEW B \in SUBSET S,
         NEW g, NEW h, Adds(g, f, A), Adds(h, f, B), NEW C \in SUBSET (A \cap B)
  PROVE  g[C] = h[C]
<1> DEFINE Bad == {D \in SUBSET (A \cap B) : g[D] # h[D]}
<1>1. SUFFICES ASSUME Bad # {} PROVE FALSE OBVIOUS
<1>2. PICK D \in Bad : \A U \in Bad : ~(U \subseteq D /\ U # D)
  <2>1. Bad \in SUBSET (SUBSET S) OBVIOUS
  <2> HIDE DEF Bad
  <2> QED BY <1>1, <2>1, SmallestFamily
<1>3. D # {} BY <1>2 DEF Adds
<1>4. Pick(D) \in D BY <1>3 DEF Pick
<1>5. g[D \ {Pick(D)}] = h[D \ {Pick(D)}] BY <1>2, <1>4
<1>6. D \in SUBSET A /\ D \in SUBSET B /\ g[D] # h[D] BY <1>2
<1>7. g[D] = f[Pick(D)] + g[D \ {Pick(D)}] BY <1>3, <1>6 DEF Adds
<1>8. h[D] = f[Pick(D)] + h[D \ {Pick(D)}] BY <1>3, <1>6 DEF Adds
<1> QED BY <1>5, <1>6, <1>7, <1>8

LEMMA AddsExists ==
  ASSUME NEW f, NEW S, IsFiniteSet(S) PROVE \E g : Adds(g, f, S)
<1> DEFINE Bad == {D \in SUBSET S : ~ \E g : Adds(g, f, D)}
<1>1. SUFFICES ASSUME Bad # {} PROVE FALSE OBVIOUS
<1>2. PICK T \in Bad : \A U \in Bad : ~(U \subseteq T /\ U # T)
  <2>1. Bad \in SUBSET (SUBSET S) OBVIOUS
  <2> HIDE DEF Bad
  <2> QED BY <1>1, <2>1, SmallestFamily
<1> DEFINE H(U) == CHOOSE g : Adds(g, f, U)
           x == Pick(T)
           v == IF T = {} THEN 0 ELSE f[x] + H(T \ {x})[T \ {x}]
           G == [s \in SUBSET T |-> IF s = T THEN v ELSE H(s)[s]]
<1>3. \A U \in SUBSET T : U # T => Adds(H(U), f, U)
  <2> TAKE U \in SUBSET T
  <2> HAVE U # T
  <2>1. \E g : Adds(g, f, U) BY <1>2
  <2> QED BY <2>1
<1>4. ASSUME NEW s \in SUBSET T PROVE G[s] = IF s = {} THEN 0 ELSE f[Pick(s)] + G[s \ {Pick(s)}]
  <2>1. CASE s = {}
    <3>1. CASE s = T BY <3>1, <2>1
    <3>2. CASE s # T
      <4>1. Adds(H(s), f, s) BY <1>3, <3>2
      <4>2. H(s)[s] = 0 BY <4>1, <2>1 DEF Adds
      <4> QED BY <4>2, <3>2, <2>1
    <3> QED BY <3>1, <3>2
  <2>2. CASE s # {}
    <3> DEFINE y == Pick(s)
    <3>1. y \in s BY <2>2 DEF Pick
    <3>2. s \ {y} \in SUBSET T /\ s \ {y} # T BY <3>1
    <3>3. G[s \ {y}] = H(s \ {y})[s \ {y}] BY <3>2
    <3>4. CASE s = T BY <3>4, <3>3, <2>2
    <3>5. CASE s # T
      <4>1. Adds(H(s), f, s) /\ Adds(H(s \ {y}), f, s \ {y}) BY <1>3, <3>5, <3>2
      <4>2. s \ {y} \in SUBSET (s \cap (s \ {y})) OBVIOUS
      <4>3. H(s)[s \ {y}] = H(s \ {y})[s \ {y}]
        <5>1. s \in SUBSET S /\ s \ {y} \in SUBSET S BY <1>2
        <5> HIDE DEF H, G, y
        <5> QED BY <4>1, <4>2, <5>1, AddsAgree, SMTT(60)
      <4>4. H(s)[s] = f[y] + H(s)[s \ {y}] BY <4>1, <2>2 DEF Adds
      <4>5. G[s] = H(s)[s] BY <3>5
      <4> QED BY <4>3, <4>4, <4>5, <3>3, <2>2
    <3> QED BY <3>4, <3>5
  <2> QED BY <2>1, <2>2
<1>5. Adds(G, f, T)
  <2>1. G = [s \in SUBSET T |-> G[s]] OBVIOUS
  <2> HIDE DEF G
  <2> QED BY <2>1, <1>4 DEF Adds
<1> QED BY <1>5, <1>2

LEMMA SumIs ==
  ASSUME NEW f, NEW S, IsFiniteSet(S), NEW g, Adds(g, f, S)
  PROVE  SumFunctionOnSet(f, S) = g[S]
<1> DEFINE it == CHOOSE i : Adds(i, f, S)
<1>1. Adds(it, f, S) BY AddsExists
<1>2. SumFunctionOnSet(f, S) = it[S]
  BY DEF SumFunctionOnSet, FoldFunctionOnSet, MapThenFoldSet, Adds, Pick
<1>3. it[S] = g[S]
  <2> HIDE DEF it
  <2> QED BY <1>1, AddsAgree
<1> QED BY <1>2, <1>3

LEMMA SumEmpty == ASSUME NEW f PROVE SumFunctionOnSet(f, {}) = 0
<1>1. IsFiniteSet({}) BY FS_EmptySet
<1>2. PICK g : Adds(g, f, {}) BY <1>1, AddsExists
<1>3. g[{}] = 0 BY <1>2 DEF Adds
<1> QED BY <1>1, <1>2, <1>3, SumIs

LEMMA SumUnrolled ==
  ASSUME NEW f, NEW S, IsFiniteSet(S), S # {}
  PROVE  SumFunctionOnSet(f, S) = f[Pick(S)] + SumFunctionOnSet(f, S \ {Pick(S)})
<1>1. PICK g : Adds(g, f, S) BY AddsExists
<1>2. PICK h : Adds(h, f, S \ {Pick(S)}) BY AddsExists, FS_RemoveElement
<1>3. IsFiniteSet(S \ {Pick(S)}) BY FS_RemoveElement
<1>4. g[S \ {Pick(S)}] = h[S \ {Pick(S)}]
  <2> DEFINE T == S \ {Pick(S)}
  <2>1. T \in SUBSET S /\ S \in SUBSET S /\ T \in SUBSET (S \cap T) OBVIOUS
  <2>2. Adds(h, f, T) BY <1>2
  <2> HIDE DEF T
  <2>3. g[T] = h[T] BY <1>1, <2>1, <2>2, AddsAgree
  <2> QED BY <2>3 DEF T
<1>5. g[S] = f[Pick(S)] + g[S \ {Pick(S)}] BY <1>1 DEF Adds
<1> QED BY <1>1, <1>2, <1>3, <1>4, <1>5, SumIs

\* The sum of integers is one.
LEMMA SumType ==
  ASSUME NEW S, IsFiniteSet(S), NEW f, \A x \in S : f[x] \in Int
  PROVE  SumFunctionOnSet(f, S) \in Int
<1> DEFINE Bad == {D \in SUBSET S : SumFunctionOnSet(f, D) \notin Int}
<1>1. SUFFICES ASSUME Bad # {} PROVE FALSE OBVIOUS
<1>2. PICK D \in Bad : \A U \in Bad : ~(U \subseteq D /\ U # D)
  <2>1. Bad \in SUBSET (SUBSET S) OBVIOUS
  <2> HIDE DEF Bad
  <2> QED BY <1>1, <2>1, SmallestFamily
<1>3. D # {}
  <2>1. SUFFICES ASSUME D = {} PROVE FALSE OBVIOUS
  <2>2. SumFunctionOnSet(f, D) = 0 BY <2>1, SumEmpty
  <2> QED BY <1>2, <2>2
<1>4. Pick(D) \in D BY <1>3 DEF Pick
<1>5. SumFunctionOnSet(f, D \ {Pick(D)}) \in Int BY <1>2, <1>4
<1>6. SumFunctionOnSet(f, D) = f[Pick(D)] + SumFunctionOnSet(f, D \ {Pick(D)})
  BY <1>3, SumUnrolled, FS_Subset
<1>7. f[Pick(D)] \in Int BY <1>4
<1> QED BY <1>2, <1>5, <1>6, <1>7

\* Any element may be taken first.
LEMMA SumRemove ==
  ASSUME NEW S, IsFiniteSet(S), NEW f, \A x \in S : f[x] \in Int, NEW x \in S
  PROVE  SumFunctionOnSet(f, S) = f[x] + SumFunctionOnSet(f, S \ {x})
<1> DEFINE Sum(T) == SumFunctionOnSet(f, T)
           Bad == {D \in SUBSET S : \E y \in D : Sum(D) # f[y] + Sum(D \ {y})}
<1>1. SUFFICES ASSUME Bad # {} PROVE FALSE OBVIOUS
<1>2. PICK D \in Bad : \A U \in Bad : ~(U \subseteq D /\ U # D)
  <2>1. Bad \in SUBSET (SUBSET S) OBVIOUS
  <2> HIDE DEF Bad
  <2> QED BY <1>1, <2>1, SmallestFamily
<1>3. PICK y \in D : Sum(D) # f[y] + Sum(D \ {y}) BY <1>2
<1> DEFINE z == Pick(D)
<1>4. z \in D BY <1>3 DEF Pick
<1>5. \A T \in SUBSET S : IsFiniteSet(T) /\ Sum(T) \in Int
  <2> TAKE T \in SUBSET S
  <2>1. IsFiniteSet(T) BY FS_Subset
  <2> QED BY <2>1, SumType
<1>6. Sum(D) = f[z] + Sum(D \ {z}) BY <1>3, <1>5, SumUnrolled
<1>7. y # z BY <1>3, <1>6
<1>a. \A U \in SUBSET D : U # D => \A w \in U : Sum(U) = f[w] + Sum(U \ {w})
  <2> TAKE U \in SUBSET D
  <2> HAVE U # D
  <2>1. U \in SUBSET S /\ U \notin Bad BY <1>2
  <2> QED BY <2>1
<1>b. /\ D \ {z} \in SUBSET D /\ D \ {z} # D /\ y \in D \ {z}
      /\ D \ {y} \in SUBSET D /\ D \ {y} # D /\ z \in D \ {y}
  BY <1>4, <1>7
<1>8. Sum(D \ {z}) = f[y] + Sum((D \ {z}) \ {y})
  <2> HIDE DEF Sum, z
  <2> QED BY <1>a, <1>b
<1>9. Sum(D \ {y}) = f[z] + Sum((D \ {y}) \ {z})
  <2> HIDE DEF Sum, z
  <2> QED BY <1>a, <1>b
<1>10. (D \ {z}) \ {y} = (D \ {y}) \ {z} OBVIOUS
<1>11. f[y] \in Int /\ f[z] \in Int /\ Sum((D \ {y}) \ {z}) \in Int BY <1>4, <1>5
<1>12. Sum(D) # f[y] + Sum(D \ {y}) BY <1>3
<1> HIDE DEF Sum, z, Bad
<1>13. Sum(D) = f[z] + (f[y] + Sum((D \ {y}) \ {z})) BY <1>6, <1>8, <1>10
<1>14. f[z] + (f[y] + Sum((D \ {y}) \ {z})) = f[y] + (f[z] + Sum((D \ {y}) \ {z})) BY <1>11
<1> QED BY <1>12, <1>13, <1>14, <1>9

\* Only the values that are added matter.
LEMMA SumSame ==
  ASSUME NEW S, IsFiniteSet(S), NEW f, NEW g, \A x \in S : f[x] = g[x]
  PROVE  SumFunctionOnSet(f, S) = SumFunctionOnSet(g, S)
<1> DEFINE Bad == {D \in SUBSET S : SumFunctionOnSet(f, D) # SumFunctionOnSet(g, D)}
<1>1. SUFFICES ASSUME Bad # {} PROVE FALSE OBVIOUS
<1>2. PICK D \in Bad : \A U \in Bad : ~(U \subseteq D /\ U # D)
  <2>1. Bad \in SUBSET (SUBSET S) OBVIOUS
  <2> HIDE DEF Bad
  <2> QED BY <1>1, <2>1, SmallestFamily
<1>3. D # {} BY <1>2, SumEmpty
<1>4. Pick(D) \in D BY <1>3 DEF Pick
<1>5. SumFunctionOnSet(f, D \ {Pick(D)}) = SumFunctionOnSet(g, D \ {Pick(D)}) BY <1>2, <1>4
<1>6. IsFiniteSet(D) BY FS_Subset
<1>7. SumFunctionOnSet(f, D) = f[Pick(D)] + SumFunctionOnSet(f, D \ {Pick(D)})
  BY <1>3, <1>6, SumUnrolled
<1>8. SumFunctionOnSet(g, D) = g[Pick(D)] + SumFunctionOnSet(g, D \ {Pick(D)})
  BY <1>3, <1>6, SumUnrolled
<1> QED BY <1>2, <1>4, <1>5, <1>7, <1>8

\* The sum over two sets that have nothing in common.
LEMMA SumDisjoint ==
  ASSUME NEW S, IsFiniteSet(S), NEW T, IsFiniteSet(T), S \cap T = {},
         NEW f, \A x \in S \cup T : f[x] \in Int
  PROVE  SumFunctionOnSet(f, S \cup T) = SumFunctionOnSet(f, S) + SumFunctionOnSet(f, T)
<1> DEFINE Sum(U) == SumFunctionOnSet(f, U)
           Bad == {D \in SUBSET T : Sum(S \cup D) # Sum(S) + Sum(D)}
<1>1. SUFFICES ASSUME Bad # {} PROVE FALSE OBVIOUS
<1>2. PICK D \in Bad : \A U \in Bad : ~(U \subseteq D /\ U # D)
  <2>1. Bad \in SUBSET (SUBSET T) OBVIOUS
  <2> HIDE DEF Bad
  <2> QED BY <1>1, <2>1, SmallestFamily
<1>3. D \in SUBSET T /\ Sum(S \cup D) # Sum(S) + Sum(D) BY <1>2
<1>4. IsFiniteSet(S \cup T) BY FS_Union
<1>5. \A U \in SUBSET (S \cup T) : IsFiniteSet(U) /\ Sum(U) \in Int
  <2> TAKE U \in SUBSET (S \cup T)
  <2>1. IsFiniteSet(U) BY <1>4, FS_Subset
  <2> QED BY <2>1, SumType
<1>6. D # {}
  <2>1. SUFFICES ASSUME D = {} PROVE FALSE OBVIOUS
  <2>2. Sum(D) = 0 BY <2>1, SumEmpty
  <2>3. S \cup D = S BY <2>1
  <2>4. Sum(S \cup D) = Sum(S) BY <2>3
  <2>5. Sum(S) \in Int BY <1>5
  <2>6. Sum(S \cup D) # Sum(S) + Sum(D) BY <1>3
  <2> HIDE DEF Sum
  <2> QED BY <2>2, <2>4, <2>5, <2>6
<1>7. PICK x \in D : TRUE BY <1>6
<1> DEFINE E == D \ {x}
<1>8. E \subseteq D /\ E # D /\ E \in SUBSET T BY <1>3, <1>7
<1>9. Sum(S \cup E) = Sum(S) + Sum(E) BY <1>2, <1>8
<1>10. Sum(D) = f[x] + Sum(E) BY <1>3, <1>5, <1>7, SumRemove
<1>11. Sum(S \cup D) = f[x] + Sum(S \cup E)
  <2>1. (S \cup D) \ {x} = S \cup E BY <1>3, <1>7
  <2>2. IsFiniteSet(S \cup D) /\ x \in S \cup D /\ \A y \in S \cup D : f[y] \in Int BY <1>3, <1>5, <1>7
  <2>3. Sum(S \cup D) = f[x] + Sum((S \cup D) \ {x}) BY <2>2, SumRemove
  <2> QED BY <2>1, <2>3
<1>12. f[x] \in Int /\ Sum(E) \in Int /\ Sum(S) \in Int BY <1>3, <1>5, <1>7, <1>8
<1> HIDE DEF Sum, E
<1> QED BY <1>3, <1>9, <1>10, <1>11, <1>12

LEMMA SumOne ==
  ASSUME NEW f, NEW x, f[x] \in Int PROVE SumFunctionOnSet(f, {x}) = f[x]
<1>1. IsFiniteSet({x}) BY FS_Singleton
<1>2. SumFunctionOnSet(f, {x}) = f[x] + SumFunctionOnSet(f, {x} \ {x}) BY <1>1, SumRemove
<1>3. {x} \ {x} = {} OBVIOUS
<1>4. SumFunctionOnSet(f, {x} \ {x}) = 0 BY <1>3, SumEmpty
<1> QED BY <1>2, <1>4

LEMMA SumZeros ==
  ASSUME NEW S, IsFiniteSet(S), NEW f, \A x \in S : f[x] = 0
  PROVE  SumFunctionOnSet(f, S) = 0
<1> DEFINE Bad == {D \in SUBSET S : SumFunctionOnSet(f, D) # 0}
<1>1. SUFFICES ASSUME Bad # {} PROVE FALSE OBVIOUS
<1>2. PICK D \in Bad : \A U \in Bad : ~(U \subseteq D /\ U # D)
  <2>1. Bad \in SUBSET (SUBSET S) OBVIOUS
  <2> HIDE DEF Bad
  <2> QED BY <1>1, <2>1, SmallestFamily
<1>3. D # {} BY <1>2, SumEmpty
<1>4. PICK x \in D : TRUE BY <1>3
<1>5. SumFunctionOnSet(f, D \ {x}) = 0 BY <1>2, <1>4
<1>6. IsFiniteSet(D) /\ \A y \in D : f[y] \in Int BY <1>2, FS_Subset
<1>7. SumFunctionOnSet(f, D) = f[x] + SumFunctionOnSet(f, D \ {x}) BY <1>4, <1>6, SumRemove
<1> QED BY <1>2, <1>4, <1>5, <1>7

\* Two functions that differ at one place at most, a place one of them may not have: elsewhere
\* a missing value counts as zero.
At(f, x) == IF x \in DOMAIN f THEN f[x] ELSE 0

LEMMA SumWider ==
  ASSUME NEW D, IsFiniteSet(D), NEW f, DOMAIN f \subseteq D, \A x \in DOMAIN f : f[x] \in Int
  PROVE  SumFunction(f) = SumFunctionOnSet([x \in D |-> At(f, x)], D)
<1> DEFINE F == [x \in D |-> At(f, x)]
           S == DOMAIN f
           T == D \ DOMAIN f
<1>1. IsFiniteSet(S) /\ IsFiniteSet(T) /\ S \cap T = {} /\ S \cup T = D BY FS_Subset
<1>2. (\A x \in S : F[x] = f[x]) /\ (\A x \in T : F[x] = 0) /\ \A x \in D : F[x] \in Int BY DEF At
<1>3. SumFunction(f) = SumFunctionOnSet(f, S) BY DEF SumFunction
<1> HIDE DEF F, S, T
<1>4. SumFunctionOnSet(F, S) = SumFunctionOnSet(f, S) BY <1>1, <1>2, SumSame
<1>5. SumFunctionOnSet(F, T) = 0 BY <1>1, <1>2, SumZeros
<1>6. SumFunctionOnSet(F, S) \in Int BY <1>1, <1>2, SumType
<1>7. SumFunctionOnSet(F, D) = SumFunctionOnSet(F, S) + SumFunctionOnSet(F, T)
  BY <1>1, <1>2, SumDisjoint
<1> QED BY <1>3, <1>4, <1>5, <1>6, <1>7 DEF F

LEMMA SumAt ==
  ASSUME NEW f, NEW g, IsFiniteSet(DOMAIN f), IsFiniteSet(DOMAIN g), NEW y,
         \A x \in DOMAIN f : f[x] \in Int, \A x \in DOMAIN g : g[x] \in Int,
         \A x \in DOMAIN f \cup DOMAIN g : x # y => At(f, x) = At(g, x)
  PROVE  /\ SumFunction(f) \in Int /\ SumFunction(g) \in Int
         /\ SumFunction(g) = SumFunction(f) + At(g, y) - At(f, y)
<1> DEFINE D == DOMAIN f \cup DOMAIN g \cup {y}
           E == D \ {y}
           F == [x \in D |-> At(f, x)]
           G == [x \in D |-> At(g, x)]
<1>1. IsFiniteSet(D) /\ IsFiniteSet(E) /\ y \in D /\ DOMAIN f \subseteq D /\ DOMAIN g \subseteq D
  <2>1. IsFiniteSet(DOMAIN f \cup DOMAIN g) /\ IsFiniteSet({y}) BY FS_Union, FS_Singleton
  <2>2. IsFiniteSet(D) BY <2>1, FS_Union
  <2>3. E \in SUBSET D OBVIOUS
  <2>4. IsFiniteSet(E)
    <3> HIDE DEF D, E
    <3> QED BY <2>2, <2>3, FS_Subset
  <2> QED BY <2>2, <2>4
<1>2. (\A x \in D : F[x] \in Int /\ G[x] \in Int) /\ (\A x \in E : F[x] = G[x])
      /\ F[y] = At(f, y) /\ G[y] = At(g, y)
  BY DEF At
<1>3. SumFunction(f) = SumFunctionOnSet(F, D) /\ SumFunction(g) = SumFunctionOnSet(G, D)
  BY <1>1, SumWider
<1> HIDE DEF F, G, D
<1>4. SumFunctionOnSet(F, D) = F[y] + SumFunctionOnSet(F, E) BY <1>1, <1>2, SumRemove
<1>5. SumFunctionOnSet(G, D) = G[y] + SumFunctionOnSet(G, E) BY <1>1, <1>2, SumRemove
<1>6. SumFunctionOnSet(F, E) = SumFunctionOnSet(G, E) BY <1>1, <1>2, SumSame
<1>7. SumFunctionOnSet(F, E) \in Int
  <2>1. \A x \in E : F[x] \in Int BY <1>2
  <2> QED BY <1>1, <2>1, SumType
<1>8. F[y] \in Int /\ G[y] \in Int BY <1>1, <1>2
<1> HIDE DEF E
<1> QED BY <1>2, <1>3, <1>4, <1>5, <1>6, <1>7, <1>8

---------------------------------------------------------------------------
(* Shapes: ids are never given twice, the bank's rows are the first ones, and a row of the *)
(* group or the fund has the kind and the accounts it was made with.                       *)

Accounts == {"bank", "group", "fund", "none"}
Row == [kind : {"expense", "transfer"}, rial : Int, from : Accounts, to : Accounts,
        of : {"none", "split", "fund"}]
BankRow  == {t \in Row : t.of = "none" /\ t.from = "bank" /\ t.to # "fund"}
SplitRow == {t \in Row : t.of = "split" /\ t.from \in {"bank", "group"} /\ t.to # "fund"}
FundRow  == {t \in Row : /\ t.of = "fund" /\ t.kind = "transfer"
                        /\ <<t.from, t.to>> \in {<<"bank", "fund">>, <<"fund", "bank">>}}

RowsShape ==
  /\ made \in Nat /\ Texts <= made
  /\ DOMAIN rows \subseteq 1..made /\ rows = [i \in DOMAIN rows |-> rows[i]]
  /\ \A i \in DOMAIN rows : rows[i] \in IF i <= Texts THEN BankRow ELSE SplitRow \cup FundRow

Names == {0} \cup Texts + 1 .. made     \* what a record says of its row
ExpenseRec == [total : Nat \ {0}, part : Nat, mine : BOOLEAN, ids : SUBSET (Texts + 1 .. made),
               linked : [id : 0..Texts, before : BankRow]]
PaymentRec == [member : Members, month : 1..Months, loan : {0} \cup Loans, rial : Int, txn : Names]
LoanRec    == [member : Members, month : 1..Months, txn : Names]

GroupShape ==
  /\ IsFiniteSet(DOMAIN expenses) /\ \A e \in DOMAIN expenses : expenses[e] \in ExpenseRec
  /\ settled \in [out : BOOLEAN, rial : Int, txn : Names]
FundShape ==
  /\ IsFiniteSet(payments) /\ payments \subseteq PaymentRec
  /\ IsFiniteSet(DOMAIN loans) /\ \A l \in DOMAIN loans : loans[l] \in LoanRec

Shape == RowsShape /\ GroupShape /\ FundShape

LEMMA PushedIs ==
  ASSUME NEW book, made \in Nat, DOMAIN book \subseteq 1..made, NEW new, Len(new) \in Nat
  PROVE  /\ DOMAIN Pushed(book, new) = DOMAIN book \cup NewIds(new)
         /\ \A i \in DOMAIN book : Pushed(book, new)[i] = book[i]
         /\ \A i \in NewIds(new) : /\ Pushed(book, new)[i] = new[i - made]
                                   /\ i - made \in 1..Len(new)
                                   /\ i \notin DOMAIN book /\ i \in Nat /\ i > made
<1>2. \A i \in NewIds(new) : i - made \in 1..Len(new) /\ i \notin DOMAIN book /\ i \in Nat /\ i > made
  BY DEF NewIds
<1> QED BY <1>2 DEF Pushed

\* What a step makes of the ids, whatever it does to the records.
LEMMA PushKeepsShape ==
  ASSUME SharedAssumption, RowsShape, NEW book, DOMAIN book = DOMAIN rows,
         \A i \in DOMAIN book : book[i] \in IF i <= Texts THEN BankRow ELSE SplitRow \cup FundRow,
         NEW new \in Seq(SplitRow \cup FundRow),
         rows' = Pushed(book, new), made' = made + Len(new)
  PROVE  RowsShape' /\ made <= made' /\ NewIds(new) \subseteq Texts + 1 .. made' /\ Names \subseteq Names'
<1>1. made \in Nat /\ Texts \in Nat /\ Texts <= made /\ Len(new) \in Nat /\ DOMAIN book \subseteq 1..made
  BY DEF RowsShape, SharedAssumption
<1>2. /\ DOMAIN rows' = DOMAIN book \cup NewIds(new)
      /\ \A i \in DOMAIN book : rows'[i] = book[i]
      /\ \A i \in NewIds(new) : rows'[i] \in SplitRow \cup FundRow /\ i \in Nat /\ i > made
  <2> DEFINE R == SplitRow \cup FundRow
  <2> HIDE DEF R
  <2>1. new \in Seq(R) BY DEF R
  <2>2. /\ DOMAIN Pushed(book, new) = DOMAIN book \cup NewIds(new)
        /\ \A i \in DOMAIN book : Pushed(book, new)[i] = book[i]
        /\ \A i \in NewIds(new) : /\ Pushed(book, new)[i] = new[i - made] /\ i - made \in 1..Len(new)
                                  /\ i \in Nat /\ i > made
    BY <1>1, PushedIs
  <2>3. \A j \in 1..Len(new) : new[j] \in R BY <2>1
  <2> QED BY <2>2, <2>3 DEF R
<1>3. made' \in Nat /\ Texts <= made' /\ made <= made' /\ DOMAIN rows' \subseteq 1..made'
  BY <1>1, <1>2 DEF NewIds
<1>4. \A i \in DOMAIN rows' : rows'[i] \in IF i <= Texts THEN BankRow ELSE SplitRow \cup FundRow
  <2> TAKE i \in DOMAIN rows'
  <2>1. CASE i \in DOMAIN book BY <2>1, <1>2
  <2>2. CASE i \in NewIds(new)
    <3>1. ~(i <= Texts) BY <2>2, <1>1, <1>2
    <3> QED BY <2>2, <3>1, <1>2
  <2> QED BY <2>1, <2>2, <1>2
<1>5. NewIds(new) \subseteq Texts + 1 .. made' BY <1>1 DEF NewIds
<1>6. Names \subseteq Names' BY <1>1, <1>3 DEF Names
<1>7. rows' = [i \in DOMAIN rows' |-> rows'[i]] BY DEF Pushed
<1> QED BY <1>3, <1>4, <1>5, <1>6, <1>7 DEF RowsShape

LEMMA DropIs ==
  ASSUME NEW f, NEW S
  PROVE  DOMAIN Drop(f, S) = DOMAIN f \ S /\ \A i \in DOMAIN f \ S : Drop(f, S)[i] = f[i]
BY DEF Drop

LEMMA PutIs ==
  ASSUME NEW f, NEW x, NEW v, x \notin DOMAIN f
  PROVE  /\ DOMAIN Put(f, x, v) = DOMAIN f \cup {x}
         /\ Put(f, x, v)[x] = v /\ \A y \in DOMAIN f : Put(f, x, v)[y] = f[y]
BY DEF Put

LEMMA SeqEqual ==
  ASSUME NEW R, NEW s \in Seq(R), NEW t \in Seq(R), Len(s) = Len(t),
         \A i \in 1..Len(s) : s[i] = t[i]
  PROVE  s = t
OBVIOUS

\* What the rows of an expense are.
BookedRows(total, part, mine, link) ==
  LET own == Expense(part, "bank", "split")
      rest == Transfer(total - part, "bank", "group", "split")
      debt == Expense(part, "group", "split")
      new == Booked(total, part, mine, link)
  IN /\ mine /\ link = 0 =>
          new = IF part = 0 THEN If(total > 0, <<rest>>)
                ELSE IF part = total THEN <<own>> ELSE <<own, rest>>
     /\ mine /\ link # 0 => new = If(part > 0 /\ part # total, <<rest>>)
     /\ ~mine => new = If(part > 0, <<debt>>)

LEMMA BookedIs ==
  ASSUME NEW total \in Nat, NEW part \in Nat, part <= total, NEW mine \in BOOLEAN, NEW link \in Nat
  PROVE  /\ BookedRows(total, part, mine, link)
         /\ Booked(total, part, mine, link) \in Seq(SplitRow)
<1> DEFINE own == Expense(part, "bank", "split")
           rest == Transfer(total - part, "bank", "group", "split")
           debt == Expense(part, "group", "split")
           new == Booked(total, part, mine, link)
<1>1. own \in SplitRow /\ rest \in SplitRow /\ debt \in SplitRow
  BY DEF Expense, Transfer, SplitRow, Row, Accounts
<1>2. mine /\ link = 0 => new = If(part > 0, <<own>>) \o If(total > part, <<rest>>)
  BY DEF Booked, Rest
<1>3. mine /\ link # 0 => new = <<>> \o If(part > 0 /\ part # total, <<rest>>)
  BY DEF Booked, Rest, If
<1>4. ~mine => new = If(part > 0, <<debt>>) BY DEF Booked
<1> HIDE DEF own, rest, debt, new
<1>a. ASSUME NEW s \in Seq(SplitRow) PROVE <<>> \o s = s /\ s \o <<>> = s
  <2>1. <<>> \o s \in Seq(SplitRow) /\ s \o <<>> \in Seq(SplitRow) /\ Len(<<>>) = 0 /\ Len(s) \in Nat
        /\ <<>> \in Seq(SplitRow)
    OBVIOUS
  <2>2. Len(<<>> \o s) = Len(s) /\ Len(s \o <<>>) = Len(s) BY <2>1
  <2>3. \A i \in 1..Len(s) : (<<>> \o s)[i] = s[i] /\ (s \o <<>>)[i] = s[i] BY <2>1
  <2> QED BY <2>1, <2>2, <2>3, SeqEqual
<1>b. <<own>> \o <<rest>> = <<own, rest>>
  <2>1. <<own>> \in Seq(SplitRow) /\ <<rest>> \in Seq(SplitRow) /\ <<own, rest>> \in Seq(SplitRow)
        /\ <<own>> \o <<rest>> \in Seq(SplitRow)
    BY <1>1
  <2>2. Len(<<own>> \o <<rest>>) = 2 /\ Len(<<own, rest>>) = 2 BY <2>1
  <2>3. \A i \in 1..2 : (<<own>> \o <<rest>>)[i] = <<own, rest>>[i] BY <2>1
  <2> QED BY <2>1, <2>2, <2>3, SeqEqual
<1>c. <<own>> \in Seq(SplitRow) /\ <<rest>> \in Seq(SplitRow) /\ <<>> \in Seq(SplitRow) BY <1>1
<1>5. <<>> \o <<own>> = <<own>> /\ <<>> \o <<rest>> = <<rest>> /\ <<own>> \o <<>> = <<own>>
      /\ <<own>> \o <<rest>> = <<own, rest>> /\ <<>> \o <<>> = <<>>
  BY <1>a, <1>b, <1>c
<1>6. mine /\ link = 0 => new = IF part = 0 THEN If(total > 0, <<rest>>)
                                ELSE IF part = total THEN <<own>> ELSE <<own, rest>>
  <2> HAVE mine /\ link = 0
  <2>1. CASE part = 0 BY <2>1, <1>2, <1>5 DEF If
  <2>2. CASE part # 0 /\ part = total
    <3>1. part > 0 /\ ~(total > part) BY <2>2
    <3> QED BY <2>2, <3>1, <1>2, <1>5 DEF If
  <2>3. CASE part # 0 /\ part # total
    <3>1. part > 0 /\ total > part BY <2>3
    <3> QED BY <2>3, <3>1, <1>2, <1>5 DEF If
  <2> QED BY <2>1, <2>2, <2>3
<1>7. mine /\ link # 0 => new = If(part > 0 /\ part # total, <<rest>>) BY <1>3, <1>5 DEF If
<1>8. <<own>> \in Seq(SplitRow) /\ <<rest>> \in Seq(SplitRow) /\ <<debt>> \in Seq(SplitRow)
      /\ <<own, rest>> \in Seq(SplitRow) /\ <<>> \in Seq(SplitRow)
  BY <1>1
<1>9. new \in Seq(SplitRow) BY <1>4, <1>6, <1>7, <1>8 DEF If
<1> QED BY <1>1, <1>4, <1>6, <1>7, <1>9 DEF own, rest, debt, new, BookedRows

\* Records stay what they are while ids are given.
LEMMA RecordsLast ==
  ASSUME made \in Nat, made' \in Nat, made <= made', Texts \in Nat
  PROVE  /\ \A x \in ExpenseRec : x \in ExpenseRec'
         /\ \A x \in PaymentRec : x \in PaymentRec'
         /\ \A x \in LoanRec : x \in LoanRec'
         /\ \A x : x \in Names => x \in Names'
<1>1. \A x : x \in Names => x \in Names' BY DEF Names
<1>2. SUBSET (Texts + 1 .. made) \subseteq SUBSET (Texts + 1 .. made') OBVIOUS
<1>3. \A x \in ExpenseRec : x \in ExpenseRec' BY <1>2 DEF ExpenseRec
<1>4. \A x \in PaymentRec : x \in PaymentRec' BY <1>1 DEF PaymentRec
<1>5. \A x \in LoanRec : x \in LoanRec' BY <1>1 DEF LoanRec
<1> QED BY <1>1, <1>3, <1>4, <1>5

LEMMA GroupShapeLasts ==
  ASSUME RowsShape, SharedAssumption, GroupShape, made' \in Nat, made <= made', UNCHANGED group
  PROVE  GroupShape'
<1>1. made \in Nat /\ Texts \in Nat BY DEF RowsShape, SharedAssumption
<1>2. UNCHANGED <<expenses, settled>> BY DEF group
<1>3. settled' \in [out : BOOLEAN, rial : Int, txn : Names']
  <2>1. \A x : x \in Names => x \in Names' BY <1>1, RecordsLast
  <2> QED BY <1>2, <2>1 DEF GroupShape
<1>4. \A e \in DOMAIN expenses : expenses[e] \in ExpenseRec' BY <1>1, RecordsLast DEF GroupShape
<1> QED BY <1>2, <1>3, <1>4 DEF GroupShape

LEMMA FundShapeLasts ==
  ASSUME RowsShape, SharedAssumption, FundShape, made' \in Nat, made <= made', UNCHANGED fund
  PROVE  FundShape'
<1>1. made \in Nat /\ Texts \in Nat BY DEF RowsShape, SharedAssumption
<1>2. UNCHANGED <<payments, loans>> BY DEF fund
<1>3. payments \subseteq PaymentRec' /\ \A l \in DOMAIN loans : loans[l] \in LoanRec'
  BY <1>1, RecordsLast DEF FundShape
<1> QED BY <1>2, <1>3 DEF FundShape

\* Deleting rows never makes one.
LEMMA DropKeepsShape ==
  ASSUME RowsShape, NEW S, UNCHANGED made, DOMAIN rows' = DOMAIN rows \ S,
         rows' = [i \in DOMAIN rows' |-> rows'[i]],
         \A i \in DOMAIN rows \ S : rows'[i] = rows[i] \/ (i <= Texts /\ rows'[i] \in BankRow)
  PROVE  RowsShape'
BY DEF RowsShape

\* The message an expense may take over.
LEMMA LinkIs ==
  ASSUME SharedAssumption, RowsShape, NEW total, NEW part \in Nat, NEW link \in LinkCandidates(total)
  PROVE  /\ link \in DOMAIN rows /\ link \in 1..Texts /\ link # 0
         /\ rows[link] \in BankRow /\ rows[link].rial = total /\ rows[link].kind = "expense"
         /\ Linked(rows[link], part) \in BankRow
<1>1. link \in DOMAIN rows /\ rows[link].kind = "expense" /\ rows[link].rial = total
      /\ rows[link].of # "split" /\ link \in 1..made /\ made \in Nat /\ Texts \in Nat
  BY DEF LinkCandidates, RowsShape, SharedAssumption
<1>2. link <= Texts BY <1>1 DEF RowsShape, SplitRow, FundRow
<1>3. rows[link] \in BankRow BY <1>1, <1>2 DEF RowsShape
<1>4. Linked(rows[link], part) \in BankRow
  <2>1. rows[link] \in Row /\ rows[link].of = "none" /\ rows[link].from = "bank" /\ rows[link].to # "fund"
    BY <1>3 DEF BankRow
  <2>2. [rows[link] EXCEPT !.rial = part] \in BankRow
    <3> DEFINE t == [rows[link] EXCEPT !.rial = part]
    <3>1. t \in Row BY <2>1 DEF Row
    <3>2. t.of = "none" /\ t.from = "bank" /\ t.to # "fund" BY <2>1 DEF Row
    <3> HIDE DEF t
    <3>3. t \in BankRow BY <3>1, <3>2 DEF BankRow
    <3> QED BY <3>3 DEF t
  <2>3. [rows[link] EXCEPT !.kind = "transfer", !.to = "group"] \in BankRow
    <3> DEFINE t == [rows[link] EXCEPT !.kind = "transfer", !.to = "group"]
    <3>1. t \in Row BY <2>1 DEF Row, Accounts
    <3>2. t.of = "none" /\ t.from = "bank" /\ t.to # "fund" BY <2>1 DEF Row
    <3> HIDE DEF t
    <3>3. t \in BankRow BY <3>1, <3>2 DEF BankRow
    <3> QED BY <3>3 DEF t
  <2> QED BY <2>2, <2>3 DEF Linked
<1> QED BY <1>1, <1>2, <1>3, <1>4

\* The book in which the message is the user's part.
Taken(link, part) == IF link = 0 THEN rows ELSE [rows EXCEPT ![link] = Linked(@, part)]

LEMMA TakenIs ==
  ASSUME SharedAssumption, RowsShape, NEW total, NEW part \in Nat,
         NEW link \in {0} \cup LinkCandidates(total)
  PROVE  /\ DOMAIN Taken(link, part) = DOMAIN rows
         /\ \A i \in DOMAIN rows : i # link => Taken(link, part)[i] = rows[i]
         /\ link # 0 => Taken(link, part)[link] = Linked(rows[link], part)
         /\ \A i \in DOMAIN rows :
              Taken(link, part)[i] \in IF i <= Texts THEN BankRow ELSE SplitRow \cup FundRow
         /\ link \in 0..Texts /\ link \in Nat
<1>1. CASE link = 0 BY <1>1 DEF Taken, RowsShape, SharedAssumption
<1>2. CASE link # 0
  <2>1. link \in DOMAIN rows /\ link \in 1..Texts /\ Linked(rows[link], part) \in BankRow /\ Texts \in Nat
    BY <1>2, LinkIs DEF SharedAssumption
  <2>2. Taken(link, part) = [rows EXCEPT ![link] = Linked(rows[link], part)] BY <1>2 DEF Taken
  <2> QED BY <1>2, <2>1, <2>2 DEF RowsShape
<1> QED BY <1>1, <1>2

\* What an expense added makes of the book and the group.
Added(e, total, part, mine, link) ==
  LET new == Booked(total, part, mine, link)
      book == Taken(link, part)
      x == [total |-> total, part |-> part, mine |-> mine, ids |-> NewIds(new),
            linked |-> IF link = 0 THEN NoLink ELSE [id |-> link, before |-> rows[link]]]
  IN /\ total \in Nat \ {0} /\ part \in Nat /\ part <= total
     /\ link \in {0} \cup LinkCandidates(total) /\ link \in 0..Texts /\ (link # 0 => mine)
     /\ e \notin DOMAIN expenses /\ expenses' = Put(expenses, e, x)
     /\ new \in Seq(SplitRow) /\ Len(new) \in Nat
     /\ rows' = Pushed(book, new) /\ made' = made + Len(new)
     /\ UNCHANGED <<settled, fund, removed>>

\* What AddExpense does, in these terms.
LEMMA AddIs ==
  ASSUME SharedAssumption, RowsShape, NEW e \in Expenses, NEW total \in Totals, NEW part \in Parts,
         NEW mine \in BOOLEAN, NEW link \in {0} \cup DOMAIN rows, AddExpense(e, total, part, mine, link)
  PROVE  Added(e, total, part, mine, link)
<1> DEFINE new == Booked(total, part, mine, link)
<1>1. total \in Nat \ {0} /\ part \in Nat /\ part <= total /\ (link # 0 => mine)
      /\ link \in {0} \cup LinkCandidates(total)
  BY DEF AddExpense, SharedAssumption
<1>2. link \in 0..Texts /\ link \in Nat BY <1>1, TakenIs
<1>3. new \in Seq(SplitRow) BY <1>1, <1>2, BookedIs
<1>4. Len(new) \in Nat BY <1>3
<1>5. rows' = Pushed(Taken(link, part), new) /\ made' = made + Len(new) BY DEF AddExpense, Taken
<1>6. e \notin DOMAIN expenses /\ UNCHANGED <<settled, fund, removed>>
      /\ expenses' = Put(expenses, e,
           [total |-> total, part |-> part, mine |-> mine, ids |-> NewIds(new),
            linked |-> IF link = 0 THEN NoLink ELSE [id |-> link, before |-> rows[link]]])
  BY DEF AddExpense
<1> HIDE DEF new
<1> QED BY <1>1, <1>2, <1>3, <1>4, <1>5, <1>6 DEF new, Added

LEMMA AddKeepsShape ==
  ASSUME SharedAssumption, Shape, NEW e \in Expenses, NEW total \in Totals, NEW part \in Parts,
         NEW mine \in BOOLEAN, NEW link \in {0} \cup DOMAIN rows, AddExpense(e, total, part, mine, link)
  PROVE  Shape'
<1> DEFINE new == Booked(total, part, mine, link)
           book == Taken(link, part)
           lk == IF link = 0 THEN NoLink ELSE [id |-> link, before |-> rows[link]]
           x == [total |-> total, part |-> part, mine |-> mine, ids |-> NewIds(new), linked |-> lk]
<1>0. RowsShape /\ GroupShape /\ FundShape BY DEF Shape
<1>1. /\ total \in Nat \ {0} /\ part \in Nat /\ part <= total
      /\ link \in {0} \cup LinkCandidates(total) /\ link \in 0..Texts
      /\ e \notin DOMAIN expenses /\ expenses' = Put(expenses, e, x)
      /\ new \in Seq(SplitRow) /\ Len(new) \in Nat
      /\ rows' = Pushed(book, new) /\ made' = made + Len(new)
      /\ UNCHANGED <<settled, fund, removed>>
  BY <1>0, AddIs DEF Added
<1>2. lk \in [id : 0..Texts, before : BankRow]
  <2>1. CASE link = 0
    <3>1. NoLink.before \in BankRow BY DEF NoLink, Expense, BankRow, Row, Accounts
    <3> QED BY <2>1, <3>1, <1>1 DEF NoLink
  <2>2. CASE link # 0
    <3>1. rows[link] \in BankRow BY <1>0, <1>1, <2>2, LinkIs
    <3> QED BY <2>2, <3>1, <1>1
  <2> QED BY <2>1, <2>2
<1> HIDE DEF new, book, lk
<1>3. new \in Seq(SplitRow \cup FundRow)
  <2>1. SplitRow \subseteq SplitRow \cup FundRow OBVIOUS
  <2> QED BY <1>1, <2>1
<1>4. DOMAIN book = DOMAIN rows
      /\ \A i \in DOMAIN book : book[i] \in IF i <= Texts THEN BankRow ELSE SplitRow \cup FundRow
  BY <1>0, <1>1, TakenIs DEF book
<1>5. RowsShape' /\ made <= made' /\ NewIds(new) \subseteq Texts + 1 .. made'
  BY <1>0, <1>1, <1>3, <1>4, PushKeepsShape
<1>6. made' \in Nat /\ made \in Nat /\ Texts \in Nat BY <1>0, <1>5 DEF RowsShape, SharedAssumption
<1>7. FundShape' BY <1>0, <1>1, <1>5, <1>6, FundShapeLasts
<1>8. GroupShape'
  <2>1. x \in ExpenseRec' BY <1>1, <1>2, <1>5 DEF ExpenseRec
  <2> HIDE DEF x
  <2>2. DOMAIN expenses' = DOMAIN expenses \cup {e} /\ expenses'[e] = x
        /\ \A f \in DOMAIN expenses : expenses'[f] = expenses[f]
    <3>1. e \notin DOMAIN expenses /\ expenses' = Put(expenses, e, x) BY <1>1
    <3>2. /\ DOMAIN Put(expenses, e, x) = DOMAIN expenses \cup {e} /\ Put(expenses, e, x)[e] = x
          /\ \A f \in DOMAIN expenses : Put(expenses, e, x)[f] = expenses[f]
      BY <3>1 DEF Put
    <3> QED BY <3>1, <3>2
  <2>3. IsFiniteSet(DOMAIN expenses') BY <1>0, <2>2, FS_AddElement DEF GroupShape
  <2>4. \A f \in DOMAIN expenses : expenses[f] \in ExpenseRec'
    BY <1>0, <1>5, <1>6, RecordsLast DEF GroupShape
  <2>5. \A f \in DOMAIN expenses' : expenses'[f] \in ExpenseRec' BY <2>1, <2>2, <2>4
  <2>6. settled' \in [out : BOOLEAN, rial : Int, txn : Names']
    <3>1. \A y : y \in Names => y \in Names' BY <1>5, <1>6, RecordsLast
    <3> QED BY <1>0, <1>1, <3>1 DEF GroupShape
  <2> QED BY <2>3, <2>5, <2>6 DEF GroupShape
<1> QED BY <1>5, <1>7, <1>8 DEF Shape

\* One row more, or none.
LEMMA PushOne ==
  ASSUME SharedAssumption, RowsShape, NEW row \in SplitRow \cup FundRow,
         rows' = Pushed(rows, <<row>>), made' = made + 1
  PROVE  /\ RowsShape' /\ DOMAIN rows' = DOMAIN rows \cup {made + 1} /\ rows'[made + 1] = row
         /\ \A i \in DOMAIN rows : rows'[i] = rows[i]
         /\ made + 1 \notin DOMAIN rows /\ made + 1 \in Texts + 1 .. made'
         /\ made \in Nat /\ made' \in Nat /\ made <= made' /\ Texts \in Nat
<1> DEFINE new == <<row>>
<1>1. new \in Seq(SplitRow \cup FundRow) /\ Len(new) = 1 /\ new[1] = row OBVIOUS
<1> HIDE DEF new
<1>2. made \in Nat /\ DOMAIN rows \subseteq 1..made /\ Texts \in Nat /\ Texts <= made
      /\ \A i \in DOMAIN rows : rows[i] \in IF i <= Texts THEN BankRow ELSE SplitRow \cup FundRow
  BY DEF RowsShape, SharedAssumption
<1>3. rows' = Pushed(rows, new) /\ made' = made + Len(new) BY <1>1 DEF new
<1>4. RowsShape' /\ made <= made' BY <1>1, <1>2, <1>3, PushKeepsShape
<1>5. NewIds(new) = {made + 1} /\ made + 1 \notin DOMAIN rows
  <2>1. NewIds(new) = made + 1 .. made + 1 BY <1>1 DEF NewIds
  <2> QED BY <2>1, <1>2
<1>6. DOMAIN rows' = DOMAIN rows \cup {made + 1} /\ \A i \in DOMAIN rows : rows'[i] = rows[i]
  BY <1>3, <1>5 DEF Pushed
<1>7. rows'[made + 1] = row
  <2>1. (made + 1) - made = 1 BY <1>2
  <2> QED BY <1>1, <1>3, <1>5, <2>1 DEF Pushed
<1> QED BY <1>2, <1>4, <1>5, <1>6, <1>7

LEMMA PushNone ==
  ASSUME RowsShape, rows' = Pushed(rows, <<>>), made' = made + Len(<<>>)
  PROVE  rows' = rows /\ made' = made
<1>1. made \in Nat /\ rows = [i \in DOMAIN rows |-> rows[i]] BY DEF RowsShape
<1>2. NewIds(<<>>) = {} BY <1>1 DEF NewIds
<1> QED BY <1>1, <1>2 DEF Pushed

\* The moves of the group and the fund.
LEMMA MovesAre ==
  ASSUME NEW rial \in Int
  PROVE  /\ Transfer(rial, "bank", "group", "split") \in SplitRow
         /\ Transfer(rial, "group", "bank", "split") \in SplitRow
         /\ Transfer(rial, "bank", "fund", "fund") \in FundRow
         /\ Transfer(rial, "fund", "bank", "fund") \in FundRow
BY DEF Transfer, SplitRow, FundRow, Row, Accounts

\* A payment or a loan of the user's moves money, another member's does not.
LEMMA MemberMoves ==
  ASSUME SharedAssumption, RowsShape, NEW m \in Members, NEW row \in FundRow,
         rows' = Pushed(rows, Move(m, row)), made' = made + Len(Move(m, row))
  PROVE  /\ RowsShape' /\ made' \in Nat /\ made \in Nat /\ made <= made' /\ Texts \in Nat
         /\ TxnId(Move(m, row)) \in Names'
         /\ m = "me" => /\ TxnId(Move(m, row)) = made + 1 /\ made + 1 \notin DOMAIN rows /\ made + 1 # 0
                        /\ DOMAIN rows' = DOMAIN rows \cup {made + 1} /\ rows'[made + 1] = row
                        /\ \A i \in DOMAIN rows : rows'[i] = rows[i]
         /\ m # "me" => TxnId(Move(m, row)) = 0 /\ rows' = rows
<1>1. CASE m = "me"
  <2>1. Move(m, row) = <<row>> BY <1>1 DEF Move, If
  <2>2. made' = made + 1 /\ TxnId(Move(m, row)) = made + 1 BY <2>1 DEF TxnId
  <2>3. rows' = Pushed(rows, <<row>>) BY <2>1
  <2>4. /\ RowsShape' /\ DOMAIN rows' = DOMAIN rows \cup {made + 1} /\ rows'[made + 1] = row
        /\ \A i \in DOMAIN rows : rows'[i] = rows[i]
        /\ made + 1 \notin DOMAIN rows /\ made + 1 \in Texts + 1 .. made'
        /\ made \in Nat /\ made' \in Nat /\ made <= made' /\ Texts \in Nat
    BY <2>2, <2>3, PushOne
  <2> QED BY <1>1, <2>2, <2>4 DEF Names
<1>2. CASE m # "me"
  <2>1. Move(m, row) = <<>> BY <1>2 DEF Move, If
  <2>2. TxnId(Move(m, row)) = 0 BY <2>1 DEF TxnId
  <2>3. rows' = rows /\ made' = made BY <2>1, PushNone
  <2>4. RowsShape' /\ made \in Nat /\ Texts \in Nat BY <2>3 DEF RowsShape, SharedAssumption
  <2> QED BY <1>2, <2>2, <2>3, <2>4 DEF Names
<1> QED BY <1>1, <1>2

LEMMA OwedType == ASSUME NEW x \in ExpenseRec PROVE Owed(x) \in Int
BY DEF ExpenseRec, Owed

LEMMA NetType == ASSUME GroupShape PROVE NetOf \in Int
<1> DEFINE f == [e \in DOMAIN expenses |-> Owed(expenses[e])]
<1>1. IsFiniteSet(DOMAIN f) /\ \A e \in DOMAIN f : f[e] \in Int BY OwedType DEF GroupShape
<1>2. SumFunction(f) \in Int
  <2> HIDE DEF f
  <2> QED BY <1>1, SumType DEF SumFunction
<1>3. PaidOut(settled) \in Int BY DEF GroupShape, PaidOut
<1> QED BY <1>2, <1>3 DEF NetOf

LEMMA InstallmentType ==
  ASSUME SharedAssumption, NEW n \in Int PROVE InstallmentRial(n) \in Int
<1> DEFINE base == 10 * (LoanRial \div (10 * Installments))
<1>1. LoanRial \in Nat /\ Installments \in Nat \ {0} BY DEF SharedAssumption
<1>2. 10 * Installments \in Nat \ {0} BY <1>1
<1>3. base \in Int
  <2>1. LoanRial \div (10 * Installments) \in Int
    <3> DEFINE t == 10 * Installments
    <3>1. t \in Nat \ {0} BY <1>2
    <3> HIDE DEF t
    <3>2. LoanRial \div t \in Int BY <1>1, <3>1
    <3> QED BY <3>2 DEF t
  <2> QED BY <2>1
<1> HIDE DEF base
<1>4. base * (Installments - 1) \in Int BY <1>1, <1>3
<1>5. LoanRial - base * (Installments - 1) \in Int BY <1>1, <1>4
<1> QED BY <1>3, <1>5 DEF InstallmentRial, base

LEMMA NumberType ==
  ASSUME SharedAssumption, FundShape, NEW l \in DOMAIN loans, NEW mk \in 1..Months
  PROVE  InstallmentNo(l, mk) \in 0..Installments
<1>1. loans[l].month \in 1..Months /\ Months \in Nat /\ Installments \in Nat
  BY DEF FundShape, LoanRec, SharedAssumption
<1> QED BY <1>1 DEF InstallmentNo

\* The record of a payment.
LEMMA PayIs ==
  ASSUME SharedAssumption, Shape, NEW m \in Members, NEW mk \in 1..Months, NEW l \in {0} \cup Loans,
         Pay(m, mk, l)
  PROVE  \E rial \in Int :
           LET row == Transfer(rial, "bank", "fund", "fund")
               p == [member |-> m, month |-> mk, loan |-> l, rial |-> rial, txn |-> TxnId(Move(m, row))]
           IN /\ rial = IF l = 0 THEN ShareRial ELSE InstallmentRial(InstallmentNo(l, mk))
              /\ row \in FundRow
              /\ rows' = Pushed(rows, Move(m, row)) /\ made' = made + Len(Move(m, row))
              /\ payments' = payments \cup {p} /\ p \in PaymentRec'
              /\ UNCHANGED <<group, loans, removed>>
<1> DEFINE rial == IF l = 0 THEN ShareRial ELSE InstallmentRial(InstallmentNo(l, mk))
           row == Transfer(rial, "bank", "fund", "fund")
           p == [member |-> m, month |-> mk, loan |-> l, rial |-> rial, txn |-> TxnId(Move(m, row))]
<1>1. rial \in Int
  <2>1. CASE l = 0 BY <2>1 DEF SharedAssumption
  <2>2. CASE l # 0
    <3>1. l \in DOMAIN loans BY <2>2 DEF Pay
    <3>2. InstallmentNo(l, mk) \in Int BY <3>1, NumberType DEF Shape, SharedAssumption
    <3>3. InstallmentRial(InstallmentNo(l, mk)) \in Int BY <3>2, InstallmentType
    <3> QED BY <2>2, <3>3
  <2> QED BY <2>1, <2>2
<1>2. row \in FundRow BY <1>1, MovesAre
<1>3. /\ rows' = Pushed(rows, Move(m, row)) /\ made' = made + Len(Move(m, row))
      /\ payments' = payments \cup {p} /\ UNCHANGED <<group, loans, removed>>
  BY DEF Pay
<1> HIDE DEF rial, row
<1>4. TxnId(Move(m, row)) \in Names' BY <1>2, <1>3, MemberMoves DEF Shape
<1>5. p \in PaymentRec' BY <1>1, <1>4 DEF PaymentRec
<1> QED BY <1>1, <1>2, <1>3, <1>5 DEF rial, row

LEMMA ShapeInit == SharedAssumption /\ Init => Shape
<1> SUFFICES ASSUME SharedAssumption, Init PROVE Shape OBVIOUS
<1>0. Texts \in Nat /\ TextRial \in Nat BY DEF SharedAssumption
<1>1. DOMAIN expenses = {} /\ DOMAIN loans = {} /\ payments = {} BY DEF Init
<1>2. IsFiniteSet({}) BY FS_EmptySet
<1>3. Expense(TextRial, "bank", "none") \in BankRow BY <1>0 DEF Expense, BankRow, Row, Accounts
<1>4. RowsShape
  <2>1. made = Texts /\ DOMAIN rows = 1..Texts /\ rows = [i \in DOMAIN rows |-> rows[i]]
        /\ \A i \in DOMAIN rows : rows[i] = Expense(TextRial, "bank", "none")
    BY DEF Init
  <2>2. \A i \in DOMAIN rows : i <= Texts BY <1>0, <2>1
  <2> QED BY <1>0, <1>3, <2>1, <2>2 DEF RowsShape
<1>5. GroupShape
  <2>1. settled \in [out : BOOLEAN, rial : Int, txn : Names] BY DEF Init, Unsettled, Names
  <2> QED BY <1>1, <1>2, <2>1 DEF GroupShape
<1>6. FundShape BY <1>1, <1>2 DEF FundShape
<1> QED BY <1>4, <1>5, <1>6 DEF Shape

LEMMA ShapeStep == SharedAssumption /\ Shape /\ [Next]_vars => Shape'
<1> SUFFICES ASSUME SharedAssumption, Shape, [Next]_vars PROVE Shape' OBVIOUS
<1>0. /\ RowsShape /\ GroupShape /\ FundShape
      /\ made \in Nat /\ Texts \in Nat /\ Texts <= made /\ DOMAIN rows \subseteq 1..made
  BY DEF Shape, RowsShape, SharedAssumption
<1>a. ASSUME UNCHANGED made, UNCHANGED group PROVE GroupShape' BY <1>0, <1>a, GroupShapeLasts
<1>b. ASSUME UNCHANGED made, UNCHANGED fund PROVE FundShape' BY <1>0, <1>b, FundShapeLasts
<1>c. ASSUME NEW S, UNCHANGED made, rows' = Drop(rows, S) PROVE RowsShape'
  BY <1>0, <1>c, DropKeepsShape DEF Drop
<1>1. ASSUME NEW e \in Expenses, NEW total \in Totals, NEW part \in Parts, NEW mine \in BOOLEAN,
             NEW link \in {0} \cup DOMAIN rows, AddExpense(e, total, part, mine, link)
      PROVE  Shape'
  BY <1>1, AddKeepsShape
<1>2. ASSUME NEW e \in Expenses, DeleteExpense(e) PROVE Shape'
  <2> DEFINE x == expenses[e]
             S == x.ids
  <2>1. x \in ExpenseRec /\ e \in DOMAIN expenses BY <1>0, <1>2 DEF GroupShape, DeleteExpense
  <2>2. /\ rows' = Restored(Drop(rows, S), x.linked) /\ expenses' = Drop(expenses, {e})
        /\ UNCHANGED <<made, settled, fund, removed>>
    BY <1>2 DEF DeleteExpense
  <2>3. x.linked.id \in 0..Texts /\ x.linked.before \in BankRow BY <2>1 DEF ExpenseRec
  <2> HIDE DEF x
  <2>4. DOMAIN rows' = DOMAIN rows \ S /\ rows' = [i \in DOMAIN rows' |-> rows'[i]]
        /\ \A i \in DOMAIN rows \ S : rows'[i] = rows[i] \/ (i <= Texts /\ rows'[i] \in BankRow)
    <3> DEFINE D == Drop(rows, S)
    <3>1. DOMAIN D = DOMAIN rows \ S /\ D = [i \in DOMAIN D |-> D[i]]
          /\ \A i \in DOMAIN rows \ S : D[i] = rows[i]
      BY DEF Drop
    <3> HIDE DEF D, S
    <3>2. CASE x.linked.id \in DOMAIN D
      <4>1. rows' = [D EXCEPT ![x.linked.id] = x.linked.before] BY <2>2, <3>2 DEF Restored, D, S
      <4>2. x.linked.id <= Texts BY <1>0, <2>3
      <4> QED BY <2>3, <3>1, <3>2, <4>1, <4>2
    <3>3. CASE x.linked.id \notin DOMAIN D
      <4>1. rows' = D BY <2>2, <3>3 DEF Restored, D, S
      <4> QED BY <3>1, <4>1
    <3> QED BY <3>2, <3>3
  <2>5. RowsShape' BY <1>0, <2>2, <2>4, DropKeepsShape
  <2>6. GroupShape'
    <3>1. DOMAIN expenses' = DOMAIN expenses \ {e} /\ \A f \in DOMAIN expenses' : expenses'[f] = expenses[f]
      BY <2>2 DEF Drop
    <3>2. IsFiniteSet(DOMAIN expenses') BY <1>0, <3>1, FS_RemoveElement DEF GroupShape
    <3> QED BY <1>0, <2>2, <3>1, <3>2 DEF GroupShape, ExpenseRec, Names
  <2> QED BY <2>2, <2>5, <2>6, <1>b DEF Shape
<1>3. CASE Settle
  <2> DEFINE out == NetOf < 0
             rial == IF out THEN -NetOf ELSE NetOf
             row == Transfer(rial, IF out THEN "bank" ELSE "group", IF out THEN "group" ELSE "bank", "split")
  <2>1. rial \in Int /\ out \in BOOLEAN BY <1>0, NetType
  <2>2. rows' = Pushed(rows, <<row>>) /\ made' = made + 1 /\ UNCHANGED <<expenses, fund, removed>>
        /\ settled' = [out |-> out, rial |-> rial, txn |-> made + 1]
    BY <1>3 DEF Settle
  <2>3. row \in SplitRow BY <2>1, MovesAre
  <2> HIDE DEF row, out, rial
  <2>4. RowsShape' /\ made' \in Nat /\ made <= made' /\ made + 1 \in Texts + 1 .. made'
    BY <1>0, <2>2, <2>3, PushOne
  <2>5. FundShape' BY <1>0, <2>2, <2>4, FundShapeLasts
  <2>6. GroupShape'
    <3>1. settled' \in [out : BOOLEAN, rial : Int, txn : Names']
      <4>1. made + 1 \in Names' BY <2>4 DEF Names
      <4> QED BY <2>1, <2>2, <4>1
    <3>2. \A e \in DOMAIN expenses : expenses[e] \in ExpenseRec' BY <1>0, <2>4, RecordsLast DEF GroupShape
    <3> QED BY <1>0, <2>2, <3>1, <3>2 DEF GroupShape
  <2> QED BY <2>4, <2>5, <2>6 DEF Shape
<1>4. CASE UndoSettlement
  <2>1. rows' = Drop(rows, {settled.txn}) /\ settled' = Unsettled /\ UNCHANGED <<made, expenses, fund, removed>>
    BY <1>4 DEF UndoSettlement
  <2>2. settled' \in [out : BOOLEAN, rial : Int, txn : Names'] BY <2>1 DEF Unsettled, Names
  <2>3. GroupShape' BY <1>0, <2>1, <2>2 DEF GroupShape, ExpenseRec
  <2> QED BY <2>1, <2>3, <1>b, <1>c DEF Shape
<1>5. ASSUME NEW m \in Members, NEW mk \in 1..Months, NEW l \in {0} \cup Loans, Pay(m, mk, l)
      PROVE  Shape'
  <2>1. PICK rial \in Int :
           LET row == Transfer(rial, "bank", "fund", "fund")
               p == [member |-> m, month |-> mk, loan |-> l, rial |-> rial, txn |-> TxnId(Move(m, row))]
           IN /\ row \in FundRow
              /\ rows' = Pushed(rows, Move(m, row)) /\ made' = made + Len(Move(m, row))
              /\ payments' = payments \cup {p} /\ p \in PaymentRec'
              /\ UNCHANGED <<group, loans, removed>>
    BY <1>5, PayIs
  <2> DEFINE row == Transfer(rial, "bank", "fund", "fund")
             p == [member |-> m, month |-> mk, loan |-> l, rial |-> rial, txn |-> TxnId(Move(m, row))]
  <2>2. RowsShape' /\ made' \in Nat /\ made <= made'
    <3> HIDE DEF row
    <3>1. row \in FundRow /\ rows' = Pushed(rows, Move(m, row)) /\ made' = made + Len(Move(m, row))
      BY <2>1 DEF row
    <3> QED BY <1>0, <3>1, MemberMoves
  <2>3. GroupShape' BY <1>0, <2>1, <2>2, GroupShapeLasts
  <2>4. FundShape'
    <3>1. payments' = payments \cup {p} /\ p \in PaymentRec' /\ UNCHANGED loans BY <2>1
    <3> HIDE DEF p
    <3>2. payments \subseteq PaymentRec' /\ \A k \in DOMAIN loans : loans[k] \in LoanRec'
      BY <1>0, <2>2, RecordsLast DEF FundShape
    <3>3. IsFiniteSet(payments') BY <1>0, <3>1, FS_AddElement DEF FundShape
    <3> QED BY <1>0, <3>1, <3>2, <3>3 DEF FundShape
  <2> QED BY <2>2, <2>3, <2>4 DEF Shape
<1>6. ASSUME NEW m \in Members, NEW mk \in 1..Months, NEW l \in Loans, GiveLoan(l, m, mk)
      PROVE  Shape'
  <2> DEFINE row == Transfer(LoanRial, "fund", "bank", "fund")
             new == Move(m, row)
             x == [member |-> m, month |-> mk, txn |-> TxnId(new)]
  <2>1. /\ l \notin DOMAIN loans /\ rows' = Pushed(rows, new) /\ made' = made + Len(new)
        /\ loans' = Put(loans, l, x) /\ UNCHANGED <<group, payments, removed>>
    BY <1>6 DEF GiveLoan
  <2>2. row \in FundRow BY MovesAre DEF SharedAssumption
  <2> HIDE DEF row
  <2>3. RowsShape' /\ made' \in Nat /\ made <= made' /\ TxnId(new) \in Names'
    BY <1>0, <2>1, <2>2, MemberMoves
  <2>4. GroupShape' BY <1>0, <2>1, <2>3, GroupShapeLasts
  <2>5. x \in LoanRec' BY <2>3 DEF LoanRec
  <2> HIDE DEF x, new
  <2>6. FundShape'
    <3>1. DOMAIN loans' = DOMAIN loans \cup {l} /\ loans'[l] = x
          /\ \A k \in DOMAIN loans : loans'[k] = loans[k]
      BY <2>1 DEF Put
    <3>2. payments \subseteq PaymentRec' /\ \A k \in DOMAIN loans : loans[k] \in LoanRec'
      BY <1>0, <2>3, RecordsLast DEF FundShape
    <3>3. IsFiniteSet(DOMAIN loans') BY <1>0, <3>1, FS_AddElement DEF FundShape
    <3> QED BY <1>0, <2>1, <2>5, <3>1, <3>2, <3>3 DEF FundShape
  <2> QED BY <2>3, <2>4, <2>6 DEF Shape
<1>7. ASSUME NEW p \in payments, UndoPayment(p) PROVE Shape'
  <2>1. rows' = Drop(rows, {p.txn}) /\ payments' = payments \ {p} /\ UNCHANGED <<made, group, loans, removed>>
    BY <1>7 DEF UndoPayment
  <2>2. IsFiniteSet(payments') BY <1>0, <2>1, FS_RemoveElement DEF FundShape
  <2>3. FundShape' BY <1>0, <2>1, <2>2 DEF FundShape, PaymentRec, LoanRec, Names
  <2> QED BY <2>1, <2>3, <1>a, <1>c DEF Shape
<1>8. ASSUME NEW l \in Loans, UndoLoan(l) PROVE Shape'
  <2>1. /\ rows' = Drop(rows, {loans[l].txn}) /\ loans' = Drop(loans, {l})
        /\ UNCHANGED <<made, group, payments, removed>>
    BY <1>8 DEF UndoLoan
  <2>2. DOMAIN loans' = DOMAIN loans \ {l} /\ \A k \in DOMAIN loans' : loans'[k] = loans[k]
    BY <2>1 DEF Drop
  <2>3. IsFiniteSet(DOMAIN loans') BY <1>0, <2>2, FS_RemoveElement DEF FundShape
  <2>4. FundShape' BY <1>0, <2>1, <2>2, <2>3 DEF FundShape, PaymentRec, LoanRec, Names
  <2> QED BY <2>1, <2>4, <1>a, <1>c DEF Shape
<1>9. ASSUME NEW i \in DOMAIN rows, DeleteTxn(i) PROVE Shape'
  <2>1. rows' = Drop(rows, {i}) /\ UNCHANGED made BY <1>9 DEF DeleteTxn
  <2>2. RowsShape' BY <2>1, <1>c
  <2>3. CASE UNCHANGED <<group, fund>> BY <2>1, <2>2, <2>3, <1>a, <1>b DEF Shape
  <2>4. CASE /\ expenses' = ForgetSplitTxn(i)
             /\ settled' = [settled EXCEPT !.txn = IF @ = i THEN 0 ELSE @] /\ UNCHANGED fund
    <3>1. DOMAIN expenses' = DOMAIN expenses
          /\ \A e \in DOMAIN expenses : expenses'[e] = [expenses[e] EXCEPT !.ids = @ \ {i}]
      BY <2>4 DEF ForgetSplitTxn
    <3>2. \A e \in DOMAIN expenses : expenses'[e] \in ExpenseRec
      <4> TAKE e \in DOMAIN expenses
      <4>1. expenses[e] \in ExpenseRec BY <1>0 DEF GroupShape
      <4>2. [expenses[e] EXCEPT !.ids = @ \ {i}] \in ExpenseRec BY <4>1 DEF ExpenseRec
      <4> QED BY <3>1, <4>2
    <3>3. settled' \in [out : BOOLEAN, rial : Int, txn : Names] BY <1>0, <2>4 DEF GroupShape, Names
    <3>4. ExpenseRec' = ExpenseRec /\ Names' = Names BY <2>1 DEF ExpenseRec, Names
    <3>5. GroupShape' BY <1>0, <3>1, <3>2, <3>3, <3>4 DEF GroupShape
    <3> QED BY <2>1, <2>2, <2>4, <3>5, <1>b DEF Shape
  <2>5. CASE /\ payments' = ForgetFundTxn(i) /\ UNCHANGED group
             /\ loans' = [l \in DOMAIN loans |-> [loans[l] EXCEPT !.txn = IF @ = i THEN 0 ELSE @]]
    <3>1. payments' \subseteq payments BY <2>5 DEF ForgetFundTxn
    <3>2. IsFiniteSet(payments') BY <1>0, <3>1, FS_Subset DEF FundShape
    <3>3. \A l \in DOMAIN loans : loans'[l] \in LoanRec BY <1>0, <2>5 DEF FundShape, LoanRec, Names
    <3>4. PaymentRec' = PaymentRec /\ LoanRec' = LoanRec BY <2>1 DEF PaymentRec, LoanRec, Names
    <3>5. FundShape' BY <1>0, <2>5, <3>1, <3>2, <3>3, <3>4 DEF FundShape
    <3> QED BY <2>1, <2>2, <2>5, <3>5, <1>a DEF Shape
  <2> QED BY <1>9, <2>3, <2>4, <2>5 DEF DeleteTxn
<1>10. CASE UNCHANGED vars
  BY <1>0, <1>10 DEF vars, group, fund, Shape, RowsShape, GroupShape, FundShape, ExpenseRec, PaymentRec, LoanRec, Names
<1> QED BY <1>1, <1>2, <1>3, <1>4, <1>5, <1>6, <1>7, <1>8, <1>9, <1>10 DEF Next

LEMMA ShapeAlways == Spec => []Shape
<1>1. Init => Shape BY ShapeInit, SharedAssumption
<1>2. Shape /\ [Next]_vars => Shape' BY ShapeStep, SharedAssumption
<1> QED BY <1>1, <1>2, PTL DEF Spec

---------------------------------------------------------------------------
(* Which rows the records name. *)

RowsOf(of, from) == {i \in DOMAIN rows : rows[i].of = of /\ rows[i].from \in from}
SplitRows   == RowsOf("split", {"bank", "group"})
PaymentRows == RowsOf("fund", {"bank"})
LoanRows    == RowsOf("fund", {"fund"})
ExpenseIds  == UNION {expenses[e].ids : e \in DOMAIN expenses}

GroupNamed ==
  /\ ExpenseIds \cup ({settled.txn} \ {0}) = SplitRows
  /\ settled.txn \notin ExpenseIds
  /\ \A e, f \in DOMAIN expenses : e # f => expenses[e].ids \cap expenses[f].ids = {}
PaymentsNamed ==
  /\ {p.txn : p \in payments} \ {0} = PaymentRows
  /\ \A p, q \in payments : p # q /\ p.txn = q.txn => p.txn = 0
LoansNamed ==
  /\ {loans[l].txn : l \in DOMAIN loans} \ {0} = LoanRows
  /\ \A k, l \in DOMAIN loans : k # l /\ loans[k].txn = loans[l].txn => loans[k].txn = 0

LEMMA NamedParts == RowsAreNamed <=> GroupNamed /\ PaymentsNamed /\ LoansNamed
BY DEF RowsAreNamed, GroupNamed, PaymentsNamed, LoansNamed, RowsOf, SplitRows, PaymentRows, LoanRows, ExpenseIds

\* An id is a row of one kind, and was given.
LEMMA KindsApart ==
  ASSUME SharedAssumption, RowsShape
  PROVE  /\ \A i \in SplitRows \cup PaymentRows \cup LoanRows : i \in DOMAIN rows /\ i \in 1..made /\ i # 0
         /\ SplitRows \cap PaymentRows = {} /\ SplitRows \cap LoanRows = {} /\ PaymentRows \cap LoanRows = {}
         /\ made \in Nat
<1>1. made \in Nat /\ DOMAIN rows \subseteq 1..made BY DEF RowsShape
<1>2. SplitRows \subseteq DOMAIN rows /\ PaymentRows \subseteq DOMAIN rows /\ LoanRows \subseteq DOMAIN rows
  BY DEF SplitRows, PaymentRows, LoanRows, RowsOf
<1>3. SplitRows \cap PaymentRows = {} /\ SplitRows \cap LoanRows = {} /\ PaymentRows \cap LoanRows = {}
  BY DEF SplitRows, PaymentRows, LoanRows, RowsOf
<1> QED BY <1>1, <1>2, <1>3

\* Rows that go away, and bank rows that change.
LEMMA RowsDropped ==
  ASSUME NEW S, DOMAIN rows' = DOMAIN rows \ S,
         \A i \in DOMAIN rows \ S : rows'[i] = rows[i] \/ (rows[i].of = "none" /\ rows'[i].of = "none")
  PROVE  SplitRows' = SplitRows \ S /\ PaymentRows' = PaymentRows \ S /\ LoanRows' = LoanRows \ S
<1>1. ASSUME NEW of, of # "none", NEW from PROVE RowsOf(of, from)' = RowsOf(of, from) \ S
  BY <1>1 DEF RowsOf
<1> QED BY <1>1 DEF SplitRows, PaymentRows, LoanRows

\* One row more, of the kind it is.
LEMMA RowAdded ==
  ASSUME NEW i, i \notin DOMAIN rows, DOMAIN rows' = DOMAIN rows \cup {i},
         \A j \in DOMAIN rows : rows'[j] = rows[j]
  PROVE  /\ SplitRows' = IF rows'[i].of = "split" /\ rows'[i].from \in {"bank", "group"}
                         THEN SplitRows \cup {i} ELSE SplitRows
         /\ PaymentRows' = IF rows'[i].of = "fund" /\ rows'[i].from = "bank"
                         THEN PaymentRows \cup {i} ELSE PaymentRows
         /\ LoanRows' = IF rows'[i].of = "fund" /\ rows'[i].from = "fund"
                         THEN LoanRows \cup {i} ELSE LoanRows
BY DEF SplitRows, PaymentRows, LoanRows, RowsOf

\* The rows of an expense.
LEMMA ExpensePushed ==
  ASSUME SharedAssumption, RowsShape, NEW total, NEW part \in Nat,
         NEW link \in {0} \cup LinkCandidates(total), NEW new \in Seq(SplitRow),
         rows' = Pushed(Taken(link, part), new)
  PROVE  /\ SplitRows' = SplitRows \cup NewIds(new)
         /\ PaymentRows' = PaymentRows /\ LoanRows' = LoanRows
<1> DEFINE book == Taken(link, part)
<1>1. made \in Nat /\ DOMAIN rows \subseteq 1..made /\ Len(new) \in Nat
      /\ \A j \in 1..Len(new) : new[j] \in SplitRow
  BY DEF RowsShape
<1>2. DOMAIN book = DOMAIN rows
      /\ \A i \in DOMAIN rows : book[i] = rows[i] \/ (rows[i].of = "none" /\ book[i].of = "none")
  <2>1. DOMAIN book = DOMAIN rows /\ \A i \in DOMAIN rows : i # link => book[i] = rows[i] BY TakenIs
  <2>2. ASSUME link # 0 PROVE rows[link].of = "none" /\ book[link].of = "none"
    BY <2>2, LinkIs, TakenIs DEF BankRow
  <2>3. 0 \notin DOMAIN rows BY <1>1
  <2> HIDE DEF book
  <2> QED BY <2>1, <2>2, <2>3
<1> HIDE DEF book
<1>3. /\ DOMAIN rows' = DOMAIN rows \cup NewIds(new)
      /\ \A i \in DOMAIN rows : rows'[i] = book[i]
      /\ \A i \in NewIds(new) : rows'[i] \in SplitRow /\ i \notin DOMAIN rows
  <2>1. rows' = Pushed(book, new) BY DEF book
  <2>2. /\ DOMAIN Pushed(book, new) = DOMAIN book \cup NewIds(new)
        /\ \A i \in DOMAIN book : Pushed(book, new)[i] = book[i]
        /\ \A i \in NewIds(new) : /\ Pushed(book, new)[i] = new[i - made] /\ i - made \in 1..Len(new)
                                  /\ i \notin DOMAIN book
    BY <1>1, <1>2, PushedIs
  <2> QED BY <1>1, <1>2, <2>1, <2>2
<1>4. \A i \in NewIds(new) : rows'[i].of = "split" /\ rows'[i].from \in {"bank", "group"}
  BY <1>3 DEF SplitRow
<1> QED BY <1>2, <1>3, <1>4 DEF SplitRows, PaymentRows, LoanRows, RowsOf

LEMMA RowsAreNamedInit == SharedAssumption /\ Init => RowsAreNamed
<1> SUFFICES ASSUME SharedAssumption, Init PROVE RowsAreNamed OBVIOUS
<1>1. \A i \in DOMAIN rows : rows[i].of = "none" BY DEF Init, Expense
<1>2. DOMAIN expenses = {} /\ DOMAIN loans = {} /\ payments = {} /\ settled.txn = 0 BY DEF Init, Unsettled
<1> QED BY <1>1, <1>2 DEF RowsAreNamed

LEMMA RowsAreNamedStep ==
  SharedAssumption /\ Shape /\ RowsAreNamed /\ [Next]_vars => RowsAreNamed'
<1> SUFFICES ASSUME SharedAssumption, Shape, RowsAreNamed, [Next]_vars
             PROVE  GroupNamed' /\ PaymentsNamed' /\ LoansNamed'
  BY DEF RowsAreNamed, GroupNamed, PaymentsNamed, LoansNamed, RowsOf, SplitRows, PaymentRows, LoanRows, ExpenseIds
<1>0. /\ RowsShape /\ GroupShape /\ FundShape /\ GroupNamed /\ PaymentsNamed /\ LoansNamed
      /\ made \in Nat /\ Texts \in Nat /\ DOMAIN rows \subseteq 1..made /\ 0 \notin DOMAIN rows
  BY NamedParts DEF Shape, RowsShape, SharedAssumption
<1>k. /\ \A i \in SplitRows \cup PaymentRows \cup LoanRows : i \in DOMAIN rows /\ i \in 1..made /\ i # 0
      /\ SplitRows \cap PaymentRows = {} /\ SplitRows \cap LoanRows = {} /\ PaymentRows \cap LoanRows = {}
  BY <1>0, KindsApart
<1>g. ASSUME UNCHANGED group, UNCHANGED SplitRows PROVE GroupNamed'
  BY <1>0, <1>g DEF GroupNamed, ExpenseIds, group
<1>p. ASSUME UNCHANGED payments, UNCHANGED PaymentRows PROVE PaymentsNamed'
  BY <1>0, <1>p DEF PaymentsNamed
<1>l. ASSUME UNCHANGED loans, UNCHANGED LoanRows PROVE LoansNamed'
  BY <1>0, <1>l DEF LoansNamed
<1>1. ASSUME NEW e \in Expenses, NEW total \in Totals, NEW part \in Parts, NEW mine \in BOOLEAN,
             NEW link \in {0} \cup DOMAIN rows, AddExpense(e, total, part, mine, link)
      PROVE  GroupNamed' /\ PaymentsNamed' /\ LoansNamed'
  <2> DEFINE new == Booked(total, part, mine, link)
             x == [total |-> total, part |-> part, mine |-> mine, ids |-> NewIds(new),
                   linked |-> IF link = 0 THEN NoLink ELSE [id |-> link, before |-> rows[link]]]
  <2>1. /\ part \in Nat /\ link \in {0} \cup LinkCandidates(total)
        /\ e \notin DOMAIN expenses /\ expenses' = Put(expenses, e, x)
        /\ new \in Seq(SplitRow) /\ Len(new) \in Nat
        /\ rows' = Pushed(Taken(link, part), new) /\ UNCHANGED <<settled, fund, removed>>
    BY <1>0, <1>1, AddIs DEF Added
  <2>2. x.ids = NewIds(new) OBVIOUS
  <2> HIDE DEF x, new
  <2>3. SplitRows' = SplitRows \cup NewIds(new) /\ PaymentRows' = PaymentRows /\ LoanRows' = LoanRows
    BY <1>0, <2>1, ExpensePushed
  <2>4. /\ DOMAIN expenses' = DOMAIN expenses \cup {e} /\ expenses'[e].ids = NewIds(new)
        /\ \A f \in DOMAIN expenses : expenses'[f] = expenses[f]
    BY <2>1, <2>2 DEF Put
  <2>5. ExpenseIds' = ExpenseIds \cup NewIds(new)
    BY <2>1, <2>4 DEF ExpenseIds
  <2>6. \A i \in NewIds(new) : i > made BY <1>0, <2>1 DEF NewIds
  <2>7. settled.txn \in 0..made
    <3>1. settled.txn \in Names BY <1>0 DEF GroupShape
    <3> QED BY <1>0, <3>1 DEF Names
  <2>8. ExpenseIds \cap NewIds(new) = {} /\ settled.txn \notin NewIds(new)
    <3>1. \A i \in ExpenseIds : i \in 1..made BY <1>0, <1>k DEF GroupNamed
    <3> QED BY <1>0, <2>6, <2>7, <3>1
  <2>9. \A f \in DOMAIN expenses : expenses[f].ids \subseteq ExpenseIds BY DEF ExpenseIds
  <2>10. GroupNamed'
    <3>1. (ExpenseIds \cup ({settled.txn} \ {0}) = SplitRows)' BY <1>0, <2>1, <2>3, <2>5 DEF GroupNamed
    <3>2. (settled.txn \notin ExpenseIds)' BY <1>0, <2>1, <2>5, <2>8 DEF GroupNamed
    <3>3. \A f, g \in DOMAIN expenses' : f # g => expenses'[f].ids \cap expenses'[g].ids = {}
      <4> TAKE f, g \in DOMAIN expenses'
      <4>1. CASE f # e /\ g # e BY <1>0, <2>4, <4>1 DEF GroupNamed
      <4>2. CASE f = e \/ g = e BY <2>4, <2>8, <2>9, <4>2
      <4> QED BY <4>1, <4>2
    <3> QED BY <3>1, <3>2, <3>3 DEF GroupNamed
  <2>11. UNCHANGED <<payments, loans>> BY <2>1 DEF fund
  <2> QED BY <2>3, <2>10, <2>11, <1>p, <1>l
<1>2. ASSUME NEW e \in Expenses, DeleteExpense(e) PROVE GroupNamed' /\ PaymentsNamed' /\ LoansNamed'
  <2> DEFINE S == expenses[e].ids
             D == Drop(rows, S)
             lk == expenses[e].linked
  <2>1. /\ e \in DOMAIN expenses /\ rows' = Restored(D, lk) /\ expenses' = Drop(expenses, {e})
        /\ UNCHANGED <<settled, payments, loans>>
    BY <1>2 DEF DeleteExpense, fund
  <2>2. lk.id \in 0..Texts /\ lk.before \in BankRow BY <1>0, <2>1 DEF GroupShape, ExpenseRec
  <2>3. DOMAIN D = DOMAIN rows \ S /\ \A i \in DOMAIN rows \ S : D[i] = rows[i] BY DEF Drop
  <2> HIDE DEF D, lk
  <2>4. DOMAIN rows' = DOMAIN rows \ S
        /\ \A i \in DOMAIN rows \ S : rows'[i] = rows[i] \/ (rows[i].of = "none" /\ rows'[i].of = "none")
    <3>1. CASE lk.id \in DOMAIN D
      <4>1. rows' = [D EXCEPT ![lk.id] = lk.before] BY <2>1, <3>1 DEF Restored
      <4>2. lk.id <= Texts /\ lk.id \in DOMAIN rows BY <1>0, <2>2, <2>3, <3>1
      <4>3. rows[lk.id].of = "none" /\ lk.before.of = "none" BY <1>0, <2>2, <4>2 DEF RowsShape, BankRow
      <4> HIDE DEF S
      <4> QED BY <2>3, <4>1, <4>3
    <3>2. CASE lk.id \notin DOMAIN D BY <2>1, <2>3, <3>2 DEF Restored
    <3> QED BY <3>1, <3>2
  <2> HIDE DEF S
  <2>5. SplitRows' = SplitRows \ S /\ PaymentRows' = PaymentRows \ S /\ LoanRows' = LoanRows \ S
    BY <2>4, RowsDropped
  <2>6. S \subseteq ExpenseIds /\ S \subseteq SplitRows BY <1>0, <2>1 DEF S, ExpenseIds, GroupNamed
  <2>7. UNCHANGED <<PaymentRows, LoanRows>> BY <1>k, <2>5, <2>6
  <2>8. DOMAIN expenses' = DOMAIN expenses \ {e} /\ \A f \in DOMAIN expenses' : expenses'[f] = expenses[f]
    BY <2>1 DEF Drop
  <2>9. ExpenseIds' = ExpenseIds \ S
    <3>1. \A f \in DOMAIN expenses : f # e => expenses[f].ids \cap S = {} BY <1>0, <2>1 DEF GroupNamed, S
    <3>2. ExpenseIds' = UNION {expenses[f].ids : f \in DOMAIN expenses \ {e}} BY <2>8 DEF ExpenseIds
    <3>3. ExpenseIds = (UNION {expenses[f].ids : f \in DOMAIN expenses \ {e}}) \cup S BY <2>1 DEF ExpenseIds, S
    <3>4. (UNION {expenses[f].ids : f \in DOMAIN expenses \ {e}}) \cap S = {} BY <3>1
    <3> QED BY <3>2, <3>3, <3>4
  <2>10. GroupNamed'
    <3>1. settled.txn \notin S BY <1>0, <2>6 DEF GroupNamed
    <3>2. (ExpenseIds \cup ({settled.txn} \ {0}) = SplitRows)' BY <1>0, <2>1, <2>5, <2>9, <3>1 DEF GroupNamed
    <3>3. settled' = settled /\ settled.txn \notin ExpenseIds' BY <1>0, <2>1, <2>9 DEF GroupNamed
    <3>4. \A f, h \in DOMAIN expenses' : f # h => expenses'[f].ids \cap expenses'[h].ids = {}
      BY <1>0, <2>8 DEF GroupNamed
    <3> QED BY <3>2, <3>3, <3>4 DEF GroupNamed
  <2> QED BY <2>1, <2>7, <2>10, <1>p, <1>l
<1>3. CASE Settle
  <2>1. PICK rial, from, to :
          LET row == Transfer(rial, from, to, "split") IN
          /\ from \in {"bank", "group"} /\ row \in SplitRow
          /\ rows' = Pushed(rows, <<row>>) /\ made' = made + 1
          /\ settled.txn = 0 /\ settled'.txn = made + 1 /\ UNCHANGED <<expenses, payments, loans>>
    <3> DEFINE out == NetOf < 0
               rial == IF out THEN -NetOf ELSE NetOf
    <3>1. rial \in Int BY <1>0, NetType
    <3>2. /\ rows' = Pushed(rows, <<Transfer(rial, IF out THEN "bank" ELSE "group",
                                             IF out THEN "group" ELSE "bank", "split")>>)
          /\ made' = made + 1 /\ settled = Unsettled
          /\ settled' = [out |-> out, rial |-> rial, txn |-> made + 1]
          /\ UNCHANGED <<expenses, payments, loans>>
      BY <1>3 DEF Settle, fund
    <3>3. settled.txn = 0 /\ settled'.txn = made + 1 BY <3>2 DEF Unsettled
    <3>4. (IF out THEN "bank" ELSE "group") \in {"bank", "group"} OBVIOUS
    <3> HIDE DEF out, rial
    <3>5. Transfer(rial, IF out THEN "bank" ELSE "group", IF out THEN "group" ELSE "bank", "split") \in SplitRow
      BY <3>1, MovesAre
    <3> QED BY <3>2, <3>3, <3>4, <3>5
  <2> DEFINE row == Transfer(rial, from, to, "split")
  <2>2. row.of = "split" /\ row.from \in {"bank", "group"} BY <2>1 DEF Transfer
  <2> HIDE DEF row
  <2>3. /\ row \in SplitRow /\ rows' = Pushed(rows, <<row>>) /\ made' = made + 1
        /\ settled.txn = 0 /\ settled'.txn = made + 1 /\ UNCHANGED <<expenses, payments, loans>>
    BY <2>1 DEF row
  <2>4. /\ DOMAIN rows' = DOMAIN rows \cup {made + 1} /\ rows'[made + 1] = row
        /\ \A i \in DOMAIN rows : rows'[i] = rows[i] /\ made + 1 \notin DOMAIN rows
    BY <1>0, <2>3, PushOne
  <2>5. made + 1 \notin DOMAIN rows /\ made + 1 # 0 BY <1>0
  <2>6. SplitRows' = SplitRows \cup {made + 1} /\ UNCHANGED <<PaymentRows, LoanRows>>
    BY <2>2, <2>4, <2>5, RowAdded
  <2>7. ExpenseIds' = ExpenseIds BY <2>3 DEF ExpenseIds
  <2>8. GroupNamed' BY <1>0, <1>k, <2>3, <2>5, <2>6, <2>7 DEF GroupNamed
  <2> QED BY <2>3, <2>6, <2>8, <1>p, <1>l
<1>4. CASE UndoSettlement
  <2>1. rows' = Drop(rows, {settled.txn}) /\ settled' = Unsettled /\ UNCHANGED <<expenses, payments, loans>>
    BY <1>4 DEF UndoSettlement, fund
  <2>2. SplitRows' = SplitRows \ {settled.txn} /\ PaymentRows' = PaymentRows \ {settled.txn}
        /\ LoanRows' = LoanRows \ {settled.txn}
    BY <2>1, RowsDropped DEF Drop
  <2>3. settled.txn = 0 \/ settled.txn \in SplitRows BY <1>0 DEF GroupNamed
  <2>4. UNCHANGED <<PaymentRows, LoanRows>> BY <1>k, <2>2, <2>3
  <2>5. ExpenseIds' = ExpenseIds BY <2>1 DEF ExpenseIds
  <2>6. settled'.txn = 0 BY <2>1 DEF Unsettled
  <2>7. 0 \notin ExpenseIds BY <1>0, <1>k DEF GroupNamed
  <2>8. (ExpenseIds \cup ({settled.txn} \ {0}) = SplitRows)'
    BY <1>0, <1>k, <2>2, <2>5, <2>6, <2>7 DEF GroupNamed
  <2>9. GroupNamed' BY <1>0, <2>1, <2>5, <2>6, <2>7, <2>8 DEF GroupNamed
  <2> QED BY <2>1, <2>4, <2>9, <1>p, <1>l
<1>5. ASSUME NEW m \in Members, NEW mk \in 1..Months, NEW l \in {0} \cup Loans, Pay(m, mk, l)
      PROVE  GroupNamed' /\ PaymentsNamed' /\ LoansNamed'
  <2>1. PICK rial \in Int :
           LET row == Transfer(rial, "bank", "fund", "fund")
               p == [member |-> m, month |-> mk, loan |-> l, rial |-> rial, txn |-> TxnId(Move(m, row))]
           IN /\ row \in FundRow
              /\ rows' = Pushed(rows, Move(m, row)) /\ made' = made + Len(Move(m, row))
              /\ payments' = payments \cup {p} /\ p \in PaymentRec'
              /\ UNCHANGED <<group, loans, removed>>
    BY <1>0, <1>5, PayIs
  <2> DEFINE row == Transfer(rial, "bank", "fund", "fund")
             id == TxnId(Move(m, row))
             p == [member |-> m, month |-> mk, loan |-> l, rial |-> rial, txn |-> id]
  <2>2. row.of = "fund" /\ row.from = "bank" BY DEF Transfer
  <2>3. row \in FundRow /\ rows' = Pushed(rows, Move(m, row)) /\ made' = made + Len(Move(m, row))
        /\ payments' = payments \cup {p} /\ p.txn = id /\ UNCHANGED <<group, loans>>
    BY <2>1
  <2> HIDE DEF row, p, id
  <2>4. /\ SplitRows' = SplitRows /\ LoanRows' = LoanRows
        /\ PaymentRows' = PaymentRows \cup ({id} \ {0}) /\ (id # 0 => id = made + 1)
    <3>1. CASE m = "me"
      <4>1. /\ id = made + 1 /\ made + 1 \notin DOMAIN rows /\ made + 1 # 0
            /\ DOMAIN rows' = DOMAIN rows \cup {made + 1} /\ rows'[made + 1] = row
            /\ \A i \in DOMAIN rows : rows'[i] = rows[i]
        BY <1>0, <2>3, <3>1, MemberMoves DEF id
      <4> QED BY <2>2, <4>1, RowAdded
    <3>2. CASE m # "me"
      <4>1. id = 0 /\ rows' = rows BY <1>0, <2>3, <3>2, MemberMoves DEF id
      <4> QED BY <4>1 DEF SplitRows, LoanRows, PaymentRows, RowsOf
    <3> QED BY <3>1, <3>2
  <2>5. PaymentsNamed'
    <3>1. \A q \in payments : q.txn # 0 => q.txn \in 1..made BY <1>0, <1>k DEF PaymentsNamed
    <3>2. \A q \in payments : q.txn # 0 => q.txn # id BY <1>0, <2>4, <3>1
    <3>3. ({q.txn : q \in payments} \ {0} = PaymentRows)' BY <1>0, <2>3, <2>4 DEF PaymentsNamed
    <3>4. \A q, r \in payments' : q # r /\ q.txn = r.txn => q.txn = 0
      BY <1>0, <2>3, <3>2 DEF PaymentsNamed
    <3> QED BY <3>3, <3>4 DEF PaymentsNamed
  <2> QED BY <2>3, <2>4, <2>5, <1>g, <1>l
<1>6. ASSUME NEW m \in Members, NEW mk \in 1..Months, NEW l \in Loans, GiveLoan(l, m, mk)
      PROVE  GroupNamed' /\ PaymentsNamed' /\ LoansNamed'
  <2> DEFINE row == Transfer(LoanRial, "fund", "bank", "fund")
             id == TxnId(Move(m, row))
             x == [member |-> m, month |-> mk, txn |-> id]
  <2>1. /\ l \notin DOMAIN loans /\ rows' = Pushed(rows, Move(m, row)) /\ made' = made + Len(Move(m, row))
        /\ loans' = Put(loans, l, x) /\ x.txn = id /\ UNCHANGED <<group, payments>>
    BY <1>6 DEF GiveLoan
  <2>2. row.of = "fund" /\ row.from = "fund" BY DEF Transfer
  <2>3. row \in FundRow BY MovesAre DEF SharedAssumption
  <2> HIDE DEF row, x, id
  <2>4. /\ SplitRows' = SplitRows /\ PaymentRows' = PaymentRows
        /\ LoanRows' = LoanRows \cup ({id} \ {0}) /\ (id # 0 => id = made + 1)
    <3>1. CASE m = "me"
      <4>1. /\ id = made + 1 /\ made + 1 \notin DOMAIN rows /\ made + 1 # 0
            /\ DOMAIN rows' = DOMAIN rows \cup {made + 1} /\ rows'[made + 1] = row
            /\ \A i \in DOMAIN rows : rows'[i] = rows[i]
        BY <1>0, <2>1, <2>3, <3>1, MemberMoves DEF id
      <4> QED BY <2>2, <4>1, RowAdded
    <3>2. CASE m # "me"
      <4>1. id = 0 /\ rows' = rows BY <1>0, <2>1, <2>3, <3>2, MemberMoves DEF id
      <4> QED BY <4>1 DEF SplitRows, LoanRows, PaymentRows, RowsOf
    <3> QED BY <3>1, <3>2
  <2>5. LoansNamed'
    <3>1. DOMAIN loans' = DOMAIN loans \cup {l} /\ loans'[l].txn = id
          /\ \A k \in DOMAIN loans : loans'[k] = loans[k]
      BY <2>1 DEF Put
    <3>2. \A k \in DOMAIN loans : loans[k].txn # 0 => loans[k].txn \in 1..made BY <1>0, <1>k DEF LoansNamed
    <3>3. \A k \in DOMAIN loans : loans[k].txn # 0 => loans[k].txn # id BY <1>0, <2>4, <3>2
    <3>4. {loans'[k].txn : k \in DOMAIN loans'} = {loans[k].txn : k \in DOMAIN loans} \cup {id}
      BY <2>1, <3>1
    <3>5. ({loans[k].txn : k \in DOMAIN loans} \ {0} = LoanRows)' BY <1>0, <2>4, <3>4 DEF LoansNamed
    <3>6. \A j, k \in DOMAIN loans' : j # k /\ loans'[j].txn = loans'[k].txn => loans'[j].txn = 0
      BY <1>0, <3>1, <3>3 DEF LoansNamed
    <3> QED BY <3>5, <3>6 DEF LoansNamed
  <2> QED BY <2>1, <2>4, <2>5, <1>g, <1>p
<1>7. ASSUME NEW p \in payments, UndoPayment(p) PROVE GroupNamed' /\ PaymentsNamed' /\ LoansNamed'
  <2>1. rows' = Drop(rows, {p.txn}) /\ payments' = payments \ {p} /\ UNCHANGED <<group, loans>>
    BY <1>7 DEF UndoPayment
  <2>2. SplitRows' = SplitRows \ {p.txn} /\ PaymentRows' = PaymentRows \ {p.txn} /\ LoanRows' = LoanRows \ {p.txn}
    BY <2>1, RowsDropped DEF Drop
  <2>3. p.txn = 0 \/ p.txn \in PaymentRows BY <1>0 DEF PaymentsNamed
  <2>4. UNCHANGED <<SplitRows, LoanRows>> BY <1>k, <2>2, <2>3
  <2>5. \A q \in payments : q # p /\ q.txn = p.txn => q.txn = 0 BY <1>0 DEF PaymentsNamed
  <2>6. {q.txn : q \in payments'} \ {0} = ({q.txn : q \in payments} \ {0}) \ {p.txn} BY <2>1, <2>5
  <2>7. PaymentsNamed' BY <1>0, <2>1, <2>2, <2>6 DEF PaymentsNamed
  <2> QED BY <2>1, <2>4, <2>7, <1>g, <1>l
<1>8. ASSUME NEW l \in Loans, UndoLoan(l) PROVE GroupNamed' /\ PaymentsNamed' /\ LoansNamed'
  <2> DEFINE id == loans[l].txn
  <2>1. l \in DOMAIN loans /\ rows' = Drop(rows, {id}) /\ loans' = Drop(loans, {l}) /\ UNCHANGED <<group, payments>>
    BY <1>8 DEF UndoLoan, MayUndoLoan
  <2>2. SplitRows' = SplitRows \ {id} /\ PaymentRows' = PaymentRows \ {id} /\ LoanRows' = LoanRows \ {id}
    <3> HIDE DEF id
    <3> QED BY <2>1, RowsDropped DEF Drop
  <2>3. id = 0 \/ id \in LoanRows BY <1>0, <2>1 DEF LoansNamed
  <2>4. UNCHANGED <<SplitRows, PaymentRows>>
    <3> HIDE DEF id
    <3> QED BY <1>k, <2>2, <2>3
  <2>5. \A k \in DOMAIN loans : k # l /\ loans[k].txn = id => loans[k].txn = 0 BY <1>0, <2>1 DEF LoansNamed
  <2>6. DOMAIN loans' = DOMAIN loans \ {l} /\ \A k \in DOMAIN loans' : loans'[k] = loans[k] BY <2>1 DEF Drop
  <2>7. {loans'[k].txn : k \in DOMAIN loans'} \ {0} = ({loans[k].txn : k \in DOMAIN loans} \ {0}) \ {id}
    <3>1. \A k \in DOMAIN loans' : loans'[k].txn = loans[k].txn /\ (loans[k].txn # 0 => loans[k].txn # id)
      BY <2>5, <2>6
    <3>2. \A k \in DOMAIN loans : loans[k].txn # id => k \in DOMAIN loans' BY <2>6
    <3> HIDE DEF id
    <3> QED BY <2>6, <3>1, <3>2
  <2> HIDE DEF id
  <2>8. LoansNamed' BY <1>0, <2>2, <2>6, <2>7 DEF LoansNamed
  <2> QED BY <2>1, <2>4, <2>8, <1>g, <1>p
<1>9. ASSUME NEW i \in DOMAIN rows, DeleteTxn(i) PROVE GroupNamed' /\ PaymentsNamed' /\ LoansNamed'
  <2>1. rows' = Drop(rows, {i}) /\ i # 0 BY <1>0, <1>9 DEF DeleteTxn
  <2>2. SplitRows' = SplitRows \ {i} /\ PaymentRows' = PaymentRows \ {i} /\ LoanRows' = LoanRows \ {i}
    BY <2>1, RowsDropped DEF Drop
  <2>3. CASE rows[i].of = "none" /\ UNCHANGED <<group, fund>>
    <3>1. UNCHANGED <<SplitRows, PaymentRows, LoanRows>>
      BY <2>2, <2>3 DEF SplitRows, PaymentRows, LoanRows, RowsOf
    <3> QED BY <2>3, <3>1, <1>g, <1>p, <1>l DEF fund
  <2>4. CASE /\ rows[i].of = "split" /\ expenses' = ForgetSplitTxn(i)
             /\ settled' = [settled EXCEPT !.txn = IF @ = i THEN 0 ELSE @] /\ UNCHANGED fund
    <3>1. UNCHANGED <<PaymentRows, LoanRows>> BY <2>2, <2>4 DEF PaymentRows, LoanRows, RowsOf
    <3>2. DOMAIN expenses' = DOMAIN expenses /\ \A e \in DOMAIN expenses : expenses'[e].ids = expenses[e].ids \ {i}
      <4>1. \A e \in DOMAIN expenses : expenses[e] \in ExpenseRec BY <1>0 DEF GroupShape
      <4> QED BY <2>4, <4>1 DEF ForgetSplitTxn, ExpenseRec
    <3>3. ExpenseIds' = ExpenseIds \ {i} BY <3>2 DEF ExpenseIds
    <3>4. settled'.txn = IF settled.txn = i THEN 0 ELSE settled.txn BY <1>0, <2>4 DEF GroupShape
    <3>5. 0 \notin ExpenseIds BY <1>0, <1>k DEF GroupNamed
    <3>6. (ExpenseIds \cup ({settled.txn} \ {0}) = SplitRows)' BY <1>0, <2>1, <2>2, <3>3, <3>4 DEF GroupNamed
    <3>7. (settled.txn \notin ExpenseIds)' BY <1>0, <3>3, <3>4, <3>5 DEF GroupNamed
    <3>8. \A e, f \in DOMAIN expenses' : e # f => expenses'[e].ids \cap expenses'[f].ids = {}
      BY <1>0, <3>2 DEF GroupNamed
    <3>9. GroupNamed' BY <3>6, <3>7, <3>8 DEF GroupNamed
    <3> QED BY <2>4, <3>1, <3>9, <1>p, <1>l DEF fund
  <2>5. CASE /\ rows[i].of = "fund" /\ payments' = ForgetFundTxn(i) /\ UNCHANGED group
             /\ loans' = [l \in DOMAIN loans |-> [loans[l] EXCEPT !.txn = IF @ = i THEN 0 ELSE @]]
    <3>1. UNCHANGED SplitRows BY <2>2, <2>5 DEF SplitRows, RowsOf
    <3>2. payments' = {p \in payments : p.txn # i} BY <2>5 DEF ForgetFundTxn
    <3>3. {p.txn : p \in payments'} \ {0} = ({p.txn : p \in payments} \ {0}) \ {i} BY <3>2
    <3>4. PaymentsNamed' BY <1>0, <2>2, <3>2, <3>3 DEF PaymentsNamed
    <3>5. DOMAIN loans' = DOMAIN loans
          /\ \A l \in DOMAIN loans : loans'[l].txn = IF loans[l].txn = i THEN 0 ELSE loans[l].txn
      <4>1. \A l \in DOMAIN loans : loans[l] \in LoanRec BY <1>0 DEF FundShape
      <4> QED BY <2>5, <4>1 DEF LoanRec
    <3>6. {loans'[l].txn : l \in DOMAIN loans'} \ {0} = ({loans[l].txn : l \in DOMAIN loans} \ {0}) \ {i}
      BY <2>1, <3>5
    <3>7. \A k, l \in DOMAIN loans' : k # l /\ loans'[k].txn = loans'[l].txn => loans'[k].txn = 0
      BY <1>0, <3>5 DEF LoansNamed
    <3>8. LoansNamed' BY <1>0, <2>2, <3>6, <3>7 DEF LoansNamed
    <3> QED BY <2>5, <3>1, <3>4, <3>8, <1>g
  <2> QED BY <1>9, <2>3, <2>4, <2>5 DEF DeleteTxn
<1>10. CASE UNCHANGED vars
  BY <1>10, <1>g, <1>p, <1>l DEF vars, group, fund, SplitRows, PaymentRows, LoanRows, RowsOf
<1> QED BY <1>1, <1>2, <1>3, <1>4, <1>5, <1>6, <1>7, <1>8, <1>9, <1>10 DEF Next

\* The records name exactly the rows that were made for them, in every state.
THEOREM RowsStayNamed == Spec => []RowsAreNamed
<1>1. Init => RowsAreNamed BY RowsAreNamedInit, SharedAssumption
<1>2. Shape /\ RowsAreNamed /\ [Next]_vars => RowsAreNamed' BY RowsAreNamedStep, SharedAssumption
<1> QED BY <1>1, <1>2, ShapeAlways, PTL DEF Spec

---------------------------------------------------------------------------
(* Balances: the sum of what the rows of a book do to an account. *)

Effects(book, a) == [i \in DOMAIN book |-> Effect(book[i], a)]
EffectAt(book, i, a) == IF i \in DOMAIN book THEN Effect(book[i], a) ELSE 0
BalanceIn(book, a) == SumFunction(Effects(book, a))
IsBook(book) == IsFiniteSet(DOMAIN book) /\ \A i \in DOMAIN book : book[i] \in Row

LEMMA EffectType == ASSUME NEW t \in Row, NEW a PROVE Effect(t, a) \in Int
BY DEF Row, Effect

LEMMA EffectAtType == ASSUME NEW b, IsBook(b), NEW i, NEW a PROVE EffectAt(b, i, a) \in Int
BY EffectType DEF EffectAt, IsBook

\* Two books that differ at one id at most.
LEMMA BalanceAt ==
  ASSUME NEW b, IsBook(b), NEW c, IsBook(c), NEW a, NEW y,
         \A i \in DOMAIN b \cup DOMAIN c : i # y => EffectAt(b, i, a) = EffectAt(c, i, a)
  PROVE  /\ BalanceIn(b, a) \in Int /\ BalanceIn(c, a) \in Int
         /\ BalanceIn(c, a) = BalanceIn(b, a) + EffectAt(c, y, a) - EffectAt(b, y, a)
<1> DEFINE f == Effects(b, a)
           g == Effects(c, a)
<1>1. /\ DOMAIN f = DOMAIN b /\ DOMAIN g = DOMAIN c
      /\ \A i : At(f, i) = EffectAt(b, i, a) /\ At(g, i) = EffectAt(c, i, a)
  BY DEF Effects, EffectAt, At
<1>2. (\A x \in DOMAIN f : f[x] \in Int) /\ (\A x \in DOMAIN g : g[x] \in Int)
  BY EffectType DEF Effects, IsBook
<1>3. IsFiniteSet(DOMAIN f) /\ IsFiniteSet(DOMAIN g) BY <1>1 DEF IsBook
<1>4. BalanceIn(b, a) = SumFunction(f) /\ BalanceIn(c, a) = SumFunction(g) BY DEF BalanceIn
<1> HIDE DEF f, g
<1>5. \A x \in DOMAIN f \cup DOMAIN g : x # y => At(f, x) = At(g, x) BY <1>1
<1>6. /\ SumFunction(f) \in Int /\ SumFunction(g) \in Int
      /\ SumFunction(g) = SumFunction(f) + At(g, y) - At(f, y)
  BY <1>2, <1>3, <1>5, SumAt
<1> QED BY <1>1, <1>4, <1>6

LEMMA BalanceSame ==
  ASSUME NEW b, IsBook(b), NEW c, IsBook(c), NEW a,
         \A i \in DOMAIN b \cup DOMAIN c : EffectAt(b, i, a) = EffectAt(c, i, a)
  PROVE  BalanceIn(c, a) = BalanceIn(b, a) /\ BalanceIn(b, a) \in Int
<1>1. /\ BalanceIn(b, a) \in Int /\ BalanceIn(c, a) \in Int
      /\ BalanceIn(c, a) = BalanceIn(b, a) + EffectAt(c, 0, a) - EffectAt(b, 0, a)
  BY BalanceAt
<1>2. EffectAt(c, 0, a) = EffectAt(b, 0, a) BY DEF EffectAt
<1>3. EffectAt(c, 0, a) \in Int BY EffectAtType
<1> QED BY <1>1, <1>2, <1>3

LEMMA RowsAreABook == ASSUME SharedAssumption, RowsShape PROVE IsBook(rows)
<1>1. DOMAIN rows \subseteq 1..made /\ made \in Nat BY DEF RowsShape
<1>2. IsFiniteSet(DOMAIN rows)
  <2>1. IsFiniteSet(1..made) BY <1>1, FS_Interval
  <2> QED BY <1>1, <2>1, FS_Subset
<1>3. \A i \in DOMAIN rows : rows[i] \in Row BY DEF RowsShape, BankRow, SplitRow, FundRow
<1> QED BY <1>2, <1>3 DEF IsBook

LEMMA BalanceIs == \A a : Balance(a) = BalanceIn(rows, a)
BY DEF Balance, BalanceIn, Effects

\* Sums of payments.
LEMMA PaidAdds ==
  ASSUME NEW S, IsFiniteSet(S), \A q \in S : q.rial \in Int, NEW p, p \notin S, p.rial \in Int
  PROVE  Paid(S \cup {p}) = Paid(S) + p.rial /\ Paid(S) \in Int
<1> DEFINE f == [q \in S |-> q.rial]
           g == [q \in S \cup {p} |-> q.rial]
<1>1. IsFiniteSet(S \cup {p}) BY FS_AddElement
<1>2. DOMAIN f = S /\ DOMAIN g = S \cup {p} /\ (\A q \in S : At(f, q) = At(g, q)) /\ At(f, p) = 0 /\ At(g, p) = p.rial
      /\ (\A q \in DOMAIN f : f[q] \in Int) /\ \A q \in DOMAIN g : g[q] \in Int
  BY DEF At
<1>3. Paid(S) = SumFunction(f) /\ Paid(S \cup {p}) = SumFunction(g) BY DEF Paid
<1> HIDE DEF f, g
<1>4. \A x \in DOMAIN f \cup DOMAIN g : x # p => At(f, x) = At(g, x) BY <1>2
<1>5. /\ SumFunction(f) \in Int /\ SumFunction(g) \in Int
      /\ SumFunction(g) = SumFunction(f) + At(g, p) - At(f, p)
  BY <1>1, <1>2, <1>4, SumAt
<1> QED BY <1>2, <1>3, <1>5

LEMMA PaidRemoves ==
  ASSUME NEW S, IsFiniteSet(S), \A q \in S : q.rial \in Int, NEW p \in S
  PROVE  Paid(S \ {p}) = Paid(S) - p.rial /\ Paid(S) \in Int
<1> DEFINE T == S \ {p}
<1>1. IsFiniteSet(T) BY FS_RemoveElement
<1>2. T \cup {p} = S /\ p \notin T /\ \A q \in T : q.rial \in Int OBVIOUS
<1> HIDE DEF T
<1>3. Paid(T \cup {p}) = Paid(T) + p.rial /\ Paid(T) \in Int BY <1>1, <1>2, PaidAdds
<1>4. Paid(S) = Paid(T) + p.rial /\ Paid(T) \in Int BY <1>2, <1>3
<1>5. p.rial \in Int OBVIOUS
<1> QED BY <1>4, <1>5 DEF T

LEMMA PaidNothing == Paid({}) = 0
<1>1. DOMAIN [p \in {} |-> p.rial] = {} OBVIOUS
<1> QED BY <1>1, SumEmpty DEF Paid, SumFunction

LEMMA PaidType ==
  ASSUME NEW S, IsFiniteSet(S), \A q \in S : q.rial \in Int PROVE Paid(S) \in Int
<1> DEFINE f == [q \in S |-> q.rial]
<1>1. DOMAIN f = S /\ \A q \in S : f[q] \in Int OBVIOUS
<1>2. Paid(S) = SumFunctionOnSet(f, S) BY DEF Paid, SumFunction
<1> HIDE DEF f
<1> QED BY <1>1, <1>2, SumType

---------------------------------------------------------------------------
(* The fund's account. *)

FundRowsStay ==
  /\ \A i \in DOMAIN rows : rows[i].of = "fund" => i \in DOMAIN rows' /\ rows'[i] = rows[i]
  /\ \A i \in DOMAIN rows' : rows'[i].of = "fund" => i \in DOMAIN rows /\ rows[i] = rows'[i]

\* The row of a payment or a loan of the user's is what was moved for it, the
\* others have none; a loan of the user's without a row had it deleted.
FundLinks ==
  /\ \A p \in payments :
       IF p.member = "me"
       THEN p.txn \in DOMAIN rows /\ rows[p.txn] = Transfer(p.rial, "bank", "fund", "fund")
       ELSE p.txn = 0
  /\ \A l \in DOMAIN loans : loans[l].txn # 0 =>
       /\ loans[l].member = "me" /\ loans[l].txn \in DOMAIN rows
       /\ rows[loans[l].txn] = Transfer(LoanRial, "fund", "bank", "fund")
  /\ "loan" \notin removed => \A l \in DOMAIN loans : loans[l].member = "me" => loans[l].txn # 0

LEMMA OnlyFundRowsCount ==
  ASSUME RowsShape, NEW i \in DOMAIN rows, rows[i].of # "fund" PROVE Effect(rows[i], "fund") = 0
<1>1. rows[i].from # "fund" /\ rows[i].to # "fund" BY DEF RowsShape, BankRow, SplitRow, FundRow
<1> QED BY <1>1 DEF Effect

LEMMA FundBalanceKept ==
  ASSUME SharedAssumption, RowsShape, RowsShape', FundRowsStay
  PROVE  Balance("fund")' = Balance("fund")
<1> DEFINE b == rows
           c == rows'
<1>1. IsBook(b) /\ IsBook(c)
  <2>1. IsBook(rows) BY RowsAreABook
  <2>2. IsBook(rows)' BY RowsShape', SharedAssumption, RowsAreABook, PTL
  <2> QED BY <2>1, <2>2 DEF IsBook
<1>2. \A i \in DOMAIN b : b[i].of # "fund" => Effect(b[i], "fund") = 0 BY OnlyFundRowsCount
<1>3. \A i \in DOMAIN c : c[i].of # "fund" => Effect(c[i], "fund") = 0
  <2>1. \A i \in DOMAIN c : (c[i].from # "fund" /\ c[i].to # "fund") \/ c[i].of = "fund"
    BY DEF RowsShape, BankRow, SplitRow, FundRow
  <2> QED BY <2>1 DEF Effect
<1>4. \A i \in DOMAIN b \cup DOMAIN c : EffectAt(b, i, "fund") = EffectAt(c, i, "fund")
  BY <1>2, <1>3 DEF EffectAt, FundRowsStay
<1> HIDE DEF b, c
<1>5. BalanceIn(c, "fund") = BalanceIn(b, "fund") BY <1>1, <1>4, BalanceSame
<1> QED BY <1>5 DEF b, c, Balance, BalanceIn, Effects

LEMMA FundKept ==
  ASSUME SharedAssumption, RowsShape, RowsShape', FundLinks, FundIsPosition, FundRowsStay,
         UNCHANGED fund, removed \subseteq removed'
  PROVE  FundLinks' /\ FundIsPosition'
<1>1. UNCHANGED <<payments, loans>> BY DEF fund
<1>2. FundLinks'
  <2>1. \A p \in payments :
          IF p.member = "me"
          THEN p.txn \in DOMAIN rows' /\ rows'[p.txn] = Transfer(p.rial, "bank", "fund", "fund")
          ELSE p.txn = 0
    <3> TAKE p \in payments
    <3>1. Transfer(p.rial, "bank", "fund", "fund").of = "fund" BY DEF Transfer
    <3> QED BY <3>1 DEF FundLinks, FundRowsStay
  <2>2. \A l \in DOMAIN loans : loans[l].txn # 0 =>
          /\ loans[l].member = "me" /\ loans[l].txn \in DOMAIN rows'
          /\ rows'[loans[l].txn] = Transfer(LoanRial, "fund", "bank", "fund")
    BY DEF FundLinks, FundRowsStay, Transfer
  <2> QED BY <1>1, <2>1, <2>2 DEF FundLinks
<1>3. Balance("fund")' = Balance("fund") BY FundBalanceKept
<1>4. FundIsPosition'
  <2>1. Paid(Mine(payments))' = Paid(Mine(payments)) /\ MyLoans' = MyLoans BY <1>1 DEF Paid, Mine, MyLoans
  <2> QED BY <1>3, <2>1 DEF FundIsPosition
<1> QED BY <1>2, <1>4

FundInv == Shape /\ RowsAreNamed /\ FundLinks /\ FundIsPosition

\* A step of the group, or a deleted row that is not the fund's, leaves its rows.
LEMMA DropLeavesFund ==
  ASSUME RowsShape, NEW S, rows' = Drop(rows, S), \A i \in S \cap DOMAIN rows : rows[i].of # "fund"
  PROVE  FundRowsStay
BY DEF Drop, FundRowsStay

LEMMA PushLeavesFund ==
  ASSUME SharedAssumption, RowsShape, NEW total, NEW part \in Nat,
         NEW link \in {0} \cup LinkCandidates(total), NEW new \in Seq(SplitRow),
         rows' = Pushed(Taken(link, part), new)
  PROVE  FundRowsStay
<1> DEFINE book == Taken(link, part)
<1>1. made \in Nat /\ DOMAIN rows \subseteq 1..made /\ Len(new) \in Nat
      /\ \A j \in 1..Len(new) : new[j] \in SplitRow
  BY DEF RowsShape
<1>2. DOMAIN book = DOMAIN rows
      /\ \A i \in DOMAIN rows : book[i] = rows[i] \/ (rows[i].of = "none" /\ book[i].of = "none")
  <2>1. DOMAIN book = DOMAIN rows /\ \A i \in DOMAIN rows : i # link => book[i] = rows[i] BY TakenIs
  <2>2. ASSUME link # 0 PROVE rows[link].of = "none" /\ book[link].of = "none"
    BY <2>2, LinkIs, TakenIs DEF BankRow
  <2>3. 0 \notin DOMAIN rows BY <1>1
  <2> HIDE DEF book
  <2> QED BY <2>1, <2>2, <2>3
<1> HIDE DEF book
<1>3. /\ DOMAIN rows' = DOMAIN rows \cup NewIds(new)
      /\ \A i \in DOMAIN rows : rows'[i] = book[i]
      /\ \A i \in NewIds(new) : rows'[i] \in SplitRow
  <2>1. rows' = Pushed(book, new) BY DEF book
  <2>2. /\ DOMAIN Pushed(book, new) = DOMAIN book \cup NewIds(new)
        /\ \A i \in DOMAIN book : Pushed(book, new)[i] = book[i]
        /\ \A i \in NewIds(new) : /\ Pushed(book, new)[i] = new[i - made] /\ i - made \in 1..Len(new)
                                  /\ i \notin DOMAIN book
    BY <1>1, <1>2, PushedIs
  <2> QED BY <1>1, <1>2, <2>1, <2>2
<1>4. \A i \in NewIds(new) : rows'[i].of = "split" BY <1>3 DEF SplitRow
<1> QED BY <1>2, <1>3, <1>4 DEF FundRowsStay

LEMMA RestoreLeavesFund ==
  ASSUME SharedAssumption, RowsShape, NEW S, \A i \in S \cap DOMAIN rows : rows[i].of # "fund",
         NEW lk, lk.id \in 0..Texts, lk.before \in BankRow, rows' = Restored(Drop(rows, S), lk)
  PROVE  FundRowsStay
<1> DEFINE D == Drop(rows, S)
<1>1. DOMAIN D = DOMAIN rows \ S /\ \A i \in DOMAIN rows \ S : D[i] = rows[i] BY DEF Drop
<1> HIDE DEF D
<1>2. CASE lk.id \in DOMAIN D
  <2>1. rows' = [D EXCEPT ![lk.id] = lk.before] BY <1>2 DEF Restored, D
  <2>2. lk.id <= Texts /\ lk.id \in DOMAIN rows BY <1>1, <1>2 DEF SharedAssumption
  <2>3. rows[lk.id].of = "none" /\ lk.before.of = "none" BY <2>2 DEF RowsShape, BankRow
  <2> QED BY <1>1, <2>1, <2>3 DEF FundRowsStay
<1>3. CASE lk.id \notin DOMAIN D
  <2>1. rows' = D BY <1>3 DEF Restored, D
  <2> QED BY <1>1, <2>1 DEF FundRowsStay
<1> QED BY <1>2, <1>3

LEMMA FundInit == SharedAssumption /\ Init => FundLinks /\ FundIsPosition
<1> SUFFICES ASSUME SharedAssumption, Init PROVE FundLinks /\ FundIsPosition OBVIOUS
<1>1. DOMAIN loans = {} /\ payments = {} BY DEF Init
<1>2. RowsShape BY ShapeInit DEF Shape
<1>3. Balance("fund") = 0
  <2> DEFINE f == [i \in DOMAIN rows |-> Effect(rows[i], "fund")]
  <2>1. \A i \in DOMAIN rows : rows[i].of # "fund" BY DEF Init, Expense
  <2>2. \A i \in DOMAIN f : f[i] = 0 BY <1>2, <2>1, OnlyFundRowsCount
  <2>3. IsFiniteSet(DOMAIN f) BY <1>2, RowsAreABook DEF IsBook
  <2>4. Balance("fund") = SumFunctionOnSet(f, DOMAIN f) BY DEF Balance, SumFunction
  <2> HIDE DEF f
  <2> QED BY <2>2, <2>3, <2>4, SumZeros
<1>4. MyLoans = {} /\ Mine(payments) = {} BY <1>1 DEF MyLoans, Mine
<1>5. Paid(Mine(payments)) - Cardinality(MyLoans) * LoanRial = 0
  <2>1. Paid(Mine(payments)) = 0 /\ Cardinality(MyLoans) = 0 /\ LoanRial \in Int
    BY <1>4, PaidNothing, FS_EmptySet DEF SharedAssumption
  <2> QED BY <2>1
<1> QED BY <1>1, <1>3, <1>5 DEF FundLinks, FundIsPosition

\* What a step does to a balance when it changes one row at most.
LEMMA BookChanges ==
  ASSUME SharedAssumption, RowsShape, RowsShape', NEW a, NEW y,
         \A i \in DOMAIN rows \cup DOMAIN rows' : i # y => EffectAt(rows, i, a) = EffectAt(rows', i, a)
  PROVE  /\ Balance(a) \in Int /\ Balance(a)' \in Int
         /\ Balance(a)' = Balance(a) + EffectAt(rows', y, a) - EffectAt(rows, y, a)
<1> DEFINE b == rows
           c == rows'
<1>1. IsBook(b) /\ IsBook(c)
  <2>1. IsBook(rows) BY RowsAreABook
  <2>2. IsBook(rows)' BY RowsShape', SharedAssumption, RowsAreABook, PTL
  <2> QED BY <2>1, <2>2 DEF IsBook
<1>2. \A i \in DOMAIN b \cup DOMAIN c : i # y => EffectAt(b, i, a) = EffectAt(c, i, a) OBVIOUS
<1>3. Balance(a) = BalanceIn(b, a) /\ Balance(a)' = BalanceIn(c, a) BY DEF Balance, BalanceIn, Effects
<1> HIDE DEF b, c
<1>4. /\ BalanceIn(b, a) \in Int /\ BalanceIn(c, a) \in Int
      /\ BalanceIn(c, a) = BalanceIn(b, a) + EffectAt(c, y, a) - EffectAt(b, y, a)
  BY <1>1, <1>2, BalanceAt
<1> QED BY <1>3, <1>4 DEF b, c

LEMMA MineAre ==
  ASSUME FundShape
  PROVE  /\ IsFiniteSet(Mine(payments)) /\ \A p \in Mine(payments) : p.rial \in Int
         /\ IsFiniteSet(MyLoans) /\ Cardinality(MyLoans) \in Nat
<1>1. Mine(payments) \subseteq payments /\ MyLoans \subseteq DOMAIN loans BY DEF Mine, MyLoans
<1>2. IsFiniteSet(Mine(payments)) /\ IsFiniteSet(MyLoans) BY <1>1, FS_Subset DEF FundShape
<1>3. \A p \in Mine(payments) : p.rial \in Int BY <1>1 DEF FundShape, PaymentRec
<1> QED BY <1>2, <1>3, FS_CardinalityType

\* A payment or a loan of the user's, of which a row is made or deleted.
LEMMA PaymentMoves ==
  ASSUME NEW rial \in Int
  PROVE  /\ Effect(Transfer(rial, "bank", "fund", "fund"), "fund") = rial
         /\ Effect(Transfer(rial, "bank", "fund", "fund"), "bank") = -rial
         /\ Effect(Transfer(rial, "fund", "bank", "fund"), "fund") = -rial
         /\ Effect(Transfer(rial, "fund", "bank", "fund"), "bank") = rial
BY DEF Effect, Transfer

LEMMA PayStep ==
  ASSUME SharedAssumption, FundInv, RowsShape', NEW m \in Members, NEW mk \in 1..Months, NEW l \in {0} \cup Loans,
         Pay(m, mk, l)
  PROVE  FundLinks' /\ FundIsPosition'
<1>0. Shape /\ RowsShape /\ FundShape /\ RowsAreNamed /\ FundLinks /\ FundIsPosition
      /\ PaymentsNamed /\ LoansNamed BY NamedParts DEF FundInv, Shape
<1>1. PICK rial \in Int :
         LET row == Transfer(rial, "bank", "fund", "fund")
             p == [member |-> m, month |-> mk, loan |-> l, rial |-> rial, txn |-> TxnId(Move(m, row))]
         IN /\ row \in FundRow
            /\ rows' = Pushed(rows, Move(m, row)) /\ made' = made + Len(Move(m, row))
            /\ payments' = payments \cup {p} /\ p \in PaymentRec'
            /\ UNCHANGED <<group, loans, removed>>
  BY <1>0, PayIs
<1> DEFINE row == Transfer(rial, "bank", "fund", "fund")
           id == TxnId(Move(m, row))
           p == [member |-> m, month |-> mk, loan |-> l, rial |-> rial, txn |-> id]
<1>2. row \in FundRow /\ rows' = Pushed(rows, Move(m, row)) /\ made' = made + Len(Move(m, row))
      /\ payments' = payments \cup {p} /\ p.txn = id /\ p.member = m /\ p.rial = rial /\ UNCHANGED <<loans, removed>>
  BY <1>1
<1>3. p \notin payments
  <2>1. PaymentsOf(m, mk, l) = {} BY DEF Pay
  <2>2. p.member = m /\ p.month = mk /\ p.loan = l OBVIOUS
  <2> HIDE DEF p
  <2> QED BY <2>1, <2>2 DEF PaymentsOf
<1>4. MyLoans' = MyLoans BY <1>2 DEF MyLoans
<1>5. Effect(row, "fund") = rial BY <1>1, PaymentMoves
<1>6. /\ IsFiniteSet(Mine(payments)) /\ \A q \in Mine(payments) : q.rial \in Int BY <1>0, MineAre
<1> HIDE DEF p
<1>7. CASE m = "me"
  <2> HIDE DEF row
  <2>1. /\ id = made + 1 /\ made + 1 \notin DOMAIN rows /\ made + 1 # 0
        /\ DOMAIN rows' = DOMAIN rows \cup {made + 1} /\ rows'[made + 1] = row
        /\ \A i \in DOMAIN rows : rows'[i] = rows[i]
    BY <1>0, <1>2, <1>7, MemberMoves
  <2> HIDE DEF id
  <2>2. FundLinks'
    <3>1. rows'[id] = Transfer(p.rial, "bank", "fund", "fund") BY <1>2, <2>1 DEF row
    <3>2. \A q \in payments' :
            IF q.member = "me"
            THEN q.txn \in DOMAIN rows' /\ rows'[q.txn] = Transfer(q.rial, "bank", "fund", "fund")
            ELSE q.txn = 0
      BY <1>0, <1>2, <1>7, <2>1, <3>1 DEF FundLinks
    <3> QED BY <1>0, <1>2, <2>1, <3>2 DEF FundLinks
  <2>3. \A i \in DOMAIN rows \cup DOMAIN rows' : i # id => EffectAt(rows, i, "fund") = EffectAt(rows', i, "fund")
    BY <2>1 DEF EffectAt
  <2>4. EffectAt(rows, id, "fund") = 0 /\ EffectAt(rows', id, "fund") = rial BY <1>5, <2>1 DEF EffectAt
  <2>5. Balance("fund") \in Int /\ Balance("fund")' = Balance("fund") + rial
    <3>1. Balance("fund") \in Int /\ Balance("fund")' = Balance("fund") + EffectAt(rows', id, "fund") - EffectAt(rows, id, "fund")
      BY <1>0, <2>3, BookChanges
    <3> QED BY <2>4, <3>1
  <2>6. Mine(payments)' = Mine(payments) \cup {p} /\ p \notin Mine(payments) BY <1>2, <1>3, <1>7 DEF Mine
  <2>7. Paid(Mine(payments))' = Paid(Mine(payments)) + rial /\ Paid(Mine(payments)) \in Int
    <3>1. Paid(Mine(payments))' = Paid(Mine(payments) \cup {p}) BY <2>6 DEF Paid
    <3>2. p.rial \in Int /\ p.rial = rial BY <1>2
    <3> QED BY <1>6, <2>6, <3>1, <3>2, PaidAdds
  <2>8. Cardinality(MyLoans) * LoanRial \in Int BY <1>0, MineAre DEF SharedAssumption
  <2> QED BY <1>0, <1>2, <1>4, <2>2, <2>5, <2>7, <2>8 DEF FundIsPosition
<1>8. CASE m # "me"
  <2> HIDE DEF row
  <2>1. id = 0 /\ rows' = rows BY <1>0, <1>2, <1>8, MemberMoves
  <2> HIDE DEF id
  <2>2. FundLinks' BY <1>0, <1>2, <1>8, <2>1 DEF FundLinks
  <2>3. Mine(payments)' = Mine(payments) BY <1>2, <1>8 DEF Mine
  <2>4. Balance("fund")' = Balance("fund") /\ Paid(Mine(payments))' = Paid(Mine(payments))
    BY <2>1, <2>3 DEF Balance, Paid
  <2> QED BY <1>0, <1>2, <1>4, <2>2, <2>4 DEF FundIsPosition
<1> QED BY <1>7, <1>8

LEMMA GiveStep ==
  ASSUME SharedAssumption, FundInv, RowsShape', NEW m \in Members, NEW mk \in 1..Months, NEW l \in Loans,
         GiveLoan(l, m, mk)
  PROVE  FundLinks' /\ FundIsPosition'
<1>0. RowsShape /\ FundShape /\ FundLinks /\ FundIsPosition BY DEF FundInv, Shape
<1> DEFINE row == Transfer(LoanRial, "fund", "bank", "fund")
           id == TxnId(Move(m, row))
           x == [member |-> m, month |-> mk, txn |-> id]
<1>1. /\ l \notin DOMAIN loans /\ rows' = Pushed(rows, Move(m, row)) /\ made' = made + Len(Move(m, row))
      /\ loans' = Put(loans, l, x) /\ x.txn = id /\ x.member = m /\ UNCHANGED <<payments, removed>>
  BY DEF GiveLoan
<1>2. row \in FundRow /\ LoanRial \in Int BY MovesAre DEF SharedAssumption
<1>3. Effect(row, "fund") = -LoanRial BY <1>2, PaymentMoves
<1> HIDE DEF x
<1>4. DOMAIN loans' = DOMAIN loans \cup {l} /\ loans'[l] = x /\ \A k \in DOMAIN loans : loans'[k] = loans[k]
  BY <1>1 DEF Put
<1>5. Paid(Mine(payments))' = Paid(Mine(payments)) BY <1>1 DEF Paid, Mine
<1>6. Paid(Mine(payments)) \in Int /\ IsFiniteSet(MyLoans) /\ Cardinality(MyLoans) \in Nat
  BY <1>0, MineAre, PaidType
<1>7. CASE m = "me"
  <2> HIDE DEF row
  <2>1. /\ id = made + 1 /\ made + 1 \notin DOMAIN rows /\ made + 1 # 0
        /\ DOMAIN rows' = DOMAIN rows \cup {made + 1} /\ rows'[made + 1] = row
        /\ \A i \in DOMAIN rows : rows'[i] = rows[i]
    BY <1>0, <1>1, <1>2, <1>7, MemberMoves
  <2> HIDE DEF id
  <2>2. FundLinks'
    <3>1. \A q \in payments :
            IF q.member = "me"
            THEN q.txn \in DOMAIN rows' /\ rows'[q.txn] = Transfer(q.rial, "bank", "fund", "fund")
            ELSE q.txn = 0
      BY <1>0, <2>1 DEF FundLinks
    <3>2. \A k \in DOMAIN loans' : loans'[k].txn # 0 =>
            /\ loans'[k].member = "me" /\ loans'[k].txn \in DOMAIN rows'
            /\ rows'[loans'[k].txn] = Transfer(LoanRial, "fund", "bank", "fund")
      BY <1>0, <1>1, <1>4, <1>7, <2>1 DEF FundLinks, row
    <3>3. "loan" \notin removed => \A k \in DOMAIN loans' : loans'[k].member = "me" => loans'[k].txn # 0
      BY <1>0, <1>1, <1>4, <2>1 DEF FundLinks
    <3> QED BY <1>1, <3>1, <3>2, <3>3 DEF FundLinks
  <2>3. \A i \in DOMAIN rows \cup DOMAIN rows' : i # id => EffectAt(rows, i, "fund") = EffectAt(rows', i, "fund")
    BY <2>1 DEF EffectAt
  <2>4. EffectAt(rows, id, "fund") = 0 /\ EffectAt(rows', id, "fund") = -LoanRial BY <1>3, <2>1 DEF EffectAt
  <2>5. Balance("fund") \in Int /\ Balance("fund")' = Balance("fund") - LoanRial
    <3>1. Balance("fund") \in Int /\ Balance("fund")' = Balance("fund") + EffectAt(rows', id, "fund") - EffectAt(rows, id, "fund")
      BY <1>0, <2>3, BookChanges
    <3> QED BY <1>2, <2>4, <3>1
  <2>6. MyLoans' = MyLoans \cup {l} /\ l \notin MyLoans BY <1>1, <1>4, <1>7 DEF MyLoans
  <2>7. Cardinality(MyLoans') = Cardinality(MyLoans) + 1 BY <1>6, <2>6, FS_AddElement
  <2>8. (Cardinality(MyLoans) + 1) * LoanRial = Cardinality(MyLoans) * LoanRial + LoanRial
        /\ Cardinality(MyLoans) * LoanRial \in Int
    BY <1>2, <1>6
  <2> QED BY <1>0, <1>1, <1>2, <1>5, <1>6, <2>2, <2>5, <2>7, <2>8 DEF FundIsPosition
<1>8. CASE m # "me"
  <2> HIDE DEF row
  <2>1. id = 0 /\ rows' = rows BY <1>0, <1>1, <1>2, <1>8, MemberMoves
  <2> HIDE DEF id
  <2>2. FundLinks'
    <3>1. \A k \in DOMAIN loans' : loans'[k].txn # 0 =>
            /\ loans'[k].member = "me" /\ loans'[k].txn \in DOMAIN rows
            /\ rows[loans'[k].txn] = Transfer(LoanRial, "fund", "bank", "fund")
      BY <1>0, <1>1, <1>4, <2>1 DEF FundLinks
    <3>2. "loan" \notin removed => \A k \in DOMAIN loans' : loans'[k].member = "me" => loans'[k].txn # 0
      BY <1>0, <1>1, <1>4, <1>8 DEF FundLinks
    <3> QED BY <1>0, <1>1, <2>1, <3>1, <3>2 DEF FundLinks
  <2>3. MyLoans' = MyLoans BY <1>1, <1>4, <1>8 DEF MyLoans
  <2>4. Balance("fund")' = Balance("fund") BY <2>1 DEF Balance
  <2> QED BY <1>0, <1>1, <1>5, <2>2, <2>3, <2>4 DEF FundIsPosition
<1> QED BY <1>7, <1>8

\* The row of a payment goes, and the payment with it.
LEMMA PaymentGoes ==
  ASSUME SharedAssumption, FundInv, RowsShape', NEW p \in payments,
         rows' = Drop(rows, {p.txn}), payments' = payments \ {p}, removed \subseteq removed',
         DOMAIN loans' = DOMAIN loans, \A l \in DOMAIN loans : loans'[l] = loans[l]
  PROVE  FundLinks' /\ FundIsPosition'
<1>0. RowsShape /\ FundShape /\ FundLinks /\ FundIsPosition /\ PaymentsNamed /\ LoansNamed
  BY NamedParts DEF FundInv, Shape
<1>k. PaymentRows \cap LoanRows = {} /\ 0 \notin DOMAIN rows /\ PaymentRows \subseteq DOMAIN rows
  BY <1>0, KindsApart DEF RowsShape
<1> DEFINE id == p.txn
<1>1. DOMAIN rows' = DOMAIN rows \ {id} /\ \A i \in DOMAIN rows' : rows'[i] = rows[i] BY DEF Drop
<1>2. MyLoans' = MyLoans BY DEF MyLoans
<1>3. IsFiniteSet(Mine(payments)) /\ (\A q \in Mine(payments) : q.rial \in Int)
      /\ Cardinality(MyLoans) * LoanRial \in Int
  BY <1>0, MineAre DEF SharedAssumption
<1>4. id # 0 => id \in PaymentRows BY <1>0 DEF PaymentsNamed
<1>5. FundLinks'
  <2>1. \A q \in payments' : q.member = "me" => q.txn \in DOMAIN rows'
    <3> SUFFICES ASSUME NEW q \in payments', q.member = "me" PROVE q.txn \in DOMAIN rows' OBVIOUS
    <3>1. q \in payments /\ q # p OBVIOUS
    <3>2. q.txn \in DOMAIN rows /\ q.txn # 0 BY <1>0, <1>k, <3>1 DEF FundLinks
    <3>3. q.txn # id BY <1>0, <3>1, <3>2 DEF PaymentsNamed
    <3> QED BY <1>1, <3>2, <3>3
  <2>2. \A k \in DOMAIN loans : loans[k].txn # 0 => loans[k].txn # id BY <1>0, <1>k, <1>4 DEF LoansNamed
  <2>3. \A q \in payments' :
          IF q.member = "me"
          THEN q.txn \in DOMAIN rows' /\ rows'[q.txn] = Transfer(q.rial, "bank", "fund", "fund")
          ELSE q.txn = 0
    BY <1>0, <1>1, <2>1 DEF FundLinks
  <2>4. \A k \in DOMAIN loans : loans[k].txn # 0 =>
          /\ loans[k].member = "me" /\ loans[k].txn \in DOMAIN rows'
          /\ rows'[loans[k].txn] = Transfer(LoanRial, "fund", "bank", "fund")
    BY <1>0, <1>1, <2>2 DEF FundLinks
  <2> QED BY <1>0, <2>3, <2>4 DEF FundLinks
<1>6. CASE p.member = "me"
  <2>1. id \in DOMAIN rows /\ rows[id] = Transfer(p.rial, "bank", "fund", "fund") BY <1>0, <1>6 DEF FundLinks
  <2>2. p \in Mine(payments) /\ Mine(payments)' = Mine(payments) \ {p} /\ p.rial \in Int
    BY <1>3, <1>6 DEF Mine
  <2>3. Effect(rows[id], "fund") = p.rial BY <2>1, <2>2, PaymentMoves
  <2> HIDE DEF id
  <2>4. \A i \in DOMAIN rows \cup DOMAIN rows' : i # id => EffectAt(rows, i, "fund") = EffectAt(rows', i, "fund")
    BY <1>1 DEF EffectAt
  <2>5. EffectAt(rows, id, "fund") = p.rial /\ EffectAt(rows', id, "fund") = 0
    BY <1>1, <2>1, <2>3 DEF EffectAt
  <2>6. Balance("fund") \in Int /\ Balance("fund")' = Balance("fund") + EffectAt(rows', id, "fund") - EffectAt(rows, id, "fund")
    BY <1>0, <2>4, BookChanges
  <2>7. Balance("fund") \in Int /\ Balance("fund")' = Balance("fund") - p.rial BY <2>2, <2>5, <2>6
  <2>8. Paid(Mine(payments))' = Paid(Mine(payments)) - p.rial /\ Paid(Mine(payments)) \in Int
    <3>1. Paid(Mine(payments))' = Paid(Mine(payments) \ {p}) BY <2>2 DEF Paid
    <3> QED BY <1>3, <2>2, <3>1, PaidRemoves
  <2> QED BY <1>0, <1>2, <1>3, <1>5, <2>2, <2>7, <2>8 DEF FundIsPosition
<1>7. CASE p.member # "me"
  <2>1. id = 0 BY <1>0, <1>7 DEF FundLinks
  <2>2. rows' = rows
    <3>1. rows = [i \in DOMAIN rows |-> rows[i]] BY <1>0 DEF RowsShape
    <3>2. DOMAIN rows \ {p.txn} = DOMAIN rows BY <1>k, <2>1
    <3> QED BY <3>1, <3>2 DEF Drop
  <2>3. Mine(payments)' = Mine(payments) BY <1>7 DEF Mine
  <2>4. Balance("fund")' = Balance("fund") /\ Paid(Mine(payments))' = Paid(Mine(payments))
    BY <2>2, <2>3 DEF Balance, Paid
  <2> QED BY <1>0, <1>2, <1>5, <2>4 DEF FundIsPosition
<1> QED BY <1>6, <1>7

LEMMA UndoLoanStep ==
  ASSUME SharedAssumption, FundInv, RowsShape', NEW l \in Loans, UndoLoan(l)
  PROVE  FundLinks' /\ FundIsPosition'
<1>0. RowsShape /\ FundShape /\ FundLinks /\ FundIsPosition /\ PaymentsNamed /\ LoansNamed
  BY NamedParts DEF FundInv, Shape
<1>k. PaymentRows \cap LoanRows = {} /\ 0 \notin DOMAIN rows BY <1>0, KindsApart DEF RowsShape
<1> DEFINE id == loans[l].txn
<1>1. l \in DOMAIN loans /\ rows' = Drop(rows, {id}) /\ loans' = Drop(loans, {l}) /\ UNCHANGED <<payments, removed>>
  BY DEF UndoLoan, MayUndoLoan
<1>2. DOMAIN rows' = DOMAIN rows \ {id} /\ \A i \in DOMAIN rows' : rows'[i] = rows[i] BY <1>1 DEF Drop
<1>3. DOMAIN loans' = DOMAIN loans \ {l} /\ \A k \in DOMAIN loans' : loans'[k] = loans[k] BY <1>1 DEF Drop
<1>4. Paid(Mine(payments))' = Paid(Mine(payments)) BY <1>1 DEF Paid, Mine
<1>5. Paid(Mine(payments)) \in Int /\ IsFiniteSet(MyLoans) /\ Cardinality(MyLoans) \in Nat
      /\ LoanRial \in Int
  BY <1>0, MineAre, PaidType DEF SharedAssumption
<1>6. FundLinks'
  <2>1. \A q \in payments : q.txn # 0 => q.txn # id
    BY <1>0, <1>1, <1>k DEF LoansNamed, PaymentsNamed
  <2>2. \A k \in DOMAIN loans' : loans[k].txn # 0 => loans[k].txn # id BY <1>0, <1>1, <1>3 DEF LoansNamed
  <2> HIDE DEF id
  <2>3. \A q \in payments :
          IF q.member = "me"
          THEN q.txn \in DOMAIN rows' /\ rows'[q.txn] = Transfer(q.rial, "bank", "fund", "fund")
          ELSE q.txn = 0
    BY <1>0, <1>2, <1>k, <2>1 DEF FundLinks
  <2>4. \A k \in DOMAIN loans' : loans'[k].txn # 0 =>
          /\ loans'[k].member = "me" /\ loans'[k].txn \in DOMAIN rows'
          /\ rows'[loans'[k].txn] = Transfer(LoanRial, "fund", "bank", "fund")
    BY <1>0, <1>2, <1>3, <2>2 DEF FundLinks
  <2>5. "loan" \notin removed => \A k \in DOMAIN loans' : loans'[k].member = "me" => loans'[k].txn # 0
    BY <1>0, <1>3 DEF FundLinks
  <2> QED BY <1>1, <2>3, <2>4, <2>5 DEF FundLinks
<1>7. CASE id # 0
  <2>1. loans[l].member = "me" /\ id \in DOMAIN rows /\ rows[id] = Transfer(LoanRial, "fund", "bank", "fund")
    BY <1>0, <1>1, <1>7 DEF FundLinks
  <2>2. l \in MyLoans /\ MyLoans' = MyLoans \ {l} BY <1>1, <1>3, <2>1 DEF MyLoans
  <2> HIDE DEF id
  <2>3. Effect(rows[id], "fund") = -LoanRial BY <1>5, <2>1, PaymentMoves
  <2>4. \A i \in DOMAIN rows \cup DOMAIN rows' : i # id => EffectAt(rows, i, "fund") = EffectAt(rows', i, "fund")
    BY <1>2 DEF EffectAt
  <2>5. EffectAt(rows, id, "fund") = -LoanRial /\ EffectAt(rows', id, "fund") = 0
    BY <1>2, <2>1, <2>3 DEF EffectAt
  <2>6. Balance("fund") \in Int /\ Balance("fund")' = Balance("fund") + EffectAt(rows', id, "fund") - EffectAt(rows, id, "fund")
    BY <1>0, <2>4, BookChanges
  <2>7. Balance("fund") \in Int /\ Balance("fund")' = Balance("fund") + LoanRial BY <1>5, <2>5, <2>6
  <2>8. Cardinality(MyLoans') = Cardinality(MyLoans) - 1 BY <1>5, <2>2, FS_RemoveElement
  <2>9. (Cardinality(MyLoans) - 1) * LoanRial = Cardinality(MyLoans) * LoanRial - LoanRial
        /\ Cardinality(MyLoans) * LoanRial \in Int
    BY <1>5
  <2> QED BY <1>0, <1>1, <1>4, <1>5, <1>6, <2>7, <2>8, <2>9 DEF FundIsPosition
<1>8. CASE id = 0
  <2>1. rows' = rows
    <3>1. rows = [i \in DOMAIN rows |-> rows[i]] BY <1>0 DEF RowsShape
    <3>2. DOMAIN rows \ {id} = DOMAIN rows BY <1>k, <1>8
    <3> HIDE DEF id
    <3> QED BY <1>1, <3>1, <3>2 DEF Drop
  <2>2. "loan" \notin removed => MyLoans' = MyLoans
    <3>1. "loan" \notin removed => l \notin MyLoans BY <1>0, <1>1, <1>8 DEF FundLinks, MyLoans
    <3>2. MyLoans' = MyLoans \ {l} BY <1>3 DEF MyLoans
    <3> QED BY <3>1, <3>2
  <2>3. Balance("fund")' = Balance("fund") BY <2>1 DEF Balance
  <2> QED BY <1>0, <1>1, <1>4, <1>6, <2>2, <2>3 DEF FundIsPosition
<1> QED BY <1>7, <1>8

LEMMA DeleteStep ==
  ASSUME SharedAssumption, FundInv, RowsShape', NEW i \in DOMAIN rows, DeleteTxn(i)
  PROVE  FundLinks' /\ FundIsPosition'
<1>0. RowsShape /\ FundShape /\ FundLinks /\ FundIsPosition /\ PaymentsNamed /\ LoansNamed
  BY NamedParts DEF FundInv, Shape
<1>k. PaymentRows \cap LoanRows = {} /\ 0 \notin DOMAIN rows BY <1>0, KindsApart DEF RowsShape
<1>1. rows' = Drop(rows, {i}) /\ removed' = removed \cup {KindOf(i)} BY DEF DeleteTxn
<1>2. CASE rows[i].of # "fund"
  <2>1. FundRowsStay BY <1>0, <1>1, <1>2, DropLeavesFund
  <2>2. UNCHANGED fund BY <1>2 DEF DeleteTxn
  <2> QED BY <1>0, <1>1, <2>1, <2>2, FundKept
<1>3. CASE rows[i].of = "fund"
  <2>1. /\ payments' = {p \in payments : p.txn # i}
        /\ loans' = [l \in DOMAIN loans |-> [loans[l] EXCEPT !.txn = IF @ = i THEN 0 ELSE @]]
    BY <1>3 DEF DeleteTxn, ForgetFundTxn
  <2>2. rows[i].from \in {"bank", "fund"} BY <1>0, <1>3 DEF RowsShape, BankRow, SplitRow, FundRow
  <2>3. CASE rows[i].from = "bank"
    <3>1. i \in PaymentRows BY <1>3, <2>3 DEF PaymentRows, RowsOf
    <3>2. PICK p \in payments : p.txn = i /\ i # 0 BY <1>0, <3>1 DEF PaymentsNamed
    <3>3. payments' = payments \ {p} BY <1>0, <2>1, <3>2 DEF PaymentsNamed
    <3>4. \A l \in DOMAIN loans : loans[l].txn # i BY <1>0, <1>k, <3>1, <3>2 DEF LoansNamed
    <3>5. DOMAIN loans' = DOMAIN loans /\ \A l \in DOMAIN loans : loans'[l] = loans[l]
      <4>1. \A l \in DOMAIN loans : loans[l] \in LoanRec BY <1>0 DEF FundShape
      <4> QED BY <2>1, <3>4, <4>1 DEF LoanRec
    <3> QED BY <1>1, <3>2, <3>3, <3>5, PaymentGoes
  <2>4. CASE rows[i].from = "fund"
    <3>1. KindOf(i) = "loan" BY <1>3, <2>4 DEF KindOf
    <3>2. i \in LoanRows BY <1>3, <2>4 DEF LoanRows, RowsOf
    <3>3. \A p \in payments : p.txn # 0 => p.txn # i BY <1>0, <1>k, <3>2 DEF PaymentsNamed
    <3>4. payments' = payments BY <1>k, <2>1, <3>3
    <3>5. DOMAIN rows' = DOMAIN rows \ {i} /\ \A j \in DOMAIN rows' : rows'[j] = rows[j] BY <1>1 DEF Drop
    <3>6. DOMAIN loans' = DOMAIN loans
          /\ \A l \in DOMAIN loans : loans'[l].txn = (IF loans[l].txn = i THEN 0 ELSE loans[l].txn)
                                     /\ loans'[l].member = loans[l].member
      <4>1. \A l \in DOMAIN loans : loans[l] \in LoanRec BY <1>0 DEF FundShape
      <4> QED BY <2>1, <4>1 DEF LoanRec
    <3>7. \A p \in payments' :
            IF p.member = "me"
            THEN p.txn \in DOMAIN rows' /\ rows'[p.txn] = Transfer(p.rial, "bank", "fund", "fund")
            ELSE p.txn = 0
      BY <1>0, <1>k, <3>3, <3>4, <3>5 DEF FundLinks
    <3>8. \A l \in DOMAIN loans' : loans'[l].txn # 0 =>
            /\ loans'[l].member = "me" /\ loans'[l].txn \in DOMAIN rows'
            /\ rows'[loans'[l].txn] = Transfer(LoanRial, "fund", "bank", "fund")
      BY <1>0, <3>5, <3>6 DEF FundLinks
    <3>9. "loan" \in removed' BY <1>1, <3>1
    <3> QED BY <3>7, <3>8, <3>9 DEF FundLinks, FundIsPosition
  <2> QED BY <2>2, <2>3, <2>4
<1> QED BY <1>2, <1>3

LEMMA FundStep == SharedAssumption /\ FundInv /\ RowsShape' /\ [Next]_vars => FundLinks' /\ FundIsPosition'
<1> SUFFICES ASSUME SharedAssumption, FundInv, RowsShape', [Next]_vars PROVE FundLinks' /\ FundIsPosition' OBVIOUS
<1>0. /\ RowsShape /\ GroupShape /\ FundShape /\ FundLinks /\ FundIsPosition
      /\ GroupNamed /\ PaymentsNamed /\ LoansNamed
  BY NamedParts DEF FundInv, Shape
<1>r. RowsShape BY <1>0
<1>s. \A i \in SplitRows : i \in DOMAIN rows /\ rows[i].of = "split" BY DEF SplitRows, RowsOf
<1>1. ASSUME NEW e \in Expenses, NEW total \in Totals, NEW part \in Parts, NEW mine \in BOOLEAN,
             NEW link \in {0} \cup DOMAIN rows, AddExpense(e, total, part, mine, link)
      PROVE  FundLinks' /\ FundIsPosition'
  <2> DEFINE new == Booked(total, part, mine, link)
             x == [total |-> total, part |-> part, mine |-> mine, ids |-> NewIds(new),
                   linked |-> IF link = 0 THEN NoLink ELSE [id |-> link, before |-> rows[link]]]
  <2>a. Added(e, total, part, mine, link) BY <1>r, <1>1, AddIs, SMTT(60)
  <2>1. /\ part \in Nat /\ link \in {0} \cup LinkCandidates(total)
        /\ e \notin DOMAIN expenses /\ expenses' = Put(expenses, e, x)
        /\ new \in Seq(SplitRow) /\ Len(new) \in Nat
        /\ rows' = Pushed(Taken(link, part), new) /\ UNCHANGED <<settled, fund, removed>>
    BY <2>a DEF Added
  <2> HIDE DEF new, x
  <2>2. FundRowsStay BY <1>0, <2>1, PushLeavesFund
  <2> QED BY <1>0, <2>1, <2>2, FundKept
<1>2. ASSUME NEW e \in Expenses, DeleteExpense(e) PROVE FundLinks' /\ FundIsPosition'
  <2> DEFINE S == expenses[e].ids
             lk == expenses[e].linked
  <2>1. e \in DOMAIN expenses /\ rows' = Restored(Drop(rows, S), lk) /\ UNCHANGED <<fund, removed>>
    BY <1>2 DEF DeleteExpense
  <2>2. lk.id \in 0..Texts /\ lk.before \in BankRow BY <1>0, <2>1 DEF GroupShape, ExpenseRec
  <2>3. S \subseteq SplitRows BY <1>0, <2>1 DEF GroupNamed, ExpenseIds
  <2> HIDE DEF S, lk
  <2>4. FundRowsStay BY <1>0, <1>s, <2>1, <2>2, <2>3, RestoreLeavesFund
  <2> QED BY <1>0, <2>1, <2>4, FundKept
<1>3. CASE Settle
  <2> DEFINE out == NetOf < 0
             rial == IF out THEN -NetOf ELSE NetOf
             row == Transfer(rial, IF out THEN "bank" ELSE "group", IF out THEN "group" ELSE "bank", "split")
  <2>1. rial \in Int BY <1>0, NetType
  <2>2. rows' = Pushed(rows, <<row>>) /\ UNCHANGED <<fund, removed>> BY <1>3 DEF Settle
  <2>3. row \in SplitRow BY <2>1, MovesAre
  <2> HIDE DEF row
  <2>4. <<row>> \in Seq(SplitRow) /\ rows' = Pushed(Taken(0, 0), <<row>>) /\ 0 \in {0} \cup LinkCandidates(0)
    BY <2>2, <2>3 DEF Taken
  <2>5. FundRowsStay BY <1>0, <2>4, PushLeavesFund
  <2> QED BY <1>0, <2>2, <2>5, FundKept
<1>4. CASE UndoSettlement
  <2>1. rows' = Drop(rows, {settled.txn}) /\ UNCHANGED <<fund, removed>> BY <1>4 DEF UndoSettlement
  <2>2. settled.txn # 0 => settled.txn \in SplitRows BY <1>0 DEF GroupNamed
  <2>3. 0 \notin DOMAIN rows BY <1>0 DEF RowsShape
  <2>4. \A i \in {settled.txn} \cap DOMAIN rows : rows[i].of # "fund" BY <1>s, <2>2, <2>3
  <2>5. FundRowsStay BY <1>0, <2>1, <2>4, DropLeavesFund
  <2> QED BY <1>0, <2>1, <2>5, FundKept
<1>5. ASSUME NEW m \in Members, NEW mk \in 1..Months, NEW l \in {0} \cup Loans, Pay(m, mk, l)
      PROVE  FundLinks' /\ FundIsPosition'
  BY <1>5, PayStep
<1>6. ASSUME NEW m \in Members, NEW mk \in 1..Months, NEW l \in Loans, GiveLoan(l, m, mk)
      PROVE  FundLinks' /\ FundIsPosition'
  BY <1>6, GiveStep
<1>7. ASSUME NEW p \in payments, UndoPayment(p) PROVE FundLinks' /\ FundIsPosition'
  BY <1>7, PaymentGoes DEF UndoPayment
<1>8. ASSUME NEW l \in Loans, UndoLoan(l) PROVE FundLinks' /\ FundIsPosition'
  BY <1>8, UndoLoanStep
<1>9. ASSUME NEW i \in DOMAIN rows, DeleteTxn(i) PROVE FundLinks' /\ FundIsPosition'
  BY <1>9, DeleteStep
<1>10. CASE UNCHANGED vars
  <2>1. FundRowsStay /\ UNCHANGED fund /\ removed \subseteq removed' BY <1>10 DEF vars, FundRowsStay
  <2> QED BY <1>0, <2>1, FundKept
<1> QED BY <1>1, <1>2, <1>3, <1>4, <1>5, <1>6, <1>7, <1>8, <1>9, <1>10 DEF Next

LEMMA FundAlways == Spec => []FundInv
<1>1. Init => FundInv BY ShapeInit, RowsAreNamedInit, FundInit, SharedAssumption DEF FundInv
<1>2. FundInv /\ [Next]_vars => FundInv'
  <2> SUFFICES ASSUME FundInv, [Next]_vars PROVE FundInv' OBVIOUS
  <2>1. Shape' BY ShapeStep, SharedAssumption DEF FundInv
  <2>2. RowsShape' BY <2>1 DEF Shape
  <2>3. RowsAreNamed' BY RowsAreNamedStep, SharedAssumption DEF FundInv
  <2>4. FundLinks' /\ FundIsPosition' BY <2>2, FundStep, SharedAssumption
  <2> QED BY <2>1, <2>3, <2>4 DEF FundInv
<1> QED BY <1>1, <1>2, PTL DEF Spec

\* The fund's account shows the user's position while no row of a loan was
\* deleted, in every state.
THEOREM FundStandsAsPosition == Spec => []FundIsPosition
<1>1. FundInv => FundIsPosition BY DEF FundInv
<1> QED BY <1>1, FundAlways, PTL

---------------------------------------------------------------------------
(* Sums and balances that a record more or less changes. *)

\* A function with one value more.
LEMMA SumGrows ==
  ASSUME NEW f, NEW g, NEW e, IsFiniteSet(DOMAIN f), e \notin DOMAIN f, DOMAIN g = DOMAIN f \cup {e},
         \A x \in DOMAIN f : g[x] = f[x] /\ f[x] \in Int, g[e] \in Int
  PROVE  SumFunction(g) = SumFunction(f) + g[e] /\ SumFunction(f) \in Int
<1>1. IsFiniteSet(DOMAIN g) BY FS_AddElement
<1>2. \A x \in DOMAIN g : g[x] \in Int OBVIOUS
<1>3. \A x \in DOMAIN f \cup DOMAIN g : x # e => At(f, x) = At(g, x) BY DEF At
<1>4. At(f, e) = 0 /\ At(g, e) = g[e] BY DEF At
<1>5. /\ SumFunction(f) \in Int /\ SumFunction(g) \in Int
      /\ SumFunction(g) = SumFunction(f) + At(g, e) - At(f, e)
  BY <1>1, <1>2, <1>3, SumAt
<1> QED BY <1>4, <1>5

LEMMA SumTwo ==
  ASSUME NEW f, NEW x, NEW y, x # y, f[x] \in Int, f[y] \in Int
  PROVE  SumFunctionOnSet(f, {x, y}) = f[x] + f[y]
<1>1. IsFiniteSet({x}) /\ IsFiniteSet({y}) /\ {x} \cap {y} = {} BY FS_Singleton
<1>2. SumFunctionOnSet(f, {x} \cup {y}) = SumFunctionOnSet(f, {x}) + SumFunctionOnSet(f, {y}) BY <1>1, SumDisjoint
<1>3. {x} \cup {y} = {x, y} OBVIOUS
<1>4. SumFunctionOnSet(f, {x}) = f[x] /\ SumFunctionOnSet(f, {y}) = f[y] BY SumOne
<1> QED BY <1>2, <1>3, <1>4

\* What the rows with these ids do to an account.
On(book, S, a) == SumFunctionOnSet(Effects(book, a), S)

LEMMA OnSame ==
  ASSUME NEW b, IsBook(b), NEW c, NEW S, S \subseteq DOMAIN b, S \subseteq DOMAIN c, NEW a,
         \A i \in S : b[i] = c[i]
  PROVE  On(b, S, a) = On(c, S, a) /\ On(b, S, a) \in Int
<1>1. IsFiniteSet(S) BY FS_Subset DEF IsBook
<1>2. \A i \in S : Effects(b, a)[i] = Effects(c, a)[i] BY DEF Effects
<1>3. \A i \in S : Effects(b, a)[i] \in Int BY EffectType DEF Effects, IsBook
<1> QED BY <1>1, <1>2, <1>3, SumSame, SumType DEF On

\* A book without some of its rows.
LEMMA BalanceSplits ==
  ASSUME NEW b, IsBook(b), NEW c, IsBook(c), NEW S, S \cap DOMAIN c = {}, DOMAIN b = DOMAIN c \cup S,
         \A i \in DOMAIN c : b[i] = c[i], NEW a
  PROVE  /\ BalanceIn(b, a) = BalanceIn(c, a) + On(b, S, a)
         /\ BalanceIn(c, a) \in Int /\ On(b, S, a) \in Int
<1> DEFINE f == Effects(b, a)
           g == Effects(c, a)
           T == DOMAIN c
<1>1. IsFiniteSet(S) /\ IsFiniteSet(T) BY FS_Subset DEF IsBook
<1>2. \A i \in S \cup T : f[i] \in Int BY EffectType DEF Effects, IsBook
<1>3. \A i \in T : f[i] = g[i] BY DEF Effects
<1>4. DOMAIN f = T \cup S /\ DOMAIN g = T BY DEF Effects
<1>5. BalanceIn(b, a) = SumFunction(f) /\ BalanceIn(c, a) = SumFunction(g) /\ On(b, S, a) = SumFunctionOnSet(f, S)
  BY DEF BalanceIn, On
<1>6. T \cap S = {} OBVIOUS
<1> HIDE DEF f, g, T
<1>7. SumFunctionOnSet(f, T \cup S) = SumFunctionOnSet(f, T) + SumFunctionOnSet(f, S) BY <1>1, <1>2, <1>6, SumDisjoint
<1>8. SumFunctionOnSet(f, T) = SumFunctionOnSet(g, T) BY <1>1, <1>3, SumSame
<1>9. SumFunctionOnSet(f, T) \in Int /\ SumFunctionOnSet(f, S) \in Int BY <1>1, <1>2, SumType
<1> QED BY <1>4, <1>5, <1>7, <1>8, <1>9 DEF SumFunction

---------------------------------------------------------------------------
(* The group's account and the bank's.  An expense that was linked to a     *)
(* message gives its row back when it is deleted, so the two stand only if  *)
(* no message is linked twice: once it shows the user's part, that part     *)
(* must not be the amount of another expense.                               *)

PartsAreNoTotals == \A part \in Parts \cap Totals : part > TextRial

Text == Expense(TextRial, "bank", "none")

LinkInv ==
  /\ \A e \in DOMAIN expenses : expenses[e].linked.id # 0 =>
       /\ expenses[e].linked.before = Text /\ expenses[e].total = TextRial /\ expenses[e].mine
       /\ expenses[e].part \in Parts /\ expenses[e].part <= TextRial
       /\ expenses[e].linked.id \in DOMAIN rows =>
            rows[expenses[e].linked.id] = Linked(Text, expenses[e].part)
  /\ \A e, f \in DOMAIN expenses :
       e # f /\ expenses[e].linked.id = expenses[f].linked.id => expenses[e].linked.id = 0
  /\ \A i \in 1..Texts :
       i \in DOMAIN rows /\ (\A e \in DOMAIN expenses : expenses[e].linked.id # i) => rows[i] = Text

\* The bank's rows stay or go, and the expenses keep their messages.
LEMMA LinkKept ==
  ASSUME SharedAssumption, GroupShape, LinkInv, DOMAIN expenses' = DOMAIN expenses,
         \A e \in DOMAIN expenses : /\ expenses'[e].linked = expenses[e].linked /\ expenses'[e].total = expenses[e].total
                                    /\ expenses'[e].mine = expenses[e].mine /\ expenses'[e].part = expenses[e].part,
         \A i \in 1..Texts : i \in DOMAIN rows' => i \in DOMAIN rows /\ rows'[i] = rows[i]
  PROVE  LinkInv'
<1>1. \A e \in DOMAIN expenses : expenses[e].linked.id # 0 => expenses[e].linked.id \in 1..Texts
  <2>1. \A e \in DOMAIN expenses : expenses[e].linked.id \in 0..Texts BY DEF GroupShape, ExpenseRec
  <2> QED BY <2>1 DEF SharedAssumption
<1>2. \A e \in DOMAIN expenses' : expenses'[e].linked.id # 0 =>
       /\ expenses'[e].linked.before = Text /\ expenses'[e].total = TextRial /\ expenses'[e].mine
       /\ expenses'[e].part \in Parts /\ expenses'[e].part <= TextRial
       /\ expenses'[e].linked.id \in DOMAIN rows' =>
            rows'[expenses'[e].linked.id] = Linked(Text, expenses'[e].part)
  BY <1>1 DEF LinkInv
<1>3. \A e, f \in DOMAIN expenses' :
       e # f /\ expenses'[e].linked.id = expenses'[f].linked.id => expenses'[e].linked.id = 0
  BY DEF LinkInv
<1>4. \A i \in 1..Texts :
       i \in DOMAIN rows' /\ (\A e \in DOMAIN expenses' : expenses'[e].linked.id # i) => rows'[i] = Text
  BY DEF LinkInv
<1> QED BY <1>2, <1>3, <1>4 DEF LinkInv

\* A message an expense may take over is no other expense's.
LEMMA LinkIsFree ==
  ASSUME SharedAssumption, PartsAreNoTotals, RowsShape, GroupShape, LinkInv,
         NEW total \in Totals, NEW link \in LinkCandidates(total)
  PROVE  /\ link \in 1..Texts /\ link \in DOMAIN rows /\ rows[link] = Text /\ total = TextRial
         /\ \A e \in DOMAIN expenses : expenses[e].linked.id # link
<1>1. link \in 1..Texts /\ link \in DOMAIN rows /\ link # 0 /\ rows[link].rial = total /\ rows[link].kind = "expense"
  BY LinkIs
<1>2. ASSUME NEW e \in DOMAIN expenses, expenses[e].linked.id = link PROVE FALSE
  <2> DEFINE part == expenses[e].part
  <2>1. rows[link] = Linked(Text, part) /\ part \in Parts /\ part <= TextRial BY <1>1, <1>2 DEF LinkInv
  <2>2. part \in Nat /\ TextRial \in Nat BY <2>1 DEF SharedAssumption
  <2> HIDE DEF part
  <2>3. CASE part > 0
    <3>1. rows[link].rial = part BY <2>1, <2>3 DEF Linked, Text, Expense
    <3>2. part \in Totals BY <1>1, <3>1
    <3> QED BY <2>1, <2>2, <3>2 DEF PartsAreNoTotals
  <2>4. CASE ~(part > 0)
    <3>1. rows[link].kind = "transfer" BY <2>1, <2>4 DEF Linked, Text, Expense
    <3> QED BY <1>1, <3>1
  <2> QED BY <2>3, <2>4
<1>3. rows[link] = Text BY <1>1, <1>2 DEF LinkInv
<1>4. total = TextRial BY <1>1, <1>3 DEF Text, Expense
<1> QED BY <1>1, <1>2, <1>3, <1>4

LEMMA LinkInit == SharedAssumption /\ Init => LinkInv
BY DEF Init, LinkInv, Text

LEMMA LinkAdds ==
  ASSUME SharedAssumption, PartsAreNoTotals, Shape, LinkInv,
         NEW e \in Expenses, NEW total \in Totals, NEW part \in Parts,
         NEW mine \in BOOLEAN, NEW link \in {0} \cup DOMAIN rows, AddExpense(e, total, part, mine, link)
  PROVE  LinkInv'
<1>0. RowsShape /\ GroupShape BY DEF Shape
<1> DEFINE new == Booked(total, part, mine, link)
           lk == IF link = 0 THEN NoLink ELSE [id |-> link, before |-> rows[link]]
           x == [total |-> total, part |-> part, mine |-> mine, ids |-> NewIds(new), linked |-> lk]
<1>1. /\ part \in Nat /\ part <= total /\ link \in {0} \cup LinkCandidates(total) /\ (link # 0 => mine)
      /\ e \notin DOMAIN expenses /\ expenses' = Put(expenses, e, x)
      /\ new \in Seq(SplitRow) /\ Len(new) \in Nat
      /\ rows' = Pushed(Taken(link, part), new)
  BY <1>0, AddIs DEF Added
<1>2. x.total = total /\ x.part = part /\ x.mine = mine /\ x.linked = lk OBVIOUS
<1>3. lk.id = link /\ (link # 0 => lk.before = rows[link]) BY DEF NoLink
<1> HIDE DEF x, lk, new
<1>4. /\ DOMAIN expenses' = DOMAIN expenses \cup {e} /\ expenses'[e] = x
      /\ \A f \in DOMAIN expenses : expenses'[f] = expenses[f]
  BY <1>1 DEF Put
<1>5. made \in Nat /\ DOMAIN rows \subseteq 1..made /\ Texts \in Nat /\ Texts <= made
  BY <1>0 DEF RowsShape, SharedAssumption
<1>a. RowsShape /\ part \in Nat /\ link \in {0} \cup LinkCandidates(total) BY <1>0, <1>1
<1>7. DOMAIN Taken(link, part) = DOMAIN rows
      /\ \A i \in DOMAIN rows : i # link => Taken(link, part)[i] = rows[i]
  BY <1>a, TakenIs
<1>6. \A i \in 1..Texts : (i \in DOMAIN rows' <=> i \in DOMAIN rows)
                          /\ (i \in DOMAIN rows => rows'[i] = Taken(link, part)[i])
  <2> DEFINE book == Taken(link, part)
  <2>1. DOMAIN book = DOMAIN rows /\ rows' = Pushed(book, new) BY <1>1, <1>7
  <2> HIDE DEF book
  <2>2. DOMAIN rows' = DOMAIN rows \cup NewIds(new) /\ \A i \in DOMAIN rows : rows'[i] = book[i]
    BY <2>1 DEF Pushed
  <2>3. \A i \in NewIds(new) : i > Texts BY <1>1, <1>5 DEF NewIds
  <2> QED BY <1>5, <2>2, <2>3 DEF book
<1>8. ASSUME link # 0
      PROVE  /\ link \in 1..Texts /\ link \in DOMAIN rows /\ rows[link] = Text /\ total = TextRial
             /\ (\A f \in DOMAIN expenses : expenses[f].linked.id # link)
             /\ Taken(link, part)[link] = Linked(Text, part)
  <2>1. /\ link \in 1..Texts /\ link \in DOMAIN rows /\ rows[link] = Text /\ total = TextRial
        /\ (\A f \in DOMAIN expenses : expenses[f].linked.id # link)
    BY <1>0, <1>1, <1>8, LinkIsFree
  <2>2. Taken(link, part)[link] = Linked(rows[link], part) BY <1>0, <1>1, <1>8, TakenIs
  <2> QED BY <2>1, <2>2
<1>9. \A f \in DOMAIN expenses : expenses[f].linked.id # 0 =>
        /\ expenses[f].linked.id # link /\ expenses[f].linked.id \in 1..Texts
  <2>1. \A f \in DOMAIN expenses : expenses[f].linked.id \in 0..Texts BY <1>0 DEF GroupShape, ExpenseRec
  <2> QED BY <1>5, <1>8, <2>1
<1>10. ASSUME link # 0
       PROVE  /\ x.linked.before = Text /\ x.total = TextRial /\ x.mine /\ x.part \in Parts /\ x.part <= TextRial
              /\ rows'[link] = Linked(Text, part)
  BY <1>1, <1>2, <1>3, <1>6, <1>8, <1>10
<1>11. \A f \in DOMAIN expenses' : expenses'[f].linked.id # 0 =>
       /\ expenses'[f].linked.before = Text /\ expenses'[f].total = TextRial /\ expenses'[f].mine
       /\ expenses'[f].part \in Parts /\ expenses'[f].part <= TextRial
       /\ expenses'[f].linked.id \in DOMAIN rows' =>
            rows'[expenses'[f].linked.id] = Linked(Text, expenses'[f].part)
  <2> TAKE f \in DOMAIN expenses'
  <2> HAVE expenses'[f].linked.id # 0
  <2>1. CASE f = e BY <1>2, <1>3, <1>4, <1>10, <2>1
  <2>2. CASE f # e
    <3>1. f \in DOMAIN expenses /\ expenses'[f] = expenses[f] BY <1>4, <2>2
    <3> QED BY <1>6, <1>7, <1>9, <3>1 DEF LinkInv
  <2> QED BY <2>1, <2>2
<1>12. \A f, g \in DOMAIN expenses' :
       f # g /\ expenses'[f].linked.id = expenses'[g].linked.id => expenses'[f].linked.id = 0
  <2>1. expenses'[e].linked.id = link BY <1>2, <1>3, <1>4
  <2>2. \A f, g \in DOMAIN expenses :
       f # g /\ expenses[f].linked.id = expenses[g].linked.id => expenses[f].linked.id = 0
    BY DEF LinkInv
  <2> QED BY <1>4, <1>9, <2>1, <2>2
<1>13. \A i \in 1..Texts :
       i \in DOMAIN rows' /\ (\A f \in DOMAIN expenses' : expenses'[f].linked.id # i) => rows'[i] = Text
  <2>1. expenses'[e].linked.id = link BY <1>2, <1>3, <1>4
  <2>2. \A i \in 1..Texts :
       i \in DOMAIN rows /\ (\A f \in DOMAIN expenses : expenses[f].linked.id # i) => rows[i] = Text
    BY DEF LinkInv
  <2> QED BY <1>4, <1>6, <1>7, <2>1, <2>2
<1> QED BY <1>11, <1>12, <1>13 DEF LinkInv

\* A deleted expense gives its message back as it was.
LEMMA LinkDrops ==
  ASSUME SharedAssumption, Shape, RowsAreNamed, LinkInv, NEW e \in Expenses, DeleteExpense(e)
  PROVE  LinkInv'
<1> DEFINE S == expenses[e].ids
           D == Drop(rows, S)
           lk == expenses[e].linked
<1>0. RowsShape /\ GroupShape /\ Texts \in Nat BY DEF Shape, SharedAssumption
<1>1. e \in DOMAIN expenses /\ rows' = Restored(D, lk) /\ expenses' = Drop(expenses, {e}) BY DEF DeleteExpense
<1>2. lk.id \in 0..Texts /\ S \subseteq Texts + 1 .. made /\ (lk.id # 0 => lk.before = Text)
  BY <1>0, <1>1 DEF GroupShape, ExpenseRec, LinkInv
<1>3. DOMAIN expenses' = DOMAIN expenses \ {e} /\ \A f \in DOMAIN expenses' : expenses'[f] = expenses[f]
  BY <1>1 DEF Drop
<1>4. \A f \in DOMAIN expenses' : expenses[f].linked.id # 0 =>
        expenses[f].linked.id # lk.id /\ expenses[f].linked.id \in 1..Texts
  <2>1. \A f \in DOMAIN expenses : expenses[f].linked.id \in 0..Texts BY <1>0 DEF GroupShape, ExpenseRec
  <2>2. \A f \in DOMAIN expenses : f # e /\ expenses[f].linked.id = lk.id => expenses[f].linked.id = 0
    BY <1>1 DEF LinkInv
  <2> HIDE DEF lk
  <2> QED BY <1>0, <1>3, <2>1, <2>2
<1>5. DOMAIN D = DOMAIN rows \ S /\ \A i \in DOMAIN D : D[i] = rows[i] BY DEF Drop
<1>6. 0 \notin DOMAIN rows BY <1>0 DEF RowsShape
<1> HIDE DEF D, S, lk
<1>7. \A i \in 1..Texts : i \in DOMAIN rows' =>
        i \in DOMAIN rows /\ rows'[i] = IF i = lk.id THEN Text ELSE rows[i]
  <2>1. CASE lk.id \in DOMAIN D
    <3>1. rows' = [D EXCEPT ![lk.id] = lk.before] BY <1>1, <2>1 DEF Restored
    <3>2. lk.id # 0 BY <1>5, <1>6, <2>1
    <3> QED BY <1>2, <1>5, <3>1, <3>2
  <2>2. CASE lk.id \notin DOMAIN D
    <3>1. rows' = D BY <1>1, <2>2 DEF Restored
    <3> QED BY <1>5, <2>2, <3>1
  <2> QED BY <2>1, <2>2
<1>8. \A f \in DOMAIN expenses' : expenses'[f].linked.id # 0 =>
       /\ expenses'[f].linked.before = Text /\ expenses'[f].total = TextRial /\ expenses'[f].mine
       /\ expenses'[f].part \in Parts /\ expenses'[f].part <= TextRial
       /\ expenses'[f].linked.id \in DOMAIN rows' =>
            rows'[expenses'[f].linked.id] = Linked(Text, expenses'[f].part)
  BY <1>3, <1>4, <1>7 DEF LinkInv
<1>9. \A f, g \in DOMAIN expenses' :
       f # g /\ expenses'[f].linked.id = expenses'[g].linked.id => expenses'[f].linked.id = 0
  BY <1>3 DEF LinkInv
<1>10. \A i \in 1..Texts :
       i \in DOMAIN rows' /\ (\A f \in DOMAIN expenses' : expenses'[f].linked.id # i) => rows'[i] = Text
  <2>1. expenses[e].linked.id = lk.id BY DEF lk
  <2>2. \A i \in 1..Texts :
       i \in DOMAIN rows /\ (\A f \in DOMAIN expenses : expenses[f].linked.id # i) => rows[i] = Text
    BY DEF LinkInv
  <2> QED BY <1>3, <1>7, <2>1, <2>2
<1> QED BY <1>8, <1>9, <1>10 DEF LinkInv

LEMMA LinkStep ==
  SharedAssumption /\ PartsAreNoTotals /\ Shape /\ RowsAreNamed /\ LinkInv /\ [Next]_vars => LinkInv'
<1> SUFFICES ASSUME SharedAssumption, PartsAreNoTotals, Shape, RowsAreNamed, LinkInv, [Next]_vars
             PROVE  LinkInv'
  OBVIOUS
<1>0. RowsShape /\ GroupShape /\ Texts \in Nat /\ made \in Nat /\ Texts <= made BY DEF Shape, RowsShape, SharedAssumption
<1>p. ASSUME NEW new, Len(new) \in Nat, rows' = Pushed(rows, new)
      PROVE  \A i \in 1..Texts : i \in DOMAIN rows' => i \in DOMAIN rows /\ rows'[i] = rows[i]
  <2>1. \A i \in NewIds(new) : i > Texts BY <1>0, <1>p DEF NewIds
  <2>2. DOMAIN rows' = DOMAIN rows \cup NewIds(new) /\ \A i \in DOMAIN rows : rows'[i] = rows[i]
    BY <1>p DEF Pushed
  <2> QED BY <1>0, <2>1, <2>2
<1>d. ASSUME NEW S, rows' = Drop(rows, S)
      PROVE  \A i \in 1..Texts : i \in DOMAIN rows' => i \in DOMAIN rows /\ rows'[i] = rows[i]
  BY <1>d DEF Drop
<1>u. ASSUME UNCHANGED expenses,
             \A i \in 1..Texts : i \in DOMAIN rows' => i \in DOMAIN rows /\ rows'[i] = rows[i]
      PROVE  LinkInv'
  BY <1>0, <1>u, LinkKept
<1>1. ASSUME NEW e \in Expenses, NEW total \in Totals, NEW part \in Parts, NEW mine \in BOOLEAN,
             NEW link \in {0} \cup DOMAIN rows, AddExpense(e, total, part, mine, link)
      PROVE  LinkInv'
  BY <1>1, LinkAdds
<1>2. ASSUME NEW e \in Expenses, DeleteExpense(e) PROVE LinkInv'
  BY <1>2, LinkDrops
<1>3. CASE Settle
  <2>1. \E row : rows' = Pushed(rows, <<row>>) /\ UNCHANGED expenses BY <1>3 DEF Settle
  <2>2. PICK row : rows' = Pushed(rows, <<row>>) /\ UNCHANGED expenses BY <2>1
  <2> QED BY <2>2, <1>p, <1>u
<1>4. CASE UndoSettlement BY <1>4, <1>d, <1>u DEF UndoSettlement
<1>5. ASSUME NEW m \in Members, NEW mk \in 1..Months, NEW l \in {0} \cup Loans, Pay(m, mk, l) PROVE LinkInv'
  <2>1. \E row : rows' = Pushed(rows, Move(m, row)) /\ UNCHANGED expenses BY <1>5 DEF Pay, group
  <2>2. PICK row : rows' = Pushed(rows, Move(m, row)) /\ UNCHANGED expenses BY <2>1
  <2>3. Len(Move(m, row)) \in Nat BY DEF Move, If
  <2> QED BY <2>2, <2>3, <1>p, <1>u
<1>6. ASSUME NEW m \in Members, NEW mk \in 1..Months, NEW l \in Loans, GiveLoan(l, m, mk) PROVE LinkInv'
  <2>1. \E row : rows' = Pushed(rows, Move(m, row)) /\ UNCHANGED expenses BY <1>6 DEF GiveLoan, group
  <2>2. PICK row : rows' = Pushed(rows, Move(m, row)) /\ UNCHANGED expenses BY <2>1
  <2>3. Len(Move(m, row)) \in Nat BY DEF Move, If
  <2> QED BY <2>2, <2>3, <1>p, <1>u
<1>7. ASSUME NEW p \in payments, UndoPayment(p) PROVE LinkInv'
  <2>1. rows' = Drop(rows, {p.txn}) /\ UNCHANGED expenses BY <1>7 DEF UndoPayment, group
  <2> QED BY <2>1, <1>d, <1>u
<1>8. ASSUME NEW l \in Loans, UndoLoan(l) PROVE LinkInv'
  <2>1. rows' = Drop(rows, {loans[l].txn}) /\ UNCHANGED expenses BY <1>8 DEF UndoLoan, group
  <2> QED BY <2>1, <1>d, <1>u
<1>9. ASSUME NEW i \in DOMAIN rows, DeleteTxn(i) PROVE LinkInv'
  <2>1. rows' = Drop(rows, {i}) BY <1>9 DEF DeleteTxn
  <2>2. CASE UNCHANGED expenses BY <2>1, <2>2, <1>d, <1>u
  <2>3. CASE expenses' = ForgetSplitTxn(i)
    <3>1. \A e \in DOMAIN expenses : expenses[e] \in ExpenseRec BY <1>0 DEF GroupShape
    <3>2. DOMAIN expenses' = DOMAIN expenses
          /\ \A e \in DOMAIN expenses :
               /\ expenses'[e].linked = expenses[e].linked /\ expenses'[e].total = expenses[e].total
               /\ expenses'[e].mine = expenses[e].mine /\ expenses'[e].part = expenses[e].part
      BY <2>3, <3>1 DEF ForgetSplitTxn, ExpenseRec
    <3>3. \A j \in 1..Texts : j \in DOMAIN rows' => j \in DOMAIN rows /\ rows'[j] = rows[j] BY <2>1, <1>d
    <3> QED BY <1>0, <3>2, <3>3, LinkKept
  <2> QED BY <1>9, <2>2, <2>3 DEF DeleteTxn, group
<1>10. CASE UNCHANGED vars
  <2>1. UNCHANGED <<rows, expenses>> BY <1>10 DEF vars, group
  <2> QED BY <2>1, <1>u
<1> QED BY <1>1, <1>2, <1>3, <1>4, <1>5, <1>6, <1>7, <1>8, <1>9, <1>10 DEF Next

---------------------------------------------------------------------------
\* What an expense leaves in an account, the message it took over included.
LinkEffect(x, a) == IF x.linked.id = 0 THEN 0 ELSE Effect(Linked(Text, x.part), a) - Effect(Text, a)

ByHands == SumFunction([e \in DOMAIN expenses |-> ByHand(expenses[e])])
Owing   == SumFunction([e \in DOMAIN expenses |-> Owed(expenses[e])])

\* While no row of the group or the bank was deleted from the list: each
\* expense's rows are its share in both accounts, the settlement has the row
\* made for it, and the accounts are the sums of these.  The bank and the fund
\* are taken together, so that what moves between them does not matter.
GroupBooks ==
  removed \cap {"split", "bank"} = {} =>
    /\ \A i \in 1..Texts : i \in DOMAIN rows
    /\ \A e \in DOMAIN expenses :
         /\ On(rows, expenses[e].ids, "group") + LinkEffect(expenses[e], "group") = Owed(expenses[e])
         /\ On(rows, expenses[e].ids, "bank") + LinkEffect(expenses[e], "bank") = -ByHand(expenses[e])
    /\ settled # Unsettled =>
         /\ settled.txn \in DOMAIN rows
         /\ rows[settled.txn] = Transfer(settled.rial, IF settled.out THEN "bank" ELSE "group",
                                         IF settled.out THEN "group" ELSE "bank", "split")
    /\ Balance("group") = Owing + PaidOut(settled)
    /\ Balance("bank") + Balance("fund") = -(Texts * TextRial) - ByHands - PaidOut(settled)

\* A step that leaves the group and its rows.
LEMMA BooksKept ==
  ASSUME SharedAssumption, RowsShape, RowsShape', GroupNamed, GroupBooks, UNCHANGED group, removed \subseteq removed',
         \A i \in 1..Texts \cup SplitRows : i \in DOMAIN rows => i \in DOMAIN rows' /\ rows'[i] = rows[i],
         Balance("group")' = Balance("group"),
         Balance("bank")' + Balance("fund")' = Balance("bank") + Balance("fund")
  PROVE  GroupBooks'
<1> SUFFICES ASSUME removed' \cap {"split", "bank"} = {} PROVE GroupBooks' BY DEF GroupBooks
<1>0. removed \cap {"split", "bank"} = {} /\ UNCHANGED <<expenses, settled>> BY DEF group
<1>1. \A i \in 1..Texts : i \in DOMAIN rows' BY <1>0 DEF GroupBooks
<1>2. \A e \in DOMAIN expenses :
         /\ On(rows', expenses[e].ids, "group") + LinkEffect(expenses[e], "group") = Owed(expenses[e])
         /\ On(rows', expenses[e].ids, "bank") + LinkEffect(expenses[e], "bank") = -ByHand(expenses[e])
  <2> TAKE e \in DOMAIN expenses
  <2> DEFINE b == rows
             c == rows'
             S == expenses[e].ids
  <2>1. S \subseteq SplitRows BY DEF GroupNamed, ExpenseIds
  <2>2. S \subseteq DOMAIN b /\ S \subseteq DOMAIN c /\ \A i \in S : b[i] = c[i]
    BY <2>1 DEF SplitRows, RowsOf
  <2>3. IsBook(b) BY RowsAreABook
  <2> HIDE DEF b, c, S
  <2>4. On(b, S, "group") = On(c, S, "group") /\ On(b, S, "bank") = On(c, S, "bank") BY <2>2, <2>3, OnSame
  <2>5. /\ On(rows, expenses[e].ids, "group") + LinkEffect(expenses[e], "group") = Owed(expenses[e])
        /\ On(rows, expenses[e].ids, "bank") + LinkEffect(expenses[e], "bank") = -ByHand(expenses[e])
    BY <1>0 DEF GroupBooks
  <2> QED BY <2>4, <2>5 DEF b, c, S
<1>3. settled # Unsettled =>
         /\ settled.txn \in DOMAIN rows'
         /\ rows'[settled.txn] = Transfer(settled.rial, IF settled.out THEN "bank" ELSE "group",
                                         IF settled.out THEN "group" ELSE "bank", "split")
  <2> HAVE settled # Unsettled
  <2>1. settled.txn \in DOMAIN rows
        /\ rows[settled.txn] = Transfer(settled.rial, IF settled.out THEN "bank" ELSE "group",
                                        IF settled.out THEN "group" ELSE "bank", "split")
    BY <1>0 DEF GroupBooks
  <2>2. settled.txn # 0 BY <2>1 DEF RowsShape
  <2>3. settled.txn \in SplitRows BY <2>2 DEF GroupNamed
  <2> QED BY <2>1, <2>3
<1>4. Owing' = Owing /\ ByHands' = ByHands BY <1>0 DEF Owing, ByHands
<1> QED BY <1>0, <1>1, <1>2, <1>3, <1>4 DEF GroupBooks, On

\* A step that makes or deletes one row of the fund, or none.
LEMMA FundStepKeepsBooks ==
  ASSUME SharedAssumption, RowsShape, RowsShape', GroupNamed, GroupBooks, UNCHANGED group, removed \subseteq removed',
         NEW y, \A i \in DOMAIN rows \cup DOMAIN rows' :
                  i # y => i \in DOMAIN rows /\ i \in DOMAIN rows' /\ rows'[i] = rows[i],
         y \in DOMAIN rows => rows[y].of = "fund", y \in DOMAIN rows' => rows'[y].of = "fund"
  PROVE  GroupBooks'
<1>1. \A i \in 1..Texts \cup SplitRows : i \in DOMAIN rows => i \in DOMAIN rows' /\ rows'[i] = rows[i]
  <2> TAKE i \in 1..Texts \cup SplitRows
  <2> HAVE i \in DOMAIN rows
  <2>1. rows[i].of # "fund"
    <3>1. CASE i \in 1..Texts
      <4>1. i <= Texts BY <3>1 DEF SharedAssumption
      <4>2. rows[i] \in BankRow BY <4>1 DEF RowsShape
      <4> QED BY <4>2 DEF BankRow
    <3>2. CASE i \in SplitRows BY <3>2 DEF SplitRows, RowsOf
    <3> QED BY <3>1, <3>2
  <2> QED BY <2>1
<1>2. ASSUME NEW t, t \in FundRow
      PROVE  Effect(t, "group") = 0 /\ Effect(t, "bank") + Effect(t, "fund") = 0
             /\ Effect(t, "bank") \in Int /\ Effect(t, "fund") \in Int
  <2>1. t.rial \in Int /\ ((t.from = "bank" /\ t.to = "fund") \/ (t.from = "fund" /\ t.to = "bank"))
    BY <1>2 DEF FundRow, Row
  <2> QED BY <2>1 DEF Effect
<1>3. y \in DOMAIN rows => rows[y] \in FundRow BY DEF RowsShape, BankRow, SplitRow
<1>4. y \in DOMAIN rows' => rows'[y] \in FundRow
  <2>1. \A i \in DOMAIN rows' : rows'[i] \in BankRow \/ rows'[i] \in SplitRow \/ rows'[i] \in FundRow
    BY DEF RowsShape
  <2> QED BY <2>1 DEF BankRow, SplitRow
<1> DEFINE E(book, a) == EffectAt(book, y, a)
<1>5. /\ E(rows, "group") = 0 /\ E(rows, "bank") + E(rows, "fund") = 0
      /\ E(rows, "bank") \in Int /\ E(rows, "fund") \in Int
  BY <1>2, <1>3 DEF EffectAt
<1>6. /\ E(rows', "group") = 0 /\ E(rows', "bank") + E(rows', "fund") = 0
      /\ E(rows', "bank") \in Int /\ E(rows', "fund") \in Int
  BY <1>2, <1>4 DEF EffectAt
<1>7. \A i \in DOMAIN rows \cup DOMAIN rows' : i # y => \A a : EffectAt(rows, i, a) = EffectAt(rows', i, a)
  BY DEF EffectAt
<1> HIDE DEF E
<1>8. ASSUME NEW a
      PROVE  /\ Balance(a) \in Int /\ Balance(a)' \in Int
             /\ Balance(a)' = Balance(a) + E(rows', a) - E(rows, a)
  <2>1. \A i \in DOMAIN rows \cup DOMAIN rows' : i # y => EffectAt(rows, i, a) = EffectAt(rows', i, a) BY <1>7
  <2> QED BY <2>1, BookChanges DEF E
<1>9. Balance("group")' = Balance("group") BY <1>5, <1>6, <1>8
<1>10. Balance("bank")' + Balance("fund")' = Balance("bank") + Balance("fund")
  <2>1. /\ Balance("bank") \in Int /\ Balance("bank")' = Balance("bank") + E(rows', "bank") - E(rows, "bank")
        /\ Balance("fund") \in Int /\ Balance("fund")' = Balance("fund") + E(rows', "fund") - E(rows, "fund")
    BY <1>8
  <2> QED BY <1>5, <1>6, <2>1
<1> QED BY <1>1, <1>9, <1>10, BooksKept

\* The rows of an expense are at most two.
LEMMA OnNothing == ASSUME NEW c, NEW a PROVE On(c, NewIds(<<>>), a) = 0 \/ made \notin Nat
<1>1. CASE made \in Nat
  <2>1. NewIds(<<>>) = {} BY <1>1 DEF NewIds
  <2> QED BY <2>1, SumEmpty DEF On
<1> QED BY <1>1

LEMMA OnOne ==
  ASSUME made \in Nat, NEW c, IsBook(c), NEW r, NewIds(<<r>>) \subseteq DOMAIN c,
         \A i \in NewIds(<<r>>) : c[i] = <<r>>[i - made], NEW a
  PROVE  On(c, NewIds(<<r>>), a) = Effect(r, a)
<1>1. NewIds(<<r>>) = {made + 1}
  <2>1. Len(<<r>>) = 1 OBVIOUS
  <2> QED BY <2>1 DEF NewIds
<1>2. c[made + 1] = r
  <2>1. (made + 1) - made = 1 OBVIOUS
  <2> QED BY <1>1, <2>1
<1> DEFINE f == Effects(c, a)
<1>3. f[made + 1] = Effect(r, a) /\ f[made + 1] \in Int BY <1>1, <1>2, EffectType DEF Effects, IsBook
<1> HIDE DEF f
<1>4. SumFunctionOnSet(f, {made + 1}) = f[made + 1] BY <1>3, SumOne
<1> QED BY <1>1, <1>3, <1>4 DEF On, f

LEMMA OnTwo ==
  ASSUME made \in Nat, NEW c, IsBook(c), NEW r, NEW s, NewIds(<<r, s>>) \subseteq DOMAIN c,
         \A i \in NewIds(<<r, s>>) : c[i] = <<r, s>>[i - made], NEW a
  PROVE  On(c, NewIds(<<r, s>>), a) = Effect(r, a) + Effect(s, a)
<1>1. NewIds(<<r, s>>) = {made + 1, made + 2}
  <2>1. Len(<<r, s>>) = 2 OBVIOUS
  <2>2. NewIds(<<r, s>>) = made + 1 .. made + 2 BY <2>1 DEF NewIds
  <2> QED BY <2>2
<1>2. c[made + 1] = r /\ c[made + 2] = s
  <2>1. (made + 1) - made = 1 /\ (made + 2) - made = 2 OBVIOUS
  <2> QED BY <1>1, <2>1
<1> DEFINE f == Effects(c, a)
<1>3. f[made + 1] = Effect(r, a) /\ f[made + 1] \in Int /\ f[made + 2] = Effect(s, a) /\ f[made + 2] \in Int
  BY <1>1, <1>2, EffectType DEF Effects, IsBook
<1> HIDE DEF f
<1>4. SumFunctionOnSet(f, {made + 1, made + 2}) = f[made + 1] + f[made + 2] BY <1>3, SumTwo
<1> QED BY <1>1, <1>3, <1>4 DEF On, f

\* BookedIs once more, as a formula.
LEMMA BookedAlways ==
  \A total \in Nat \ {0}, part \in Nat, mine \in BOOLEAN, link \in Nat :
    part <= total => BookedRows(total, part, mine, link)
BY BookedIs

\* What an expense books is its share: what the others owe the user for it,
\* and what it took from the bank.
LEMMA ExpenseShare ==
  ASSUME SharedAssumption, made \in Nat, NEW total \in Nat \ {0}, NEW part \in Nat, part <= total,
         NEW mine \in BOOLEAN, NEW link \in Nat, link # 0 => mine /\ total = TextRial,
         NEW x, x.total = total, x.part = part, x.mine = mine, x.linked.id = link,
         NEW c, IsBook(c), NewIds(Booked(total, part, mine, link)) \subseteq DOMAIN c,
         \A i \in NewIds(Booked(total, part, mine, link)) : c[i] = Booked(total, part, mine, link)[i - made]
  PROVE  /\ On(c, NewIds(Booked(total, part, mine, link)), "group") + LinkEffect(x, "group") = Owed(x)
         /\ On(c, NewIds(Booked(total, part, mine, link)), "bank") + LinkEffect(x, "bank") = -ByHand(x)
<1> DEFINE own == Expense(part, "bank", "split")
           rest == Transfer(total - part, "bank", "group", "split")
           debt == Expense(part, "group", "split")
           new == Booked(total, part, mine, link)
<1>0. total \in Nat OBVIOUS
<1>1. /\ mine /\ link = 0 =>
           new = IF part = 0 THEN If(total > 0, <<rest>>)
                 ELSE IF part = total THEN <<own>> ELSE <<own, rest>>
      /\ mine /\ link # 0 => new = If(part > 0 /\ part # total, <<rest>>)
      /\ ~mine => new = If(part > 0, <<debt>>)
  <2>1. BookedRows(total, part, mine, link) BY BookedAlways, ZenonT(60)
  <2> QED BY <2>1 DEF BookedRows
<1>2. /\ Effect(own, "group") = 0 /\ Effect(own, "bank") = -part
      /\ Effect(rest, "group") = total - part /\ Effect(rest, "bank") = -(total - part)
      /\ Effect(debt, "group") = -part /\ Effect(debt, "bank") = 0
  BY DEF Effect, Expense, Transfer
<1>3. Owed(x) = (IF mine THEN total ELSE 0) - part /\ ByHand(x) = IF mine /\ link = 0 THEN total ELSE 0
  BY DEF Owed, ByHand
<1>4. link = 0 => LinkEffect(x, "group") = 0 /\ LinkEffect(x, "bank") = 0 BY DEF LinkEffect
<1>5. link # 0 => /\ LinkEffect(x, "group") = IF part > 0 THEN 0 ELSE TextRial
                  /\ LinkEffect(x, "bank") = IF part > 0 THEN TextRial - part ELSE 0
  <2> HAVE link # 0
  <2>1. TextRial \in Nat BY DEF SharedAssumption
  <2>2. Effect(Text, "group") = 0 /\ Effect(Text, "bank") = -TextRial BY <2>1 DEF Text, Expense, Effect
  <2>3. CASE part > 0
    <3>1. Effect(Linked(Text, part), "group") = 0 /\ Effect(Linked(Text, part), "bank") = -part
      BY <2>3 DEF Linked, Text, Expense, Effect
    <3> QED BY <2>1, <2>2, <2>3, <3>1 DEF LinkEffect
  <2>4. CASE ~(part > 0)
    <3>1. Effect(Linked(Text, part), "group") = TextRial /\ Effect(Linked(Text, part), "bank") = -TextRial
      BY <2>1, <2>4 DEF Linked, Text, Expense, Effect
    <3> QED BY <2>1, <2>2, <2>4, <3>1 DEF LinkEffect
  <2> QED BY <2>3, <2>4
<1>6. NewIds(new) \subseteq DOMAIN c /\ \A i \in NewIds(new) : c[i] = new[i - made] OBVIOUS
<1> HIDE DEF own, rest, debt, new
<1> DEFINE O(a) == On(c, NewIds(new), a)
<1>7. new = <<>> => O("group") = 0 /\ O("bank") = 0 BY OnNothing
<1>8. ASSUME NEW r, new = <<r>> PROVE O("group") = Effect(r, "group") /\ O("bank") = Effect(r, "bank")
  BY <1>6, <1>8, OnOne
<1>9. ASSUME NEW r, NEW s, new = <<r, s>>
      PROVE  /\ O("group") = Effect(r, "group") + Effect(s, "group")
             /\ O("bank") = Effect(r, "bank") + Effect(s, "bank")
  BY <1>6, <1>9, OnTwo
<1> HIDE DEF O
<1> SUFFICES O("group") + LinkEffect(x, "group") = Owed(x) /\ O("bank") + LinkEffect(x, "bank") = -ByHand(x)
  BY DEF O, new
<1>10. CASE mine /\ link = 0
  <2>1. CASE part = 0
    <3>1. new = <<rest>> BY <1>1, <1>10, <2>1 DEF If
    <3>2. O("group") = total - part /\ O("bank") = -(total - part) BY <1>2, <1>8, <3>1
    <3> QED BY <1>3, <1>4, <1>10, <2>1, <3>2
  <2>2. CASE part # 0 /\ part = total
    <3>1. new = <<own>> BY <1>1, <1>10, <2>2
    <3>2. O("group") = 0 /\ O("bank") = -part BY <1>2, <1>8, <3>1
    <3> QED BY <1>3, <1>4, <1>10, <2>2, <3>2
  <2>3. CASE part # 0 /\ part # total
    <3>1. new = <<own, rest>> BY <1>1, <1>10, <2>3
    <3>2. O("group") = 0 + (total - part) /\ O("bank") = -part + -(total - part) BY <1>2, <1>9, <3>1
    <3> QED BY <1>3, <1>4, <1>10, <2>3, <3>2
  <2> QED BY <2>1, <2>2, <2>3
<1>11. CASE mine /\ link # 0
  <2>1. TextRial \in Nat /\ total = TextRial BY <1>11 DEF SharedAssumption
  <2>2. CASE part > 0 /\ part # total
    <3>1. new = <<rest>> BY <1>1, <1>11, <2>2 DEF If
    <3>2. O("group") = total - part /\ O("bank") = -(total - part) BY <1>2, <1>8, <3>1
    <3> QED BY <1>3, <1>5, <1>11, <2>1, <2>2, <3>2
  <2>3. CASE ~(part > 0 /\ part # total)
    <3>1. new = <<>> BY <1>1, <1>11, <2>3 DEF If
    <3>2. O("group") = 0 /\ O("bank") = 0 BY <1>7, <3>1
    <3> QED BY <1>3, <1>5, <1>11, <2>1, <2>3, <3>2
  <2> QED BY <2>2, <2>3
<1>12. CASE ~mine
  <2>1. link = 0 BY <1>12
  <2>2. CASE part > 0
    <3>1. new = <<debt>> BY <1>1, <1>12, <2>2 DEF If
    <3>2. O("group") = -part /\ O("bank") = 0 BY <1>2, <1>8, <3>1
    <3> QED BY <1>3, <1>4, <1>12, <2>1, <3>2
  <2>3. CASE ~(part > 0)
    <3>1. new = <<>> BY <1>1, <1>12, <2>3 DEF If
    <3>2. O("group") = 0 /\ O("bank") = 0 BY <1>7, <3>1
    <3> QED BY <1>3, <1>4, <1>12, <2>1, <2>3, <3>2
  <2> QED BY <2>2, <2>3
<1> QED BY <1>10, <1>11, <1>12

---------------------------------------------------------------------------
(* The steps of the group. *)

LEMMA OwingGrows ==
  ASSUME GroupShape, NEW e, e \notin DOMAIN expenses, DOMAIN expenses' = DOMAIN expenses \cup {e},
         NEW x \in ExpenseRec', expenses'[e] = x, \A f \in DOMAIN expenses : expenses'[f] = expenses[f]
  PROVE  /\ Owing' = Owing + Owed(x) /\ ByHands' = ByHands + ByHand(x)
         /\ Owing \in Int /\ ByHands \in Int /\ Owed(x) \in Int /\ ByHand(x) \in Int
<1>1. \A f \in DOMAIN expenses : Owed(expenses[f]) \in Int /\ ByHand(expenses[f]) \in Int
  BY DEF GroupShape, ExpenseRec, Owed, ByHand
<1>2. Owed(x) \in Int /\ ByHand(x) \in Int BY DEF ExpenseRec, Owed, ByHand
<1>3. IsFiniteSet(DOMAIN expenses) BY DEF GroupShape
<1>4. Owing' = Owing + Owed(x) /\ Owing \in Int
  <2> DEFINE f == [d \in DOMAIN expenses |-> Owed(expenses[d])]
             g == [d \in DOMAIN expenses' |-> Owed(expenses'[d])]
  <2>1. DOMAIN f = DOMAIN expenses /\ DOMAIN g = DOMAIN f \cup {e} /\ g[e] = Owed(x)
        /\ \A d \in DOMAIN f : g[d] = f[d] /\ f[d] \in Int
    BY <1>1
  <2>2. Owing = SumFunction(f) /\ Owing' = SumFunction(g) BY DEF Owing
  <2> HIDE DEF f, g
  <2>3. SumFunction(g) = SumFunction(f) + g[e] /\ SumFunction(f) \in Int BY <1>2, <1>3, <2>1, SumGrows
  <2> QED BY <2>1, <2>2, <2>3
<1>5. ByHands' = ByHands + ByHand(x) /\ ByHands \in Int
  <2> DEFINE f == [d \in DOMAIN expenses |-> ByHand(expenses[d])]
             g == [d \in DOMAIN expenses' |-> ByHand(expenses'[d])]
  <2>1. DOMAIN f = DOMAIN expenses /\ DOMAIN g = DOMAIN f \cup {e} /\ g[e] = ByHand(x)
        /\ \A d \in DOMAIN f : g[d] = f[d] /\ f[d] \in Int
    BY <1>1
  <2>2. ByHands = SumFunction(f) /\ ByHands' = SumFunction(g) BY DEF ByHands
  <2> HIDE DEF f, g
  <2>3. SumFunction(g) = SumFunction(f) + g[e] /\ SumFunction(f) \in Int BY <1>2, <1>3, <2>1, SumGrows
  <2> QED BY <2>1, <2>2, <2>3
<1> QED BY <1>2, <1>4, <1>5

LEMMA OwingShrinks ==
  ASSUME GroupShape, NEW e \in DOMAIN expenses, DOMAIN expenses' = DOMAIN expenses \ {e},
         \A f \in DOMAIN expenses' : expenses'[f] = expenses[f]
  PROVE  /\ Owing' = Owing - Owed(expenses[e]) /\ ByHands' = ByHands - ByHand(expenses[e])
         /\ Owing \in Int /\ ByHands \in Int /\ Owed(expenses[e]) \in Int /\ ByHand(expenses[e]) \in Int
<1>1. \A f \in DOMAIN expenses : Owed(expenses[f]) \in Int /\ ByHand(expenses[f]) \in Int
  BY DEF GroupShape, ExpenseRec, Owed, ByHand
<1>2. IsFiniteSet(DOMAIN expenses') BY FS_RemoveElement DEF GroupShape
<1>3. Owing' = Owing - Owed(expenses[e]) /\ Owing \in Int
  <2> DEFINE f == [d \in DOMAIN expenses |-> Owed(expenses[d])]
             g == [d \in DOMAIN expenses' |-> Owed(expenses'[d])]
  <2>1. DOMAIN g = DOMAIN expenses' /\ DOMAIN f = DOMAIN g \cup {e} /\ e \notin DOMAIN g
        /\ f[e] = Owed(expenses[e]) /\ f[e] \in Int
        /\ \A d \in DOMAIN g : f[d] = g[d] /\ g[d] \in Int
    BY <1>1
  <2>2. Owing = SumFunction(f) /\ Owing' = SumFunction(g) BY DEF Owing
  <2> HIDE DEF f, g
  <2>3. SumFunction(f) = SumFunction(g) + f[e] /\ SumFunction(g) \in Int BY <1>2, <2>1, SumGrows
  <2> QED BY <2>1, <2>2, <2>3
<1>4. ByHands' = ByHands - ByHand(expenses[e]) /\ ByHands \in Int
  <2> DEFINE f == [d \in DOMAIN expenses |-> ByHand(expenses[d])]
             g == [d \in DOMAIN expenses' |-> ByHand(expenses'[d])]
  <2>1. DOMAIN g = DOMAIN expenses' /\ DOMAIN f = DOMAIN g \cup {e} /\ e \notin DOMAIN g
        /\ f[e] = ByHand(expenses[e]) /\ f[e] \in Int
        /\ \A d \in DOMAIN g : f[d] = g[d] /\ g[d] \in Int
    BY <1>1
  <2>2. ByHands = SumFunction(f) /\ ByHands' = SumFunction(g) BY DEF ByHands
  <2> HIDE DEF f, g
  <2>3. SumFunction(f) = SumFunction(g) + f[e] /\ SumFunction(g) \in Int BY <1>2, <2>1, SumGrows
  <2> QED BY <2>1, <2>2, <2>3
<1> QED BY <1>1, <1>3, <1>4

LEMMA OwingType == ASSUME GroupShape PROVE Owing \in Int /\ ByHands \in Int
<1>1. \A f \in DOMAIN expenses : Owed(expenses[f]) \in Int /\ ByHand(expenses[f]) \in Int
  BY DEF GroupShape, ExpenseRec, Owed, ByHand
<1>2. IsFiniteSet(DOMAIN expenses) BY DEF GroupShape
<1> DEFINE D == DOMAIN expenses
           f == [e \in D |-> Owed(expenses[e])]
           g == [e \in D |-> ByHand(expenses[e])]
<1>3. DOMAIN f = D /\ DOMAIN g = D /\ (\A e \in D : f[e] \in Int) /\ (\A e \in D : g[e] \in Int) BY <1>1
<1>4. Owing = SumFunctionOnSet(f, D) /\ ByHands = SumFunctionOnSet(g, D) BY DEF Owing, ByHands, SumFunction
<1>5. IsFiniteSet(D) BY <1>2
<1> HIDE DEF D, f, g
<1> QED BY <1>3, <1>4, <1>5, SumType

LEMMA LinkEffectType ==
  ASSUME SharedAssumption, NEW x, x.part \in Nat, NEW a PROVE LinkEffect(x, a) \in Int
<1>1. TextRial \in Nat BY DEF SharedAssumption
<1>2. Effect(Text, a) \in Int BY <1>1 DEF Effect, Text, Expense
<1>3. Effect(Linked(Text, x.part), a) \in Int BY <1>1 DEF Effect, Linked, Text, Expense
<1> QED BY <1>2, <1>3 DEF LinkEffect

LEMMA BooksNow == ASSUME SharedAssumption, RowsShape, RowsShape' PROVE IsBook(rows) /\ IsBook(rows')
<1>1. IsBook(rows) BY RowsAreABook
<1>2. IsBook(rows)' BY RowsShape', SharedAssumption, RowsAreABook, PTL
<1> QED BY <1>1, <1>2 DEF IsBook

\* The book with an expense's rows, and the message it takes over.
LEMMA ExpenseMoves ==
  ASSUME SharedAssumption, RowsShape, RowsShape', NEW part \in Nat, NEW total,
         NEW link \in {0} \cup LinkCandidates(total), link # 0 => rows[link] = Text,
         NEW new \in Seq(SplitRow), rows' = Pushed(Taken(link, part), new),
         NEW x, x.part = part, x.linked.id = link, NEW a
  PROVE  /\ Balance(a)' = Balance(a) + On(rows', NewIds(new), a) + LinkEffect(x, a)
         /\ Balance(a) \in Int /\ On(rows', NewIds(new), a) \in Int /\ LinkEffect(x, a) \in Int
<1> DEFINE book == Taken(link, part)
           b == rows
           c == rows'
           S == NewIds(new)
<1>1. made \in Nat /\ DOMAIN rows \subseteq 1..made /\ Len(new) \in Nat BY DEF RowsShape
<1>2. /\ DOMAIN book = DOMAIN rows /\ \A i \in DOMAIN rows : i # link => book[i] = rows[i] BY TakenIs, SMTT(60)
<1>3. ASSUME link # 0 PROVE link \in DOMAIN rows /\ book[link] = Linked(Text, part) /\ book[link] \in Row
  BY <1>3, LinkIs, TakenIs DEF BankRow
<1>4. IsBook(b) /\ IsBook(c) BY BooksNow
<1>5. 0 \notin DOMAIN rows BY <1>1
<1>6. IsBook(book)
  <2>1. \A i \in DOMAIN book : i # link => book[i] \in Row BY <1>2, <1>4 DEF IsBook
  <2>2. \A i \in DOMAIN book : i = link => book[i] \in Row BY <1>2, <1>3, <1>5
  <2> QED BY <1>2, <1>4, <2>1, <2>2 DEF IsBook
<1>7. /\ DOMAIN c = DOMAIN book \cup S /\ S \cap DOMAIN book = {} /\ \A i \in DOMAIN book : c[i] = book[i]
  <2>1. \A i \in S : i > made BY <1>1 DEF NewIds
  <2> HIDE DEF book
  <2>2. DOMAIN c = DOMAIN book \cup S /\ \A i \in DOMAIN book : c[i] = book[i] BY DEF Pushed, book
  <2> QED BY <1>1, <1>2, <2>1, <2>2
<1>8. Balance(a) = BalanceIn(b, a) /\ Balance(a)' = BalanceIn(c, a) BY DEF Balance, BalanceIn, Effects
<1>9. \A i \in DOMAIN b \cup DOMAIN book : i # link => EffectAt(b, i, a) = EffectAt(book, i, a)
  BY <1>2 DEF EffectAt
<1>10. EffectAt(book, link, a) - EffectAt(b, link, a) = LinkEffect(x, a)
  <2>1. CASE link = 0 BY <1>2, <1>5, <2>1 DEF EffectAt, LinkEffect
  <2>2. CASE link # 0
    <3>1. EffectAt(book, link, a) = Effect(Linked(Text, part), a) /\ EffectAt(b, link, a) = Effect(Text, a)
      BY <1>2, <1>3, <2>2 DEF EffectAt
    <3> QED BY <2>2, <3>1 DEF LinkEffect
  <2> QED BY <2>1, <2>2
<1>11. LinkEffect(x, a) \in Int BY LinkEffectType
<1>12. EffectAt(book, link, a) \in Int /\ EffectAt(b, link, a) \in Int BY <1>4, <1>6, EffectAtType
<1> HIDE DEF b, c, book, S
<1>13. BalanceIn(b, a) \in Int
       /\ BalanceIn(book, a) = BalanceIn(b, a) + EffectAt(book, link, a) - EffectAt(b, link, a)
  BY <1>4, <1>6, <1>9, BalanceAt
<1>14. BalanceIn(c, a) = BalanceIn(book, a) + On(c, S, a) /\ BalanceIn(book, a) \in Int /\ On(c, S, a) \in Int
  BY <1>4, <1>6, <1>7, BalanceSplits
<1>15. BalanceIn(c, a) = BalanceIn(b, a) + On(c, S, a) + LinkEffect(x, a)
  BY <1>10, <1>11, <1>12, <1>13, <1>14
<1> QED BY <1>8, <1>11, <1>13, <1>14, <1>15 DEF c, S

LEMMA AddKeepsBooks ==
  ASSUME SharedAssumption, PartsAreNoTotals, Shape, Shape', RowsAreNamed, LinkInv, GroupBooks,
         NEW e \in Expenses, NEW total \in Totals, NEW part \in Parts,
         NEW mine \in BOOLEAN, NEW link \in {0} \cup DOMAIN rows, AddExpense(e, total, part, mine, link)
  PROVE  GroupBooks'
<1> DEFINE new == Booked(total, part, mine, link)
           lk == IF link = 0 THEN NoLink ELSE [id |-> link, before |-> rows[link]]
           x == [total |-> total, part |-> part, mine |-> mine, ids |-> NewIds(new), linked |-> lk]
<1>0. RowsShape /\ GroupShape /\ RowsShape' /\ GroupShape' /\ GroupNamed BY NamedParts DEF Shape
<1>r. RowsShape BY <1>0
<1>1. /\ total \in Nat \ {0} /\ part \in Nat /\ part <= total /\ link \in {0} \cup LinkCandidates(total)
      /\ link \in 0..Texts /\ (link # 0 => mine)
      /\ e \notin DOMAIN expenses /\ expenses' = Put(expenses, e, x)
      /\ new \in Seq(SplitRow) /\ Len(new) \in Nat
      /\ rows' = Pushed(Taken(link, part), new) /\ UNCHANGED <<settled, fund, removed>>
  <2>1. Added(e, total, part, mine, link) BY <1>r, AddIs
  <2> QED BY <2>1 DEF Added
<1>2. x.total = total /\ x.part = part /\ x.mine = mine /\ x.ids = NewIds(new) /\ x.linked.id = link
  BY DEF NoLink
<1>3. link # 0 => rows[link] = Text /\ total = TextRial
  <2> HAVE link # 0
  <2>1. link \in LinkCandidates(total) BY <1>1
  <2> QED BY <1>0, <2>1, LinkIsFree
<1> SUFFICES ASSUME removed' \cap {"split", "bank"} = {} PROVE GroupBooks' BY DEF GroupBooks
<1>4. /\ removed \cap {"split", "bank"} = {}
      /\ \A i \in 1..Texts : i \in DOMAIN rows
      /\ \A f \in DOMAIN expenses :
         /\ On(rows, expenses[f].ids, "group") + LinkEffect(expenses[f], "group") = Owed(expenses[f])
         /\ On(rows, expenses[f].ids, "bank") + LinkEffect(expenses[f], "bank") = -ByHand(expenses[f])
      /\ settled # Unsettled =>
         /\ settled.txn \in DOMAIN rows
         /\ rows[settled.txn] = Transfer(settled.rial, IF settled.out THEN "bank" ELSE "group",
                                         IF settled.out THEN "group" ELSE "bank", "split")
      /\ Balance("group") = Owing + PaidOut(settled)
      /\ Balance("bank") + Balance("fund") = -(Texts * TextRial) - ByHands - PaidOut(settled)
  BY <1>1 DEF GroupBooks
<1> HIDE DEF x, lk, new
<1>5. made \in Nat /\ DOMAIN rows \subseteq 1..made /\ Texts \in Nat /\ 0 \notin DOMAIN rows
  BY <1>0 DEF RowsShape, SharedAssumption
<1>6. RowsShape /\ part \in Nat /\ link \in {0} \cup LinkCandidates(total) BY <1>0, <1>1
<1>7. DOMAIN Taken(link, part) = DOMAIN rows
      /\ \A i \in DOMAIN rows : i # link => Taken(link, part)[i] = rows[i]
  BY <1>6, TakenIs
<1>8. /\ DOMAIN rows' = DOMAIN rows \cup NewIds(new) /\ \A i \in DOMAIN rows : i # link => rows'[i] = rows[i]
      /\ \A i \in NewIds(new) : rows'[i] = new[i - made]
  <2> DEFINE book == Taken(link, part)
  <2>1. DOMAIN book = DOMAIN rows /\ rows' = Pushed(book, new) BY <1>1, <1>7
  <2>2. \A i \in NewIds(new) : i \notin DOMAIN rows BY <1>1, <1>5 DEF NewIds
  <2> HIDE DEF book
  <2>3. /\ DOMAIN rows' = DOMAIN rows \cup NewIds(new) /\ \A i \in DOMAIN rows : rows'[i] = book[i]
        /\ \A i \in NewIds(new) : rows'[i] = new[i - made]
    BY <2>1, <2>2 DEF Pushed
  <2> QED BY <1>7, <2>3 DEF book
<1>9. /\ DOMAIN expenses' = DOMAIN expenses \cup {e} /\ expenses'[e] = x
      /\ \A f \in DOMAIN expenses : expenses'[f] = expenses[f]
  BY <1>1 DEF Put
<1>10. IsBook(rows) /\ IsBook(rows') BY <1>0, BooksNow
<1>11. On(rows', NewIds(new), "group") + LinkEffect(x, "group") = Owed(x)
       /\ On(rows', NewIds(new), "bank") + LinkEffect(x, "bank") = -ByHand(x)
  <2> DEFINE c == rows'
  <2>1. IsBook(c) /\ NewIds(Booked(total, part, mine, link)) \subseteq DOMAIN c
        /\ \A i \in NewIds(Booked(total, part, mine, link)) : c[i] = Booked(total, part, mine, link)[i - made]
    BY <1>8, <1>10 DEF new
  <2>2. link \in Nat /\ (link # 0 => mine /\ total = TextRial) BY <1>1, <1>3, <1>5
  <2> HIDE DEF c
  <2>3. On(c, NewIds(Booked(total, part, mine, link)), "group") + LinkEffect(x, "group") = Owed(x)
        /\ On(c, NewIds(Booked(total, part, mine, link)), "bank") + LinkEffect(x, "bank") = -ByHand(x)
    BY <1>1, <1>2, <1>5, <2>1, <2>2, ExpenseShare, SMTT(60)
  <2> QED BY <2>3 DEF c, new
<1>12. ASSUME NEW a
       PROVE  /\ Balance(a)' = Balance(a) + On(rows', NewIds(new), a) + LinkEffect(x, a)
              /\ Balance(a) \in Int /\ On(rows', NewIds(new), a) \in Int /\ LinkEffect(x, a) \in Int
  BY <1>0, <1>1, <1>2, <1>3, ExpenseMoves
<1>13. /\ Owing' = Owing + Owed(x) /\ ByHands' = ByHands + ByHand(x)
       /\ Owing \in Int /\ ByHands \in Int /\ Owed(x) \in Int /\ ByHand(x) \in Int
  <2>1. x \in ExpenseRec' BY <1>0, <1>9 DEF GroupShape
  <2> QED BY <1>0, <1>1, <1>9, <2>1, OwingGrows
<1>14. PaidOut(settled) \in Int /\ PaidOut(settled)' = PaidOut(settled)
       /\ Texts * TextRial \in Int
  BY <1>0, <1>1 DEF GroupShape, PaidOut, SharedAssumption
<1>15. Balance("group")' = Owing' + PaidOut(settled)'
  <2>1. Balance("group")' = Balance("group") + Owed(x) /\ Balance("group") \in Int BY <1>11, <1>12, <1>13
  <2> QED BY <1>4, <1>13, <1>14, <2>1
<1>16. Balance("bank")' + Balance("fund")' = -(Texts * TextRial) - ByHands' - PaidOut(settled)'
  <2>1. Balance("bank")' = Balance("bank") - ByHand(x) /\ Balance("bank") \in Int BY <1>11, <1>12, <1>13
  <2>2. Balance("fund")' = Balance("fund") /\ Balance("fund") \in Int
    <3>1. FundRowsStay BY <1>1, <1>6, PushLeavesFund
    <3> QED BY <1>0, <1>12, <3>1, FundBalanceKept
  <2> QED BY <1>4, <1>13, <1>14, <2>1, <2>2
<1>17. \A f \in DOMAIN expenses' :
         /\ On(rows', expenses'[f].ids, "group") + LinkEffect(expenses'[f], "group") = Owed(expenses'[f])
         /\ On(rows', expenses'[f].ids, "bank") + LinkEffect(expenses'[f], "bank") = -ByHand(expenses'[f])
  <2> TAKE f \in DOMAIN expenses'
  <2>1. CASE f = e BY <1>2, <1>9, <1>11, <2>1
  <2>2. CASE f # e
    <3> DEFINE b == rows
               c == rows'
               S == expenses[f].ids
    <3>1. f \in DOMAIN expenses /\ expenses'[f] = expenses[f] BY <1>9, <2>2
    <3>2. S \subseteq SplitRows BY <1>0, <3>1 DEF GroupNamed, ExpenseIds
    <3>3. \A i \in S : i \in DOMAIN rows /\ i # link
      <4>1. \A i \in SplitRows : i \in DOMAIN rows /\ rows[i].of = "split" BY DEF SplitRows, RowsOf
      <4>2. link # 0 => rows[link].of = "none" BY <1>3 DEF Text, Expense
      <4> QED BY <1>5, <3>2, <4>1, <4>2
    <3>4. S \subseteq DOMAIN b /\ S \subseteq DOMAIN c /\ \A i \in S : b[i] = c[i]
      <4> HIDE DEF S
      <4> QED BY <1>8, <3>3
    <3>5. IsBook(b) BY <1>10
    <3> HIDE DEF b, c, S
    <3>6. On(b, S, "group") = On(c, S, "group") /\ On(b, S, "bank") = On(c, S, "bank") BY <3>4, <3>5, OnSame
    <3> QED BY <1>4, <3>1, <3>6 DEF b, c, S
  <2> QED BY <2>1, <2>2
<1>18. settled # Unsettled =>
         /\ settled.txn \in DOMAIN rows'
         /\ rows'[settled.txn] = Transfer(settled.rial, IF settled.out THEN "bank" ELSE "group",
                                         IF settled.out THEN "group" ELSE "bank", "split")
  <2> HAVE settled # Unsettled
  <2>1. settled.txn \in DOMAIN rows BY <1>4
  <2>2. settled.txn # link
    <3>1. settled.txn # 0 BY <1>5, <2>1
    <3>2. settled.txn \in SplitRows BY <1>0, <3>1 DEF GroupNamed
    <3>3. rows[settled.txn].of = "split" BY <3>2 DEF SplitRows, RowsOf
    <3>4. link # 0 => rows[link].of = "none" BY <1>3 DEF Text, Expense
    <3> QED BY <3>1, <3>3, <3>4
  <2> QED BY <1>4, <1>8, <2>1, <2>2
<1>19. \A i \in 1..Texts : i \in DOMAIN rows' BY <1>4, <1>8
<1> QED BY <1>1, <1>15, <1>16, <1>17, <1>18, <1>19 DEF GroupBooks, On

LEMMA DeleteKeepsBooks ==
  ASSUME SharedAssumption, Shape, Shape', RowsAreNamed, LinkInv, GroupBooks,
         NEW e \in Expenses, DeleteExpense(e)
  PROVE  GroupBooks'
<1> DEFINE S == expenses[e].ids
           D == Drop(rows, S)
           x == expenses[e]
           lk == x.linked
<1>0. RowsShape /\ GroupShape /\ RowsShape' /\ GroupShape' /\ GroupNamed /\ Texts \in Nat /\ 0 \notin DOMAIN rows
  BY NamedParts DEF Shape, RowsShape, SharedAssumption
<1>1. /\ e \in DOMAIN expenses /\ rows' = Restored(D, lk) /\ expenses' = Drop(expenses, {e})
      /\ UNCHANGED <<settled, fund, removed>>
  BY DEF DeleteExpense
<1> SUFFICES ASSUME removed' \cap {"split", "bank"} = {} PROVE GroupBooks' BY DEF GroupBooks
<1>2. /\ removed \cap {"split", "bank"} = {}
      /\ \A i \in 1..Texts : i \in DOMAIN rows
      /\ \A f \in DOMAIN expenses :
         /\ On(rows, expenses[f].ids, "group") + LinkEffect(expenses[f], "group") = Owed(expenses[f])
         /\ On(rows, expenses[f].ids, "bank") + LinkEffect(expenses[f], "bank") = -ByHand(expenses[f])
      /\ settled # Unsettled =>
         /\ settled.txn \in DOMAIN rows
         /\ rows[settled.txn] = Transfer(settled.rial, IF settled.out THEN "bank" ELSE "group",
                                         IF settled.out THEN "group" ELSE "bank", "split")
      /\ Balance("group") = Owing + PaidOut(settled)
      /\ Balance("bank") + Balance("fund") = -(Texts * TextRial) - ByHands - PaidOut(settled)
  BY <1>1 DEF GroupBooks
<1>3. x \in ExpenseRec BY <1>0, <1>1 DEF GroupShape
<1>4. lk.id \in 0..Texts /\ lk.before \in BankRow /\ x.part \in Nat /\ S \subseteq Texts + 1 .. made
  BY <1>3 DEF ExpenseRec
<1>5. S \subseteq SplitRows /\ S \subseteq DOMAIN rows
      /\ \A i \in S : rows[i].of = "split"
  <2>1. S \subseteq SplitRows BY <1>0, <1>1 DEF GroupNamed, ExpenseIds
  <2> HIDE DEF S
  <2> QED BY <2>1 DEF SplitRows, RowsOf
<1>6. lk.id # 0 => /\ lk.before = Text /\ lk.id \in DOMAIN rows /\ rows[lk.id] = Linked(Text, x.part)
                   /\ lk.id \notin S
  <2> HAVE lk.id # 0
  <2>1. lk.id \in 1..Texts /\ lk.id \in DOMAIN rows BY <1>0, <1>2, <1>4
  <2>2. lk.before = Text /\ rows[lk.id] = Linked(Text, x.part) BY <1>1, <2>1 DEF LinkInv
  <2>3. lk.id \notin S BY <1>0, <1>4, <2>1
  <2> QED BY <2>1, <2>2, <2>3
<1>7. DOMAIN expenses' = DOMAIN expenses \ {e} /\ \A f \in DOMAIN expenses' : expenses'[f] = expenses[f]
  BY <1>1 DEF Drop
<1>8. IsBook(rows) /\ IsBook(rows') BY <1>0, BooksNow
<1>9. DOMAIN D = DOMAIN rows \ S /\ \A i \in DOMAIN D : D[i] = rows[i] BY DEF Drop
<1>10. DOMAIN rows' = DOMAIN D /\ \A i \in DOMAIN D : rows'[i] = IF i = lk.id THEN Text ELSE rows[i]
  <2> HIDE DEF D, lk, S
  <2>1. CASE lk.id \in DOMAIN D
    <3>1. rows' = [D EXCEPT ![lk.id] = lk.before] BY <1>1, <2>1 DEF Restored
    <3>2. lk.id # 0 BY <1>0, <1>9, <2>1
    <3> QED BY <1>6, <1>9, <3>1, <3>2
  <2>2. CASE lk.id \notin DOMAIN D
    <3>1. rows' = D BY <1>1, <2>2 DEF Restored
    <3> QED BY <1>9, <2>2, <3>1
  <2> QED BY <2>1, <2>2
<1>11. /\ Owing' = Owing - Owed(x) /\ ByHands' = ByHands - ByHand(x)
       /\ Owing \in Int /\ ByHands \in Int /\ Owed(x) \in Int /\ ByHand(x) \in Int
  BY <1>0, <1>1, <1>7, OwingShrinks
<1>12. ASSUME NEW a
       PROVE  /\ Balance(a)' = Balance(a) - (On(rows, S, a) + LinkEffect(x, a))
              /\ Balance(a) \in Int /\ Balance(a)' \in Int /\ On(rows, S, a) \in Int /\ LinkEffect(x, a) \in Int
  <2> DEFINE b == rows
             c == rows'
             y == lk.id
  <2>1. IsBook(D) /\ IsBook(b) /\ IsBook(c) /\ DOMAIN D \subseteq DOMAIN b
    <3> HIDE DEF D, S
    <3>1. IsFiniteSet(DOMAIN D) BY <1>8, <1>9, FS_Subset DEF IsBook
    <3> QED BY <1>8, <1>9, <3>1 DEF IsBook
  <2>2. DOMAIN b = DOMAIN D \cup S /\ S \cap DOMAIN D = {} /\ \A i \in DOMAIN D : b[i] = D[i]
    <3> HIDE DEF D, S
    <3> QED BY <1>5, <1>9
  <2>3. \A i \in DOMAIN D \cup DOMAIN c : i # y => EffectAt(D, i, a) = EffectAt(c, i, a)
    <3> HIDE DEF D, y
    <3> QED BY <1>9, <1>10 DEF EffectAt, y
  <2>4. EffectAt(D, y, a) - EffectAt(c, y, a) = LinkEffect(x, a)
    <3>1. CASE y = 0
      <4>1. y \notin DOMAIN D /\ y \notin DOMAIN c
        <5> HIDE DEF D, S
        <5> QED BY <1>0, <1>9, <1>10, <3>1
      <4>2. EffectAt(D, y, a) = 0 /\ EffectAt(c, y, a) = 0
        <5> HIDE DEF D, y, c
        <5> QED BY <4>1 DEF EffectAt
      <4> QED BY <3>1, <4>2 DEF LinkEffect
    <3>2. CASE y # 0
      <4>1. y \in DOMAIN D /\ y \in DOMAIN c /\ D[y] = Linked(Text, x.part) /\ c[y] = Text
        <5> HIDE DEF D, S, x
        <5> QED BY <1>6, <1>9, <1>10, <3>2
      <4>2. EffectAt(D, y, a) = Effect(Linked(Text, x.part), a) /\ EffectAt(c, y, a) = Effect(Text, a)
        <5> HIDE DEF D, c, x, y
        <5> QED BY <4>1 DEF EffectAt
      <4> QED BY <3>2, <4>2 DEF LinkEffect
    <3> QED BY <3>1, <3>2
  <2>5. LinkEffect(x, a) \in Int
    <3> HIDE DEF x
    <3> QED BY <1>4, LinkEffectType
  <2>6. Balance(a) = BalanceIn(b, a) /\ Balance(a)' = BalanceIn(c, a) BY DEF Balance, BalanceIn, Effects
  <2> HIDE DEF D, S, x, lk, b, c, y
  <2>7. EffectAt(D, y, a) \in Int /\ EffectAt(c, y, a) \in Int BY <2>1, EffectAtType
  <2>8. BalanceIn(b, a) = BalanceIn(D, a) + On(b, S, a) /\ BalanceIn(D, a) \in Int /\ On(b, S, a) \in Int
    BY <2>1, <2>2, BalanceSplits
  <2>9. BalanceIn(c, a) = BalanceIn(D, a) + EffectAt(c, y, a) - EffectAt(D, y, a)
    BY <2>1, <2>3, BalanceAt
  <2>10. BalanceIn(c, a) = BalanceIn(b, a) - (On(b, S, a) + LinkEffect(x, a)) /\ BalanceIn(c, a) \in Int
         /\ BalanceIn(b, a) \in Int
    BY <2>4, <2>5, <2>7, <2>8, <2>9
  <2> QED BY <2>5, <2>6, <2>8, <2>10 DEF b
<1>13. On(rows, S, "group") + LinkEffect(x, "group") = Owed(x)
       /\ On(rows, S, "bank") + LinkEffect(x, "bank") = -ByHand(x)
  BY <1>1, <1>2
<1>14. PaidOut(settled) \in Int /\ PaidOut(settled)' = PaidOut(settled)
       /\ Texts * TextRial \in Int
  BY <1>0, <1>1 DEF GroupShape, PaidOut, SharedAssumption
<1>f. S \cap DOMAIN rows = S /\ \A i \in S \cap DOMAIN rows : rows[i].of # "fund"
  <2> HIDE DEF S
  <2> QED BY <1>5
<1> HIDE DEF S, D, x, lk
<1>15. Balance("group")' = Owing' + PaidOut(settled)'
  <2>1. Balance("group")' = Balance("group") - Owed(x) /\ Balance("group") \in Int BY <1>12, <1>13
  <2> QED BY <1>2, <1>11, <1>14, <2>1
<1>16. Balance("bank")' + Balance("fund")' = -(Texts * TextRial) - ByHands' - PaidOut(settled)'
  <2>1. Balance("bank")' = Balance("bank") + ByHand(x) /\ Balance("bank") \in Int
    <3>1. Balance("bank")' = Balance("bank") - (-ByHand(x)) /\ Balance("bank") \in Int BY <1>12, <1>13
    <3> QED BY <1>11, <3>1
  <2>2. Balance("fund")' = Balance("fund") /\ Balance("fund") \in Int
    <3>1. FundRowsStay BY <1>0, <1>1, <1>4, <1>f, RestoreLeavesFund DEF D
    <3> QED BY <1>0, <1>12, <3>1, FundBalanceKept
  <2> QED BY <1>2, <1>11, <1>14, <2>1, <2>2
<1>17. \A f \in DOMAIN expenses' :
         /\ On(rows', expenses'[f].ids, "group") + LinkEffect(expenses'[f], "group") = Owed(expenses'[f])
         /\ On(rows', expenses'[f].ids, "bank") + LinkEffect(expenses'[f], "bank") = -ByHand(expenses'[f])
  <2> TAKE f \in DOMAIN expenses'
  <2> DEFINE b == rows
             c == rows'
             T == expenses[f].ids
  <2>1. f \in DOMAIN expenses /\ f # e /\ expenses'[f] = expenses[f] BY <1>7
  <2>2. T \subseteq SplitRows /\ T \cap S = {} BY <1>0, <1>1, <2>1 DEF GroupNamed, ExpenseIds, S
  <2>3. lk.id # 0 => lk.id \notin SplitRows
    <3>1. lk.id # 0 => rows[lk.id] \in BankRow BY <1>0, <1>4, <1>6 DEF RowsShape
    <3> QED BY <3>1 DEF SplitRows, RowsOf, BankRow
  <2>4. \A i \in T : i \in DOMAIN rows /\ i # lk.id /\ i \notin S
    <3>1. \A i \in SplitRows : i \in DOMAIN rows BY DEF SplitRows, RowsOf
    <3> HIDE DEF T
    <3> QED BY <1>0, <2>2, <2>3, <3>1
  <2>5. T \subseteq DOMAIN b /\ T \subseteq DOMAIN c /\ \A i \in T : b[i] = c[i]
    <3> HIDE DEF T
    <3> QED BY <1>9, <1>10, <2>4
  <2>6. IsBook(b) BY <1>8
  <2> HIDE DEF b, c, T
  <2>7. On(b, T, "group") = On(c, T, "group") /\ On(b, T, "bank") = On(c, T, "bank") BY <2>5, <2>6, OnSame
  <2> QED BY <1>2, <2>1, <2>7 DEF b, c, T
<1>18. settled # Unsettled =>
         /\ settled.txn \in DOMAIN rows'
         /\ rows'[settled.txn] = Transfer(settled.rial, IF settled.out THEN "bank" ELSE "group",
                                         IF settled.out THEN "group" ELSE "bank", "split")
  <2> HAVE settled # Unsettled
  <2>1. settled.txn \in DOMAIN rows /\ settled.txn # 0 BY <1>0, <1>2
  <2>2. settled.txn \in SplitRows /\ settled.txn \notin ExpenseIds BY <1>0, <2>1 DEF GroupNamed
  <2>3. settled.txn \notin S BY <1>1, <2>2 DEF ExpenseIds, S, x
  <2>4. settled.txn # lk.id
    <3>1. rows[settled.txn].of = "split" BY <2>2 DEF SplitRows, RowsOf
    <3>2. lk.id # 0 => rows[lk.id] \in BankRow BY <1>0, <1>4, <1>6 DEF RowsShape
    <3> QED BY <2>1, <3>1, <3>2 DEF BankRow
  <2> QED BY <1>2, <1>9, <1>10, <2>1, <2>3, <2>4
<1>19. \A i \in 1..Texts : i \in DOMAIN rows'
  <2>1. \A i \in 1..Texts : i \notin S BY <1>0, <1>4
  <2> QED BY <1>2, <1>9, <1>10, <2>1
<1> QED BY <1>1, <1>15, <1>16, <1>17, <1>18, <1>19 DEF GroupBooks, On

\* The row of a settlement pays what it says, from one account to the other.
SettlementRow(s) ==
  Transfer(s.rial, IF s.out THEN "bank" ELSE "group", IF s.out THEN "group" ELSE "bank", "split")

LEMMA SettlementPays ==
  ASSUME NEW s, s.out \in BOOLEAN, s.rial \in Int
  PROVE  /\ Effect(SettlementRow(s), "group") = PaidOut(s)
         /\ Effect(SettlementRow(s), "bank") = -PaidOut(s)
         /\ Effect(SettlementRow(s), "fund") = 0
         /\ PaidOut(s) \in Int
<1>1. CASE s.out = TRUE BY <1>1 DEF Effect, SettlementRow, Transfer, PaidOut
<1>2. CASE s.out = FALSE BY <1>2 DEF Effect, SettlementRow, Transfer, PaidOut
<1> QED BY <1>1, <1>2

LEMMA UnsettledPays == PaidOut(Unsettled) = 0
<1>1. Unsettled.out = FALSE /\ Unsettled.rial = 0 BY DEF Unsettled
<1> DEFINE s == Unsettled
<1>2. s.out = FALSE /\ s.rial \in Int /\ s.rial = 0 BY <1>1
<1> HIDE DEF s
<1>3. PaidOut(s) = -s.rial BY <1>2 DEF PaidOut
<1>4. PaidOut(s) + s.rial = 0 /\ PaidOut(s) \in Int
  <2> DEFINE r == s.rial
  <2>1. r \in Int /\ PaidOut(s) = -r BY <1>2, <1>3
  <2> HIDE DEF r
  <2>2. PaidOut(s) + r = 0 /\ PaidOut(s) \in Int BY <2>1
  <2> QED BY <2>2 DEF r
<1> QED BY <1>2, <1>4 DEF s

\* A step that makes or takes back the settlement, with its row.
LEMMA SettlementKeepsBooks ==
  ASSUME SharedAssumption, Shape, Shape', RowsAreNamed, GroupBooks,
         UNCHANGED <<expenses, fund, removed>>, removed \cap {"split", "bank"} = {},
         NEW y, y \notin 1..Texts \cup ExpenseIds,
         \A i \in DOMAIN rows \cup DOMAIN rows' :
           i # y => i \in DOMAIN rows /\ i \in DOMAIN rows' /\ rows'[i] = rows[i],
         EffectAt(rows', y, "group") - EffectAt(rows, y, "group") = PaidOut(settled') - PaidOut(settled),
         EffectAt(rows', y, "bank") - EffectAt(rows, y, "bank") = PaidOut(settled) - PaidOut(settled'),
         EffectAt(rows', y, "fund") = EffectAt(rows, y, "fund"),
         settled' # Unsettled => settled'.txn \in DOMAIN rows' /\ rows'[settled'.txn] = SettlementRow(settled')
  PROVE  GroupBooks'
<1>0. RowsShape /\ RowsShape' /\ GroupShape /\ GroupShape' /\ GroupNamed BY NamedParts DEF Shape
<1>1. /\ \A i \in 1..Texts : i \in DOMAIN rows
      /\ \A f \in DOMAIN expenses :
         /\ On(rows, expenses[f].ids, "group") + LinkEffect(expenses[f], "group") = Owed(expenses[f])
         /\ On(rows, expenses[f].ids, "bank") + LinkEffect(expenses[f], "bank") = -ByHand(expenses[f])
      /\ Balance("group") = Owing + PaidOut(settled)
      /\ Balance("bank") + Balance("fund") = -(Texts * TextRial) - ByHands - PaidOut(settled)
  BY DEF GroupBooks
<1>2. IsBook(rows) /\ IsBook(rows') BY <1>0, BooksNow
<1>3. \A i \in DOMAIN rows \cup DOMAIN rows' : i # y => \A a : EffectAt(rows, i, a) = EffectAt(rows', i, a)
  BY DEF EffectAt
<1>4. ASSUME NEW a
      PROVE  /\ Balance(a) \in Int /\ Balance(a)' \in Int
             /\ EffectAt(rows, y, a) \in Int /\ EffectAt(rows', y, a) \in Int
             /\ Balance(a)' = Balance(a) + EffectAt(rows', y, a) - EffectAt(rows, y, a)
  <2>1. \A i \in DOMAIN rows \cup DOMAIN rows' : i # y => EffectAt(rows, i, a) = EffectAt(rows', i, a) BY <1>3
  <2>2. EffectAt(rows, y, a) \in Int /\ EffectAt(rows', y, a) \in Int
    <3> DEFINE b == rows
               c == rows'
    <3>1. IsBook(b) /\ IsBook(c) BY <1>2
    <3> HIDE DEF b, c
    <3>2. EffectAt(b, y, a) \in Int /\ EffectAt(c, y, a) \in Int BY <3>1, EffectAtType
    <3> QED BY <3>2 DEF b, c
  <2> QED BY <1>0, <2>1, <2>2, BookChanges
<1>5. PaidOut(settled) \in Int /\ PaidOut(settled') \in Int /\ Owing' = Owing /\ ByHands' = ByHands
      /\ Owing \in Int /\ ByHands \in Int /\ Texts * TextRial \in Int
  <2>1. settled \in [out : BOOLEAN, rial : Int, txn : Names] /\ settled' \in [out : BOOLEAN, rial : Int, txn : Names']
    BY <1>0 DEF GroupShape
  <2>2. PaidOut(settled) \in Int /\ PaidOut(settled') \in Int BY <2>1 DEF PaidOut
  <2>3. Owing' = Owing /\ ByHands' = ByHands BY DEF Owing, ByHands
  <2>4. Owing \in Int /\ ByHands \in Int BY <1>0, OwingType
  <2> QED BY <2>2, <2>3, <2>4 DEF SharedAssumption
<1>6. Balance("group")' = Owing' + PaidOut(settled') 
  <2>1. /\ Balance("group")' = Balance("group") + EffectAt(rows', y, "group") - EffectAt(rows, y, "group")
        /\ Balance("group") \in Int /\ EffectAt(rows, y, "group") \in Int /\ EffectAt(rows', y, "group") \in Int
    BY <1>4
  <2>2. Balance("group")' = Balance("group") + (PaidOut(settled') - PaidOut(settled)) BY <1>5, <2>1
  <2> QED BY <1>1, <1>5, <2>1, <2>2
<1>7. Balance("bank")' + Balance("fund")' = -(Texts * TextRial) - ByHands' - PaidOut(settled')
  <2>1. /\ Balance("bank")' = Balance("bank") + EffectAt(rows', y, "bank") - EffectAt(rows, y, "bank")
        /\ Balance("bank") \in Int /\ EffectAt(rows, y, "bank") \in Int /\ EffectAt(rows', y, "bank") \in Int
        /\ Balance("fund")' = Balance("fund") + EffectAt(rows', y, "fund") - EffectAt(rows, y, "fund")
        /\ Balance("fund") \in Int /\ EffectAt(rows, y, "fund") \in Int /\ EffectAt(rows', y, "fund") \in Int
    BY <1>4
  <2>2. Balance("bank")' = Balance("bank") + (PaidOut(settled) - PaidOut(settled')) BY <1>5, <2>1
  <2>3. Balance("fund")' = Balance("fund") BY <2>1
  <2> QED BY <1>1, <1>5, <2>1, <2>2, <2>3
<1>8. \A f \in DOMAIN expenses :
         /\ On(rows', expenses[f].ids, "group") + LinkEffect(expenses[f], "group") = Owed(expenses[f])
         /\ On(rows', expenses[f].ids, "bank") + LinkEffect(expenses[f], "bank") = -ByHand(expenses[f])
  <2> TAKE f \in DOMAIN expenses
  <2> DEFINE b == rows
             c == rows'
             T == expenses[f].ids
  <2>1. T \subseteq SplitRows /\ T \subseteq ExpenseIds BY <1>0 DEF GroupNamed, ExpenseIds
  <2>2. T \subseteq DOMAIN b /\ T \subseteq DOMAIN c /\ \A i \in T : b[i] = c[i]
    <3>1. \A i \in SplitRows : i \in DOMAIN rows BY DEF SplitRows, RowsOf
    <3> HIDE DEF T
    <3> QED BY <2>1, <3>1
  <2>3. IsBook(b) BY <1>2
  <2> HIDE DEF b, c, T
  <2>4. On(b, T, "group") = On(c, T, "group") /\ On(b, T, "bank") = On(c, T, "bank") BY <2>2, <2>3, OnSame
  <2> QED BY <1>1, <2>4 DEF b, c, T
<1>9. \A i \in 1..Texts : i \in DOMAIN rows' BY <1>1
<1> QED BY <1>6, <1>7, <1>8, <1>9 DEF GroupBooks, On, SettlementRow

LEMMA SettleKeepsBooks ==
  ASSUME SharedAssumption, Shape, Shape', RowsAreNamed, GroupBooks, Settle PROVE GroupBooks'
<1> DEFINE out == NetOf < 0
           rial == IF out THEN -NetOf ELSE NetOf
           row == SettlementRow(settled')
<1>0. RowsShape /\ GroupShape /\ GroupNamed /\ Texts \in Nat BY NamedParts DEF Shape, SharedAssumption
<1>r. RowsShape BY <1>0
<1> SUFFICES ASSUME removed' \cap {"split", "bank"} = {} PROVE GroupBooks' BY DEF GroupBooks
<1>1. rial \in Int /\ out \in BOOLEAN
  <2>1. NetOf \in Int BY <1>0, NetType
  <2> QED BY <2>1
<1>2. /\ settled = Unsettled /\ settled' = [out |-> out, rial |-> rial, txn |-> made + 1]
      /\ UNCHANGED <<expenses, fund, removed>>
  BY DEF Settle
<1>3. settled'.out = out /\ settled'.rial = rial /\ settled'.txn = made + 1 BY <1>2
<1>4. rows' = Pushed(rows, <<row>>) /\ made' = made + 1 BY <1>3 DEF Settle, SettlementRow
<1> HIDE DEF out, rial
<1>5. row \in SplitRow
  <2>1. Transfer(rial, "bank", "group", "split") \in SplitRow /\ Transfer(rial, "group", "bank", "split") \in SplitRow
    BY <1>1, MovesAre
  <2> QED BY <1>3, <2>1 DEF SettlementRow
<1>6. /\ Effect(row, "group") = PaidOut(settled') /\ Effect(row, "bank") = -PaidOut(settled')
      /\ Effect(row, "fund") = 0 /\ PaidOut(settled') \in Int
  BY <1>1, <1>3, SettlementPays
<1> HIDE DEF row
<1>7. /\ DOMAIN rows' = DOMAIN rows \cup {made + 1} /\ rows'[made + 1] = row
      /\ \A i \in DOMAIN rows : rows'[i] = rows[i]
      /\ made + 1 \notin DOMAIN rows /\ made + 1 \in Texts + 1 .. made' /\ made \in Nat
  BY <1>r, <1>4, <1>5, PushOne
<1>8. made + 1 \notin 1..Texts \cup ExpenseIds
  <2>1. made + 1 \notin 1..Texts BY <1>0, <1>7
  <2>2. made + 1 \notin ExpenseIds
    <3>1. ExpenseIds \subseteq DOMAIN rows BY <1>0 DEF GroupNamed, SplitRows, RowsOf
    <3> QED BY <1>7, <3>1
  <2> QED BY <2>1, <2>2
<1>9. PaidOut(settled) = 0 BY <1>2, UnsettledPays
<1>10. \A a : EffectAt(rows, made + 1, a) = 0 /\ EffectAt(rows', made + 1, a) = Effect(row, a)
  BY <1>7 DEF EffectAt
<1>11. /\ EffectAt(rows', made + 1, "group") - EffectAt(rows, made + 1, "group") = PaidOut(settled') - PaidOut(settled)
       /\ EffectAt(rows', made + 1, "bank") - EffectAt(rows, made + 1, "bank") = PaidOut(settled) - PaidOut(settled')
       /\ EffectAt(rows', made + 1, "fund") = EffectAt(rows, made + 1, "fund")
  BY <1>6, <1>9, <1>10
<1>12. \A i \in DOMAIN rows \cup DOMAIN rows' :
         i # made + 1 => i \in DOMAIN rows /\ i \in DOMAIN rows' /\ rows'[i] = rows[i]
  BY <1>7
<1>13. settled'.txn \in DOMAIN rows' /\ rows'[settled'.txn] = SettlementRow(settled') BY <1>3, <1>7 DEF row
<1>14. removed \cap {"split", "bank"} = {} BY <1>2
<1> QED BY <1>2, <1>8, <1>11, <1>12, <1>13, <1>14, SettlementKeepsBooks

LEMMA UndoKeepsBooks ==
  ASSUME SharedAssumption, Shape, Shape', RowsAreNamed, GroupBooks, UndoSettlement PROVE GroupBooks'
<1> DEFINE y == settled.txn
<1>0. RowsShape /\ GroupShape /\ GroupNamed /\ 0 \notin DOMAIN rows BY NamedParts DEF Shape, RowsShape
<1> SUFFICES ASSUME removed' \cap {"split", "bank"} = {} PROVE GroupBooks' BY DEF GroupBooks
<1>1. /\ settled # Unsettled /\ settled' = Unsettled /\ rows' = Drop(rows, {y})
      /\ UNCHANGED <<expenses, fund, removed>>
  BY DEF UndoSettlement
<1>2. y \in DOMAIN rows /\ rows[y] = SettlementRow(settled) BY <1>1 DEF GroupBooks, SettlementRow
<1>3. settled.out \in BOOLEAN /\ settled.rial \in Int BY <1>0 DEF GroupShape
<1>4. /\ Effect(rows[y], "group") = PaidOut(settled) /\ Effect(rows[y], "bank") = -PaidOut(settled)
      /\ Effect(rows[y], "fund") = 0 /\ PaidOut(settled) \in Int
  BY <1>2, <1>3, SettlementPays
<1>5. y \in SplitRows /\ y \notin ExpenseIds BY <1>0, <1>2 DEF GroupNamed
<1>6. y \notin 1..Texts
  <2>1. SUFFICES ASSUME y \in 1..Texts PROVE FALSE OBVIOUS
  <2>2. y <= Texts BY <2>1 DEF SharedAssumption
  <2>3. rows[y] \in BankRow BY <1>0, <1>2, <2>2 DEF RowsShape
  <2> QED BY <1>5, <2>3 DEF SplitRows, RowsOf, BankRow
<1> HIDE DEF y
<1>7. DOMAIN rows' = DOMAIN rows \ {y} /\ \A i \in DOMAIN rows' : rows'[i] = rows[i] BY <1>1 DEF Drop
<1>8. PaidOut(settled') = 0 BY <1>1, UnsettledPays
<1>9. \A a : EffectAt(rows, y, a) = Effect(rows[y], a) /\ EffectAt(rows', y, a) = 0
  BY <1>2, <1>7 DEF EffectAt
<1>10. /\ EffectAt(rows', y, "group") - EffectAt(rows, y, "group") = PaidOut(settled') - PaidOut(settled)
       /\ EffectAt(rows', y, "bank") - EffectAt(rows, y, "bank") = PaidOut(settled) - PaidOut(settled')
       /\ EffectAt(rows', y, "fund") = EffectAt(rows, y, "fund")
  BY <1>4, <1>8, <1>9
<1>11. \A i \in DOMAIN rows \cup DOMAIN rows' :
         i # y => i \in DOMAIN rows /\ i \in DOMAIN rows' /\ rows'[i] = rows[i]
  BY <1>7
<1>12. y \notin 1..Texts \cup ExpenseIds /\ removed \cap {"split", "bank"} = {} BY <1>1, <1>5, <1>6
<1> QED BY <1>1, <1>10, <1>11, <1>12, SettlementKeepsBooks

\* A sum of one amount many times.
LEMMA SumConstant ==
  ASSUME NEW S, IsFiniteSet(S), NEW f, NEW k \in Int, \A x \in S : f[x] = k
  PROVE  SumFunctionOnSet(f, S) = Cardinality(S) * k
<1> DEFINE Bad == {D \in SUBSET S : SumFunctionOnSet(f, D) # Cardinality(D) * k}
<1>1. SUFFICES ASSUME Bad # {} PROVE FALSE OBVIOUS
<1>2. PICK D \in Bad : \A U \in Bad : ~(U \subseteq D /\ U # D)
  <2>1. Bad \in SUBSET (SUBSET S) OBVIOUS
  <2> HIDE DEF Bad
  <2> QED BY <1>1, <2>1, SmallestFamily
<1>3. D # {}
  <2>1. SumFunctionOnSet(f, {}) = 0 BY SumEmpty
  <2>2. Cardinality({}) = 0 BY FS_EmptySet
  <2>3. Cardinality({}) * k = 0 BY <2>2
  <2> QED BY <1>2, <2>1, <2>3
<1>4. PICK x \in D : TRUE BY <1>3
<1>5. SumFunctionOnSet(f, D \ {x}) = Cardinality(D \ {x}) * k BY <1>2, <1>4
<1>6. IsFiniteSet(D) /\ (\A y \in D : f[y] \in Int) /\ f[x] = k BY <1>2, <1>4, FS_Subset
<1>7. SumFunctionOnSet(f, D) = f[x] + SumFunctionOnSet(f, D \ {x}) BY <1>4, <1>6, SumRemove
<1>8. Cardinality(D \ {x}) = Cardinality(D) - 1 /\ Cardinality(D) \in Nat
  BY <1>4, <1>6, FS_RemoveElement, FS_CardinalityType
<1>9. k + (Cardinality(D) - 1) * k = Cardinality(D) * k BY <1>8
<1> QED BY <1>2, <1>5, <1>6, <1>7, <1>8, <1>9

LEMMA CountTo == ASSUME NEW n \in Nat PROVE IsFiniteSet(1..n) /\ Cardinality(1..n) = n
<1>1. IsFiniteSet(1..n) BY FS_Interval
<1>2. CASE 1 > n
  <2>1. 1..n = {} /\ n = 0 BY <1>2
  <2> QED BY <1>1, <2>1, FS_EmptySet
<1>3. CASE ~(1 > n)
  <2>1. Cardinality(1..n) = n - 1 + 1 BY <1>3, FS_Interval
  <2> QED BY <1>1, <2>1
<1> QED BY <1>2, <1>3

LEMMA BooksInit == SharedAssumption /\ Init => GroupBooks
<1> SUFFICES ASSUME SharedAssumption, Init PROVE GroupBooks OBVIOUS
<1>0. Texts \in Nat /\ TextRial \in Nat BY DEF SharedAssumption
<1>1. DOMAIN rows = 1..Texts /\ DOMAIN expenses = {} /\ settled = Unsettled
      /\ \A i \in 1..Texts : rows[i] = Text
  BY DEF Init, Text
<1>2. ASSUME NEW a, NEW k \in Int, Effect(Text, a) = k PROVE Balance(a) = Texts * k
  <2> DEFINE f == [i \in DOMAIN rows |-> Effect(rows[i], a)]
             S == 1..Texts
  <2>1. Balance(a) = SumFunctionOnSet(f, S) BY <1>1 DEF Balance, SumFunction
  <2>2. \A i \in S : f[i] = k BY <1>1, <1>2
  <2>3. IsFiniteSet(S) /\ Cardinality(S) = Texts BY <1>0, CountTo
  <2> HIDE DEF f, S
  <2>4. SumFunctionOnSet(f, S) = Cardinality(S) * k BY <1>2, <2>2, <2>3, SumConstant
  <2> QED BY <2>1, <2>3, <2>4
<1>3. Effect(Text, "group") = 0 /\ Effect(Text, "fund") = 0 /\ Effect(Text, "bank") = -TextRial
  BY <1>0 DEF Effect, Text, Expense
<1>4. Balance("group") = 0 /\ Balance("fund") = 0 /\ Balance("bank") = Texts * (-TextRial)
  <2>1. Balance("group") = Texts * 0 BY <1>2, <1>3
  <2>2. Balance("fund") = Texts * 0 BY <1>2, <1>3
  <2>3. Balance("bank") = Texts * (-TextRial) BY <1>0, <1>2, <1>3
  <2> QED BY <1>0, <2>1, <2>2, <2>3
<1>5. Owing = 0 /\ ByHands = 0 BY <1>1, SumEmpty DEF Owing, ByHands, SumFunction
<1>6. PaidOut(settled) = 0 BY <1>1, UnsettledPays
<1>7. Texts * (-TextRial) = -(Texts * TextRial) /\ Texts * TextRial \in Int BY <1>0
<1> QED BY <1>1, <1>4, <1>5, <1>6, <1>7 DEF GroupBooks

LEMMA PayKeepsBooks ==
  ASSUME SharedAssumption, Shape, Shape', RowsAreNamed, GroupBooks,
         NEW m \in Members, NEW row \in FundRow,
         rows' = Pushed(rows, Move(m, row)), made' = made + Len(Move(m, row)), UNCHANGED <<group, removed>>
  PROVE  GroupBooks'
<1>0. RowsShape /\ RowsShape' /\ GroupNamed BY NamedParts DEF Shape
<1>1. CASE m = "me"
  <2>1. /\ DOMAIN rows' = DOMAIN rows \cup {made + 1} /\ rows'[made + 1] = row
        /\ \A i \in DOMAIN rows : rows'[i] = rows[i]
        /\ made + 1 \notin DOMAIN rows
    BY <1>0, <1>1, MemberMoves
  <2>2. row.of = "fund" BY DEF FundRow
  <2>3. \A i \in DOMAIN rows \cup DOMAIN rows' :
          i # made + 1 => i \in DOMAIN rows /\ i \in DOMAIN rows' /\ rows'[i] = rows[i]
    BY <2>1
  <2>4. (made + 1 \in DOMAIN rows => rows[made + 1].of = "fund")
        /\ (made + 1 \in DOMAIN rows' => rows'[made + 1].of = "fund")
    BY <2>1, <2>2
  <2>5. removed \subseteq removed' OBVIOUS
  <2> QED BY <1>0, <2>3, <2>4, <2>5, FundStepKeepsBooks
<1>2. CASE m # "me"
  <2>1. rows' = rows BY <1>0, <1>2, MemberMoves
  <2>2. 0 \notin DOMAIN rows BY <1>0 DEF RowsShape
  <2>3. \A i \in DOMAIN rows \cup DOMAIN rows' :
          i # 0 => i \in DOMAIN rows /\ i \in DOMAIN rows' /\ rows'[i] = rows[i]
    BY <2>1
  <2>4. (0 \in DOMAIN rows => rows[0].of = "fund") /\ (0 \in DOMAIN rows' => rows'[0].of = "fund")
    BY <2>1, <2>2
  <2>5. removed \subseteq removed' OBVIOUS
  <2> QED BY <1>0, <2>3, <2>4, <2>5, FundStepKeepsBooks
<1> QED BY <1>1, <1>2

\* A row of the fund's, or none, is taken away.
LEMMA FundDropKeepsBooks ==
  ASSUME SharedAssumption, Shape, Shape', RowsAreNamed, GroupBooks, UNCHANGED group, removed \subseteq removed',
         NEW y, y \in DOMAIN rows => rows[y].of = "fund", rows' = Drop(rows, {y})
  PROVE  GroupBooks'
<1>0. RowsShape /\ RowsShape' /\ GroupNamed BY NamedParts DEF Shape
<1>1. DOMAIN rows' = DOMAIN rows \ {y} /\ \A i \in DOMAIN rows' : rows'[i] = rows[i] BY DEF Drop
<1>2. \A i \in DOMAIN rows \cup DOMAIN rows' :
        i # y => i \in DOMAIN rows /\ i \in DOMAIN rows' /\ rows'[i] = rows[i]
  BY <1>1
<1>3. y \in DOMAIN rows' => rows'[y].of = "fund" BY <1>1
<1> QED BY <1>0, <1>2, <1>3, FundStepKeepsBooks

LEMMA GroupBooksStep ==
  SharedAssumption /\ PartsAreNoTotals /\ Shape /\ Shape' /\ RowsAreNamed /\ LinkInv /\ GroupBooks /\ [Next]_vars
    => GroupBooks'
<1> SUFFICES ASSUME SharedAssumption, PartsAreNoTotals, Shape, Shape', RowsAreNamed, LinkInv, GroupBooks,
                    [Next]_vars
             PROVE  GroupBooks'
  OBVIOUS
<1>0. RowsShape /\ GroupNamed /\ PaymentsNamed /\ LoansNamed /\ 0 \notin DOMAIN rows
  BY NamedParts DEF Shape, RowsShape
<1>1. ASSUME NEW e \in Expenses, NEW total \in Totals, NEW part \in Parts, NEW mine \in BOOLEAN,
             NEW link \in {0} \cup DOMAIN rows, AddExpense(e, total, part, mine, link)
      PROVE  GroupBooks'
  BY <1>1, AddKeepsBooks
<1>2. ASSUME NEW e \in Expenses, DeleteExpense(e) PROVE GroupBooks'
  BY <1>2, DeleteKeepsBooks
<1>3. CASE Settle BY <1>3, SettleKeepsBooks
<1>4. CASE UndoSettlement BY <1>4, UndoKeepsBooks
<1>5. ASSUME NEW m \in Members, NEW mk \in 1..Months, NEW l \in {0} \cup Loans, Pay(m, mk, l) PROVE GroupBooks'
  <2>1. \E row \in FundRow : /\ rows' = Pushed(rows, Move(m, row)) /\ made' = made + Len(Move(m, row))
                             /\ UNCHANGED <<group, removed>>
    BY <1>5, PayIs
  <2>2. PICK row \in FundRow : /\ rows' = Pushed(rows, Move(m, row)) /\ made' = made + Len(Move(m, row))
                               /\ UNCHANGED <<group, removed>>
    BY <2>1
  <2> QED BY <2>2, PayKeepsBooks
<1>6. ASSUME NEW m \in Members, NEW mk \in 1..Months, NEW l \in Loans, GiveLoan(l, m, mk) PROVE GroupBooks'
  <2> DEFINE row == Transfer(LoanRial, "fund", "bank", "fund")
  <2>1. row \in FundRow BY MovesAre DEF SharedAssumption
  <2>2. rows' = Pushed(rows, Move(m, row)) /\ made' = made + Len(Move(m, row)) /\ UNCHANGED <<group, removed>>
    BY <1>6 DEF GiveLoan
  <2> HIDE DEF row
  <2> QED BY <2>1, <2>2, PayKeepsBooks
<1>7. ASSUME NEW p \in payments, UndoPayment(p) PROVE GroupBooks'
  <2>1. rows' = Drop(rows, {p.txn}) /\ UNCHANGED group /\ removed \subseteq removed' BY <1>7 DEF UndoPayment
  <2>2. p.txn \in DOMAIN rows => rows[p.txn].of = "fund"
    BY <1>0 DEF PaymentsNamed, PaymentRows, RowsOf
  <2> QED BY <2>1, <2>2, FundDropKeepsBooks
<1>8. ASSUME NEW l \in Loans, UndoLoan(l) PROVE GroupBooks'
  <2>1. l \in DOMAIN loans /\ rows' = Drop(rows, {loans[l].txn}) /\ UNCHANGED group /\ removed \subseteq removed'
    BY <1>8 DEF UndoLoan, MayUndoLoan
  <2>2. loans[l].txn \in DOMAIN rows => rows[loans[l].txn].of = "fund"
    BY <1>0, <2>1 DEF LoansNamed, LoanRows, RowsOf
  <2> QED BY <2>1, <2>2, FundDropKeepsBooks
<1>9. ASSUME NEW i \in DOMAIN rows, DeleteTxn(i) PROVE GroupBooks'
  <2>1. rows' = Drop(rows, {i}) /\ removed' = removed \cup {KindOf(i)} BY <1>9 DEF DeleteTxn
  <2>2. CASE rows[i].of \in {"none", "split"}
    <3>1. KindOf(i) \in {"bank", "split"} BY <2>2 DEF KindOf
    <3>2. removed' \cap {"split", "bank"} # {} BY <2>1, <3>1
    <3> QED BY <3>2 DEF GroupBooks
  <2>3. CASE rows[i].of = "fund"
    <3>1. UNCHANGED group BY <1>9, <2>3 DEF DeleteTxn
    <3> QED BY <2>1, <2>3, <3>1, FundDropKeepsBooks
  <2> QED BY <1>9, <2>2, <2>3 DEF DeleteTxn
<1>10. CASE UNCHANGED vars
  <2>1. UNCHANGED <<rows, group, removed>> BY <1>10 DEF vars
  <2>2. \A i \in DOMAIN rows \cup DOMAIN rows' :
          i # 0 => i \in DOMAIN rows /\ i \in DOMAIN rows' /\ rows'[i] = rows[i]
    BY <2>1
  <2>3. (0 \in DOMAIN rows => rows[0].of = "fund") /\ (0 \in DOMAIN rows' => rows'[0].of = "fund")
        /\ removed \subseteq removed' /\ RowsShape'
    BY <1>0, <2>1 DEF Shape
  <2> QED BY <1>0, <2>1, <2>2, <2>3, FundStepKeepsBooks
<1> QED BY <1>1, <1>2, <1>3, <1>4, <1>5, <1>6, <1>7, <1>8, <1>9, <1>10 DEF Next

GroupInv == FundInv /\ LinkInv /\ GroupBooks

LEMMA GroupAlways == ASSUME PartsAreNoTotals PROVE Spec => []GroupInv
<1>1. Init => GroupInv
  BY ShapeInit, RowsAreNamedInit, FundInit, LinkInit, BooksInit, SharedAssumption DEF GroupInv, FundInv
<1>2. GroupInv /\ [Next]_vars => GroupInv'
  <2> SUFFICES ASSUME GroupInv, [Next]_vars PROVE GroupInv' OBVIOUS
  <2>0. FundInv /\ Shape /\ RowsAreNamed /\ LinkInv /\ GroupBooks BY DEF GroupInv, FundInv
  <2>1. Shape' BY <2>0, ShapeStep, SharedAssumption
  <2>2. RowsShape' BY <2>1 DEF Shape
  <2>3. RowsAreNamed' BY <2>0, RowsAreNamedStep, SharedAssumption
  <2>4. FundLinks' /\ FundIsPosition' BY <2>0, <2>2, FundStep, SharedAssumption
  <2>5. LinkInv' BY <2>0, LinkStep, SharedAssumption, PartsAreNoTotals
  <2>6. GroupBooks' BY <2>0, <2>1, GroupBooksStep, SharedAssumption, PartsAreNoTotals
  <2> QED BY <2>1, <2>3, <2>4, <2>5, <2>6 DEF GroupInv, FundInv
<1> QED BY <1>1, <1>2, PTL DEF Spec

\* While no row of the group or the bank was deleted from the list, the group's account shows the
\* user's net in the group, in every state, if no message that shows the user's part can be taken
\* for the whole of another expense.
THEOREM AccountStaysNet == ASSUME PartsAreNoTotals PROVE Spec => []AccountIsNet
<1>1. GroupInv => AccountIsNet BY DEF GroupInv, GroupBooks, AccountIsNet, NetOf, Owing
<1> QED BY <1>1, GroupAlways, PTL

\* The bank shows what the bank saw, in every state in which no row of the group, the bank or a
\* loan was deleted from the list, under the same condition.
THEOREM BankStaysKept == ASSUME PartsAreNoTotals PROVE Spec => []BankIsKept
<1>1. GroupInv => BankIsKept
  <2> SUFFICES ASSUME GroupInv, removed \cap {"split", "bank", "loan"} = {}
               PROVE  Balance("bank") = - Texts * TextRial - ByHands - PaidOut(settled)
                                        - Paid(Mine(payments)) + Cardinality(MyLoans) * LoanRial
    BY DEF BankIsKept, ByHands
  <2>0. SharedAssumption /\ Shape /\ RowsShape /\ GroupShape /\ FundShape
    BY SharedAssumption DEF GroupInv, FundInv, Shape
  <2>1. Balance("bank") + Balance("fund") = -(Texts * TextRial) - ByHands - PaidOut(settled)
    BY DEF GroupInv, GroupBooks
  <2>2. Balance("fund") = Paid(Mine(payments)) - Cardinality(MyLoans) * LoanRial
    BY DEF GroupInv, FundInv, FundIsPosition
  <2>3. Balance("bank") \in Int /\ Balance("fund") \in Int
    <3> DEFINE b == rows
    <3>1. IsBook(b) BY <2>0, RowsAreABook
    <3>2. Balance("bank") = BalanceIn(b, "bank") /\ Balance("fund") = BalanceIn(b, "fund") BY BalanceIs
    <3> HIDE DEF b
    <3>3. BalanceIn(b, "bank") \in Int /\ BalanceIn(b, "fund") \in Int BY <3>1, BalanceSame
    <3> QED BY <3>2, <3>3
  <2>4. ByHands \in Int /\ PaidOut(settled) \in Int BY <2>0, OwingType DEF GroupShape, PaidOut
  <2>5. Paid(Mine(payments)) \in Int BY <2>0, MineAre, PaidType
  <2>6. Texts * TextRial \in Int /\ - Texts * TextRial = -(Texts * TextRial) BY <2>0 DEF SharedAssumption
  <2>7. Cardinality(MyLoans) * LoanRial \in Int BY <2>0, MineAre DEF SharedAssumption
  <2> QED BY <2>1, <2>2, <2>3, <2>4, <2>5, <2>6, <2>7
<1> QED BY <1>1, GroupAlways, PTL

---------------------------------------------------------------------------
(* Loans and their installments.  Every installment has a number of its own, *)
(* so they are at most those the loan was divided into.                      *)

Base == 10 * (LoanRial \div (10 * Installments))
Number(p) == p.month - loans[p.loan].month

LEMMA QuotientFits == \A a \in Nat, t \in Nat \ {0} : a \div t \in Nat /\ t * (a \div t) <= a
OBVIOUS

LEMMA BaseFits == ASSUME SharedAssumption PROVE Base \in Nat /\ Base * Installments <= LoanRial
<1> DEFINE t == 10 * Installments
           q == LoanRial \div t
<1>1. LoanRial \in Nat /\ Installments \in Nat \ {0} /\ t \in Nat \ {0} BY DEF SharedAssumption
<1> HIDE DEF t
<1>2. q \in Nat /\ t * q <= LoanRial BY <1>1, QuotientFits
<1> HIDE DEF q
<1>3. Base = 10 * q BY DEF Base, q, t
<1>4. (10 * q) * Installments = (10 * Installments) * q BY <1>1, <1>2
<1> QED BY <1>2, <1>3, <1>4 DEF t

LEMMA InstallmentsFit ==
  ASSUME SharedAssumption, NEW S, IsFiniteSet(S), NEW num,
         \A p \in S : num[p] \in 1..Installments /\ p.rial = InstallmentRial(num[p]),
         \A p, q \in S : num[p] = num[q] => p = q
  PROVE  Paid(S) <= LoanRial
<1> DEFINE N == Installments
           f == [p \in S |-> p.rial]
<1>1. N \in Nat \ {0} /\ LoanRial \in Nat /\ Base \in Nat /\ Base * N <= LoanRial
  BY BaseFits DEF SharedAssumption
<1>2. Paid(S) = SumFunctionOnSet(f, S) BY DEF Paid, SumFunction
<1>3. \A p \in S : f[p] = IF num[p] < N THEN Base ELSE LoanRial - Base * (N - 1)
  BY DEF InstallmentRial, Base
<1> HIDE DEF f, N
<1>4. ASSUME NEW T, T \subseteq S, \A p \in T : num[p] < N
      PROVE  IsFiniteSet(T) /\ SumFunctionOnSet(f, T) = Cardinality(T) * Base /\ Cardinality(T) \in 0 .. N - 1
  <2> DEFINE g == [p \in T |-> num[p]]
             U == 1 .. N - 1
  <2>1. IsFiniteSet(T) BY <1>4, FS_Subset
  <2>2. \A p \in T : f[p] = Base BY <1>3, <1>4
  <2>3. SumFunctionOnSet(f, T) = Cardinality(T) * Base BY <1>1, <2>1, <2>2, SumConstant
  <2>4. IsFiniteSet(U) /\ Cardinality(U) = N - 1
    <3>1. N - 1 \in Nat BY <1>1
    <3> DEFINE k == N - 1
    <3> HIDE DEF k
    <3>2. IsFiniteSet(1..k) /\ Cardinality(1..k) = k BY <3>1, CountTo DEF k
    <3> QED BY <3>2 DEF k
  <2>5. g \in Injection(T, U)
    <3>1. \A p \in T : num[p] \in U BY <1>1, <1>4 DEF N
    <3> HIDE DEF U
    <3> QED BY <1>4, <3>1 DEF Injection, IsInjective
  <2> HIDE DEF g, U
  <2>6. Cardinality(T) <= Cardinality(U) BY <2>4, <2>5, FS_Injection
  <2>7. Cardinality(T) \in Nat BY <2>1, FS_CardinalityType
  <2> QED BY <1>1, <2>1, <2>3, <2>4, <2>6, <2>7
<1>5. ASSUME NEW k \in 0 .. N - 1 PROVE k * Base <= Base * (N - 1) /\ k * Base \in Nat
  BY <1>1
<1>6. Base * (N - 1) \in Int /\ Base * (N - 1) <= LoanRial
  <2>1. Base * (N - 1) = Base * N - Base BY <1>1
  <2>2. Base * N \in Int BY <1>1
  <2> QED BY <1>1, <2>1, <2>2
<1>7. CASE \A p \in S : num[p] < N
  <2>1. SumFunctionOnSet(f, S) = Cardinality(S) * Base /\ Cardinality(S) \in 0 .. N - 1 BY <1>4, <1>7
  <2> QED BY <1>1, <1>2, <1>5, <1>6, <2>1
<1>8. CASE \E p \in S : ~(num[p] < N)
  <2>1. PICK last \in S : ~(num[last] < N) BY <1>8
  <2>2. num[last] = N BY <1>1, <2>1 DEF N
  <2> DEFINE T == S \ {last}
  <2>3. \A p \in T : num[p] < N
    <3>1. \A p \in T : num[p] \in 1..N /\ num[p] # N BY <2>2 DEF N
    <3> QED BY <1>1, <3>1
  <2>4. f[last] = LoanRial - Base * (N - 1) BY <1>3, <2>1
  <2>5. \A p \in S : f[p] \in Int BY <1>1, <1>3, <1>6
  <2>6. T \subseteq S OBVIOUS
  <2> HIDE DEF T
  <2>7. SumFunctionOnSet(f, S) = f[last] + SumFunctionOnSet(f, T) BY <2>1, <2>5, SumRemove DEF T
  <2>8. SumFunctionOnSet(f, T) = Cardinality(T) * Base /\ Cardinality(T) \in 0 .. N - 1 BY <1>4, <2>3, <2>6
  <2>9. SumFunctionOnSet(f, T) <= Base * (N - 1) /\ SumFunctionOnSet(f, T) \in Int BY <1>5, <2>8
  <2> QED BY <1>1, <1>2, <1>6, <2>4, <2>7, <2>9
<1> QED BY <1>7, <1>8

LoansHold ==
  /\ 0 \notin DOMAIN loans
  /\ \A p \in payments : p.loan # 0 =>
       /\ p.loan \in DOMAIN loans /\ loans[p.loan].member = p.member
       /\ Number(p) \in 1..Installments /\ p.rial = InstallmentRial(Number(p))
  /\ \A p, q \in payments : p.loan # 0 /\ p.loan = q.loan /\ p.month = q.month => p = q

LEMMA LoansHoldRepaid == ASSUME SharedAssumption, FundShape, LoansHold PROVE RepaidIsOwed
<1> SUFFICES ASSUME NEW l \in DOMAIN loans PROVE Paid({p \in payments : p.loan = l}) <= LoanRial
  BY DEF LoansHold, RepaidIsOwed
<1> DEFINE S == {p \in payments : p.loan = l}
           num == [p \in S |-> Number(p)]
<1>1. IsFiniteSet(S) BY FS_Subset DEF FundShape
<1>2. l # 0 BY DEF LoansHold
<1>4. \A p \in S : num[p] \in 1..Installments /\ p.rial = InstallmentRial(num[p]) BY <1>2 DEF LoansHold
<1>5. \A p, q \in S : num[p] = num[q] => p = q
  <2> TAKE p, q \in S
  <2>1. p.month \in Int /\ q.month \in Int /\ loans[l].month \in Int BY DEF FundShape, PaymentRec, LoanRec, SharedAssumption
  <2>2. num[p] = p.month - loans[l].month /\ num[q] = q.month - loans[l].month BY DEF Number
  <2>3. num[p] = num[q] => p.month = q.month BY <2>1, <2>2
  <2> QED BY <1>2, <2>3 DEF LoansHold
<1> HIDE DEF S, num
<1>6. Paid(S) <= LoanRial BY <1>1, <1>4, <1>5, InstallmentsFit
<1> QED BY <1>6 DEF S

LEMMA LoansHoldInit == SharedAssumption /\ Init => LoansHold
<1> SUFFICES ASSUME Init PROVE LoansHold OBVIOUS
<1>1. payments = {} /\ DOMAIN loans = {} BY DEF Init
<1> QED BY <1>1 DEF LoansHold

\* A step that makes no payment and keeps the loans that have installments.
LEMMA LoansHoldKept ==
  ASSUME LoansHold, payments' \subseteq payments, 0 \notin DOMAIN loans',
         \A p \in payments' : p.loan # 0 =>
           /\ p.loan \in DOMAIN loans' /\ loans'[p.loan].member = loans[p.loan].member
           /\ loans'[p.loan].month = loans[p.loan].month
  PROVE  LoansHold'
BY DEF LoansHold, Number

LEMMA LoansHoldStep == SharedAssumption /\ Shape /\ LoansHold /\ [Next]_vars => LoansHold'
<1> SUFFICES ASSUME SharedAssumption, Shape, LoansHold, [Next]_vars PROVE LoansHold' OBVIOUS
<1>0. RowsShape /\ FundShape /\ 0 \notin DOMAIN loans /\ 0 \notin Loans BY DEF Shape, LoansHold, SharedAssumption
<1>l. \A p \in payments : p.loan # 0 => p.loan \in DOMAIN loans BY DEF LoansHold
<1>u. ASSUME UNCHANGED fund PROVE LoansHold'
  BY <1>u DEF fund, LoansHold, Number
<1>1. ASSUME NEW e \in Expenses, NEW total \in Totals, NEW part \in Parts, NEW mine \in BOOLEAN,
             NEW link \in {0} \cup DOMAIN rows, AddExpense(e, total, part, mine, link)
      PROVE  LoansHold'
  BY <1>1, <1>u DEF AddExpense
<1>2. ASSUME NEW e \in Expenses, DeleteExpense(e) PROVE LoansHold'
  BY <1>2, <1>u DEF DeleteExpense
<1>3. CASE Settle BY <1>3, <1>u DEF Settle
<1>4. CASE UndoSettlement BY <1>4, <1>u DEF UndoSettlement
<1>5. ASSUME NEW m \in Members, NEW mk \in 1..Months, NEW l \in {0} \cup Loans, Pay(m, mk, l) PROVE LoansHold'
  <2>1. \E p : /\ payments' = payments \cup {p} /\ p.member = m /\ p.month = mk /\ p.loan = l
               /\ p.rial = (IF l = 0 THEN ShareRial ELSE InstallmentRial(InstallmentNo(l, mk)))
               /\ UNCHANGED loans
    <3>1. PICK rial \in Int :
            LET row == Transfer(rial, "bank", "fund", "fund")
                p == [member |-> m, month |-> mk, loan |-> l, rial |-> rial, txn |-> TxnId(Move(m, row))]
            IN /\ rial = IF l = 0 THEN ShareRial ELSE InstallmentRial(InstallmentNo(l, mk))
               /\ payments' = payments \cup {p}
               /\ UNCHANGED <<group, loans, removed>>
      BY <1>5, PayIs
    <3> DEFINE row == Transfer(rial, "bank", "fund", "fund")
               p == [member |-> m, month |-> mk, loan |-> l, rial |-> rial, txn |-> TxnId(Move(m, row))]
    <3>2. p.member = m /\ p.month = mk /\ p.loan = l /\ p.rial = rial OBVIOUS
    <3>3. payments' = payments \cup {p} /\ UNCHANGED loans BY <3>1
    <3> HIDE DEF p
    <3> QED BY <3>1, <3>2, <3>3
  <2>2. PICK p : /\ payments' = payments \cup {p} /\ p.member = m /\ p.month = mk /\ p.loan = l
                 /\ p.rial = (IF l = 0 THEN ShareRial ELSE InstallmentRial(InstallmentNo(l, mk)))
                 /\ UNCHANGED loans
    BY <2>1
  <2>3. l = 0 \/ (l \in DOMAIN loans /\ loans[l].member = m /\ InstallmentNo(l, mk) # 0) BY <1>5 DEF Pay
  <2>4. l # 0 => mk - loans[l].month \in 1..Installments /\ InstallmentNo(l, mk) = mk - loans[l].month
    BY <2>3 DEF InstallmentNo
  <2>5. \A q \in payments : q.loan # 0 /\ q.loan = l => q.month # mk
    <3> TAKE q \in payments
    <3>1. PaymentsOf(m, mk, l) = {} BY <1>5 DEF Pay
    <3>2. q.loan # 0 /\ q.loan = l => q.member = m BY <2>3 DEF LoansHold
    <3> QED BY <3>1, <3>2 DEF PaymentsOf
  <2>6. \A q \in payments' : q.loan # 0 =>
          /\ q.loan \in DOMAIN loans' /\ loans'[q.loan].member = q.member
          /\ q.month - loans'[q.loan].month \in 1..Installments
          /\ q.rial = InstallmentRial(q.month - loans'[q.loan].month)
    BY <2>2, <2>3, <2>4 DEF LoansHold, Number
  <2>7. \A q, r \in payments' : q.loan # 0 /\ q.loan = r.loan /\ q.month = r.month => q = r
    BY <2>2, <2>5 DEF LoansHold
  <2> QED BY <1>0, <2>2, <2>6, <2>7 DEF LoansHold, Number
<1>6. ASSUME NEW m \in Members, NEW mk \in 1..Months, NEW l \in Loans, GiveLoan(l, m, mk) PROVE LoansHold'
  <2>1. l \notin DOMAIN loans /\ payments' = payments
        /\ \E x : loans' = Put(loans, l, x)
    BY <1>6 DEF GiveLoan
  <2>2. DOMAIN loans' = DOMAIN loans \cup {l} /\ \A k \in DOMAIN loans : loans'[k] = loans[k]
    BY <2>1 DEF Put
  <2>3. 0 \notin DOMAIN loans' BY <1>0, <2>2
  <2> QED BY <1>l, <2>1, <2>2, <2>3, LoansHoldKept
<1>7. ASSUME NEW p \in payments, UndoPayment(p) PROVE LoansHold'
  <2>1. payments' \subseteq payments /\ loans' = loans BY <1>7 DEF UndoPayment
  <2> QED BY <1>0, <1>l, <2>1, LoansHoldKept
<1>8. ASSUME NEW l \in Loans, UndoLoan(l) PROVE LoansHold'
  <2>1. loans' = Drop(loans, {l}) /\ payments' = payments /\ \A p \in payments : p.loan # l
    BY <1>8 DEF UndoLoan, MayUndoLoan
  <2>2. DOMAIN loans' = DOMAIN loans \ {l} /\ \A k \in DOMAIN loans' : loans'[k] = loans[k] BY <2>1 DEF Drop
  <2> QED BY <1>0, <1>l, <2>1, <2>2, LoansHoldKept
<1>9. ASSUME NEW i \in DOMAIN rows, DeleteTxn(i) PROVE LoansHold'
  <2>1. CASE UNCHANGED fund BY <2>1, <1>u
  <2>2. CASE /\ payments' = ForgetFundTxn(i)
             /\ loans' = [l \in DOMAIN loans |-> [loans[l] EXCEPT !.txn = IF @ = i THEN 0 ELSE @]]
    <3>1. payments' \subseteq payments BY <2>2 DEF ForgetFundTxn
    <3>2. DOMAIN loans' = DOMAIN loans
          /\ \A l \in DOMAIN loans : loans'[l].member = loans[l].member /\ loans'[l].month = loans[l].month
      BY <1>0, <2>2 DEF FundShape, LoanRec
    <3> QED BY <1>0, <1>l, <3>1, <3>2, LoansHoldKept
  <2> QED BY <1>9, <2>1, <2>2 DEF DeleteTxn
<1>10. CASE UNCHANGED vars BY <1>10, <1>u DEF vars
<1> QED BY <1>1, <1>2, <1>3, <1>4, <1>5, <1>6, <1>7, <1>8, <1>9, <1>10 DEF Next

\* In every state an installment belongs to a loan that stands, of the member who paid it, and the
\* installments of a loan are at most its amount.
THEOREM RepaidStaysOwed == Spec => []RepaidIsOwed
<1> DEFINE I == Shape /\ LoansHold
<1>1. Init => I BY ShapeInit, LoansHoldInit, SharedAssumption
<1>2. I /\ [Next]_vars => I' BY ShapeStep, LoansHoldStep, SharedAssumption
<1>3. I => RepaidIsOwed BY LoansHoldRepaid, SharedAssumption DEF Shape
<1> QED BY <1>1, <1>2, <1>3, PTL DEF Spec
=============================================================================
