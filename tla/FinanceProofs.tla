-------------------------- MODULE FinanceProofs ---------------------------
(***************************************************************************)
(* Theorems about two parts of the finance book.  StatedBalance: the       *)
(* balance shown, the month's difference, the statement kept and the       *)
(* answers, for every list of messages, every order of reading them and    *)
(* every number of rows and minutes.  Obligations: what is owed, for every *)
(* number of months, terms, amounts and rows.  The parts share nothing but *)
(* the app's book; what is owed comes last.                                *)
(***************************************************************************)
EXTENDS StatedBalance, Obligations, FiniteSetTheorems, WellFoundedInduction, TLAPS

---------------------------------------------------------------------------
(* Sums over finite sets *)

\* g has the sums of f over the subsets of S, taking one element after the other.
Pick(s) == CHOOSE x \in s : TRUE
Adds(g, f, S) == g = [s \in SUBSET S |-> IF s = {} THEN 0 ELSE f[Pick(s)] + g[s \ {Pick(s)}]]

LEMMA SmallestFamily ==
  ASSUME NEW S, IsFiniteSet(S), NEW F \in SUBSET (SUBSET S), F # {}
  PROVE  \E T \in F : \A U \in F : ~(U \subseteq T /\ U # T)
<1>1. IsWellFoundedOn(StrictSubsetOrdering(S), SUBSET S)
  BY FS_StrictSubsetOrderingWellFounded, FS_FiniteSubsetsOfFinite
<1> DEFINE R == StrictSubsetOrdering(S)
<1>2. \E T \in F : \A U \in F : ~(<<U, T>> \in R)
  <2> HIDE DEF R
  <2> QED BY <1>1, WFMin DEF R
<1> QED BY <1>2 DEF StrictSubsetOrdering

LEMMA AddsAgree ==
  ASSUME NEW f, NEW S, IsFiniteSet(S), NEW A \in SUBSET S, NEW B \in SUBSET S,
         NEW g, NEW h, Adds(g, f, A), Adds(h, f, B), NEW C \in SUBSET (A \cap B)
  PROVE  g[C] = h[C]
<1> DEFINE Bad == {D \in SUBSET (A \cap B) : g[D] # h[D]}
<1>1. SUFFICES ASSUME Bad # {} PROVE FALSE OBVIOUS
<1>2. PICK D \in Bad : \A U \in Bad : ~(U \subseteq D /\ U # D)
  <2>1. Bad \in SUBSET (SUBSET S) OBVIOUS
  <2> HIDE DEF Bad
  <2> QED BY <1>1, <2>1, SmallestFamily
<1>3. D # {} BY <1>2 DEF Adds
<1>4. Pick(D) \in D BY <1>3 DEF Pick
<1>5. g[D \ {Pick(D)}] = h[D \ {Pick(D)}] BY <1>2, <1>4
<1>6. D \in SUBSET A /\ D \in SUBSET B /\ g[D] # h[D] BY <1>2
<1>7. g[D] = f[Pick(D)] + g[D \ {Pick(D)}] BY <1>3, <1>6 DEF Adds
<1>8. h[D] = f[Pick(D)] + h[D \ {Pick(D)}] BY <1>3, <1>6 DEF Adds
<1> QED BY <1>5, <1>6, <1>7, <1>8

LEMMA AddsExists ==
  ASSUME NEW f, NEW S, IsFiniteSet(S) PROVE \E g : Adds(g, f, S)
<1> DEFINE Bad == {D \in SUBSET S : ~ \E g : Adds(g, f, D)}
<1>1. SUFFICES ASSUME Bad # {} PROVE FALSE OBVIOUS
<1>2. PICK T \in Bad : \A U \in Bad : ~(U \subseteq T /\ U # T)
  <2>1. Bad \in SUBSET (SUBSET S) OBVIOUS
  <2> HIDE DEF Bad
  <2> QED BY <1>1, <2>1, SmallestFamily
<1> DEFINE H(U) == CHOOSE g : Adds(g, f, U)
           x == Pick(T)
           v == IF T = {} THEN 0 ELSE f[x] + H(T \ {x})[T \ {x}]
           G == [s \in SUBSET T |-> IF s = T THEN v ELSE H(s)[s]]
<1>3. \A U \in SUBSET T : U # T => Adds(H(U), f, U)
  <2> TAKE U \in SUBSET T
  <2> HAVE U # T
  <2>1. \E g : Adds(g, f, U) BY <1>2
  <2> QED BY <2>1
<1>4. ASSUME NEW s \in SUBSET T PROVE G[s] = IF s = {} THEN 0 ELSE f[Pick(s)] + G[s \ {Pick(s)}]
  <2>1. CASE s = {}
    <3>1. CASE s = T BY <3>1, <2>1
    <3>2. CASE s # T
      <4>1. Adds(H(s), f, s) BY <1>3, <3>2
      <4>2. H(s)[s] = 0 BY <4>1, <2>1 DEF Adds
      <4> QED BY <4>2, <3>2, <2>1
    <3> QED BY <3>1, <3>2
  <2>2. CASE s # {}
    <3> DEFINE y == Pick(s)
    <3>1. y \in s BY <2>2 DEF Pick
    <3>2. s \ {y} \in SUBSET T /\ s \ {y} # T BY <3>1
    <3>3. G[s \ {y}] = H(s \ {y})[s \ {y}] BY <3>2
    <3>4. CASE s = T BY <3>4, <3>3, <2>2
    <3>5. CASE s # T
      <4>1. Adds(H(s), f, s) /\ Adds(H(s \ {y}), f, s \ {y}) BY <1>3, <3>5, <3>2
      <4>2. s \ {y} \in SUBSET (s \cap (s \ {y})) OBVIOUS
      <4>3. H(s)[s \ {y}] = H(s \ {y})[s \ {y}]
        <5>1. s \in SUBSET S /\ s \ {y} \in SUBSET S BY <1>2
        <5> HIDE DEF H, G, y
        <5> QED BY <4>1, <4>2, <5>1, AddsAgree, SMTT(60)
      <4>4. H(s)[s] = f[y] + H(s)[s \ {y}] BY <4>1, <2>2 DEF Adds
      <4>5. G[s] = H(s)[s] BY <3>5
      <4> QED BY <4>3, <4>4, <4>5, <3>3, <2>2
    <3> QED BY <3>4, <3>5
  <2> QED BY <2>1, <2>2
<1>5. Adds(G, f, T)
  <2>1. G = [s \in SUBSET T |-> G[s]] OBVIOUS
  <2> HIDE DEF G
  <2> QED BY <2>1, <1>4 DEF Adds
<1> QED BY <1>5, <1>2

LEMMA SumIs ==
  ASSUME NEW f, NEW S, IsFiniteSet(S), NEW g, Adds(g, f, S)
  PROVE  SumFunctionOnSet(f, S) = g[S]
<1> DEFINE it == CHOOSE i : Adds(i, f, S)
<1>1. Adds(it, f, S) BY AddsExists
<1>2. SumFunctionOnSet(f, S) = it[S]
  BY DEF SumFunctionOnSet, FoldFunctionOnSet, MapThenFoldSet, Adds, Pick
<1>3. it[S] = g[S]
  <2> HIDE DEF it
  <2> QED BY <1>1, AddsAgree
<1> QED BY <1>2, <1>3

LEMMA SumEmpty == ASSUME NEW f PROVE SumFunctionOnSet(f, {}) = 0
<1>1. IsFiniteSet({}) BY FS_EmptySet
<1>2. PICK g : Adds(g, f, {}) BY <1>1, AddsExists
<1>3. g[{}] = 0 BY <1>2 DEF Adds
<1> QED BY <1>1, <1>2, <1>3, SumIs

LEMMA SumUnrolled ==
  ASSUME NEW f, NEW S, IsFiniteSet(S), S # {}
  PROVE  SumFunctionOnSet(f, S) = f[Pick(S)] + SumFunctionOnSet(f, S \ {Pick(S)})
<1>1. PICK g : Adds(g, f, S) BY AddsExists
<1>2. PICK h : Adds(h, f, S \ {Pick(S)}) BY AddsExists, FS_RemoveElement
<1>3. IsFiniteSet(S \ {Pick(S)}) BY FS_RemoveElement
<1>4. g[S \ {Pick(S)}] = h[S \ {Pick(S)}]
  <2> DEFINE T == S \ {Pick(S)}
  <2>1. T \in SUBSET S /\ S \in SUBSET S /\ T \in SUBSET (S \cap T) OBVIOUS
  <2>2. Adds(h, f, T) BY <1>2
  <2> HIDE DEF T
  <2>3. g[T] = h[T] BY <1>1, <2>1, <2>2, AddsAgree
  <2> QED BY <2>3 DEF T
<1>5. g[S] = f[Pick(S)] + g[S \ {Pick(S)}] BY <1>1 DEF Adds
<1> QED BY <1>1, <1>2, <1>3, <1>4, <1>5, SumIs

\* The sum of integers is one.
LEMMA SumType ==
  ASSUME NEW S, IsFiniteSet(S), NEW f, \A x \in S : f[x] \in Int
  PROVE  SumFunctionOnSet(f, S) \in Int
<1> DEFINE Bad == {D \in SUBSET S : SumFunctionOnSet(f, D) \notin Int}
<1>1. SUFFICES ASSUME Bad # {} PROVE FALSE OBVIOUS
<1>2. PICK D \in Bad : \A U \in Bad : ~(U \subseteq D /\ U # D)
  <2>1. Bad \in SUBSET (SUBSET S) OBVIOUS
  <2> HIDE DEF Bad
  <2> QED BY <1>1, <2>1, SmallestFamily
<1>3. D # {}
  <2>1. SUFFICES ASSUME D = {} PROVE FALSE OBVIOUS
  <2>2. SumFunctionOnSet(f, D) = 0 BY <2>1, SumEmpty
  <2> QED BY <1>2, <2>2
<1>4. Pick(D) \in D BY <1>3 DEF Pick
<1>5. SumFunctionOnSet(f, D \ {Pick(D)}) \in Int BY <1>2, <1>4
<1>6. SumFunctionOnSet(f, D) = f[Pick(D)] + SumFunctionOnSet(f, D \ {Pick(D)})
  BY <1>3, SumUnrolled, FS_Subset
<1>7. f[Pick(D)] \in Int BY <1>4
<1> QED BY <1>2, <1>5, <1>6, <1>7

\* Any element may be taken first.
LEMMA SumRemove ==
  ASSUME NEW S, IsFiniteSet(S), NEW f, \A x \in S : f[x] \in Int, NEW x \in S
  PROVE  SumFunctionOnSet(f, S) = f[x] + SumFunctionOnSet(f, S \ {x})
<1> DEFINE Sum(T) == SumFunctionOnSet(f, T)
           Bad == {D \in SUBSET S : \E y \in D : Sum(D) # f[y] + Sum(D \ {y})}
<1>1. SUFFICES ASSUME Bad # {} PROVE FALSE OBVIOUS
<1>2. PICK D \in Bad : \A U \in Bad : ~(U \subseteq D /\ U # D)
  <2>1. Bad \in SUBSET (SUBSET S) OBVIOUS
  <2> HIDE DEF Bad
  <2> QED BY <1>1, <2>1, SmallestFamily
<1>3. PICK y \in D : Sum(D) # f[y] + Sum(D \ {y}) BY <1>2
<1> DEFINE z == Pick(D)
<1>4. z \in D BY <1>3 DEF Pick
<1>5. \A T \in SUBSET S : IsFiniteSet(T) /\ Sum(T) \in Int
  <2> TAKE T \in SUBSET S
  <2>1. IsFiniteSet(T) BY FS_Subset
  <2> QED BY <2>1, SumType
<1>6. Sum(D) = f[z] + Sum(D \ {z}) BY <1>3, <1>5, SumUnrolled
<1>7. y # z BY <1>3, <1>6
<1>a. \A U \in SUBSET D : U # D => \A w \in U : Sum(U) = f[w] + Sum(U \ {w})
  <2> TAKE U \in SUBSET D
  <2> HAVE U # D
  <2>1. U \in SUBSET S /\ U \notin Bad BY <1>2
  <2> QED BY <2>1
<1>b. /\ D \ {z} \in SUBSET D /\ D \ {z} # D /\ y \in D \ {z}
      /\ D \ {y} \in SUBSET D /\ D \ {y} # D /\ z \in D \ {y}
  BY <1>4, <1>7
<1>8. Sum(D \ {z}) = f[y] + Sum((D \ {z}) \ {y})
  <2> HIDE DEF Sum, z
  <2> QED BY <1>a, <1>b
<1>9. Sum(D \ {y}) = f[z] + Sum((D \ {y}) \ {z})
  <2> HIDE DEF Sum, z
  <2> QED BY <1>a, <1>b
<1>10. (D \ {z}) \ {y} = (D \ {y}) \ {z} OBVIOUS
<1>11. f[y] \in Int /\ f[z] \in Int /\ Sum((D \ {y}) \ {z}) \in Int BY <1>4, <1>5
<1>12. Sum(D) # f[y] + Sum(D \ {y}) BY <1>3
<1> HIDE DEF Sum, z, Bad
<1>13. Sum(D) = f[z] + (f[y] + Sum((D \ {y}) \ {z})) BY <1>6, <1>8, <1>10
<1>14. f[z] + (f[y] + Sum((D \ {y}) \ {z})) = f[y] + (f[z] + Sum((D \ {y}) \ {z})) BY <1>11
<1> QED BY <1>12, <1>13, <1>14, <1>9

\* Only the values that are added matter.
LEMMA SumSame ==
  ASSUME NEW S, IsFiniteSet(S), NEW f, NEW g, \A x \in S : f[x] = g[x]
  PROVE  SumFunctionOnSet(f, S) = SumFunctionOnSet(g, S)
<1> DEFINE Bad == {D \in SUBSET S : SumFunctionOnSet(f, D) # SumFunctionOnSet(g, D)}
<1>1. SUFFICES ASSUME Bad # {} PROVE FALSE OBVIOUS
<1>2. PICK D \in Bad : \A U \in Bad : ~(U \subseteq D /\ U # D)
  <2>1. Bad \in SUBSET (SUBSET S) OBVIOUS
  <2> HIDE DEF Bad
  <2> QED BY <1>1, <2>1, SmallestFamily
<1>3. D # {} BY <1>2, SumEmpty
<1>4. Pick(D) \in D BY <1>3 DEF Pick
<1>5. SumFunctionOnSet(f, D \ {Pick(D)}) = SumFunctionOnSet(g, D \ {Pick(D)}) BY <1>2, <1>4
<1>6. IsFiniteSet(D) BY FS_Subset
<1>7. SumFunctionOnSet(f, D) = f[Pick(D)] + SumFunctionOnSet(f, D \ {Pick(D)})
  BY <1>3, <1>6, SumUnrolled
<1>8. SumFunctionOnSet(g, D) = g[Pick(D)] + SumFunctionOnSet(g, D \ {Pick(D)})
  BY <1>3, <1>6, SumUnrolled
<1> QED BY <1>2, <1>4, <1>5, <1>7, <1>8

\* The sum over two sets that have nothing in common.
LEMMA SumDisjoint ==
  ASSUME NEW S, IsFiniteSet(S), NEW T, IsFiniteSet(T), S \cap T = {},
         NEW f, \A x \in S \cup T : f[x] \in Int
  PROVE  SumFunctionOnSet(f, S \cup T) = SumFunctionOnSet(f, S) + SumFunctionOnSet(f, T)
<1> DEFINE Sum(U) == SumFunctionOnSet(f, U)
           Bad == {D \in SUBSET T : Sum(S \cup D) # Sum(S) + Sum(D)}
<1>1. SUFFICES ASSUME Bad # {} PROVE FALSE OBVIOUS
<1>2. PICK D \in Bad : \A U \in Bad : ~(U \subseteq D /\ U # D)
  <2>1. Bad \in SUBSET (SUBSET T) OBVIOUS
  <2> HIDE DEF Bad
  <2> QED BY <1>1, <2>1, SmallestFamily
<1>3. D \in SUBSET T /\ Sum(S \cup D) # Sum(S) + Sum(D) BY <1>2
<1>4. IsFiniteSet(S \cup T) BY FS_Union
<1>5. \A U \in SUBSET (S \cup T) : IsFiniteSet(U) /\ Sum(U) \in Int
  <2> TAKE U \in SUBSET (S \cup T)
  <2>1. IsFiniteSet(U) BY <1>4, FS_Subset
  <2> QED BY <2>1, SumType
<1>6. D # {}
  <2>1. SUFFICES ASSUME D = {} PROVE FALSE OBVIOUS
  <2>2. Sum(D) = 0 BY <2>1, SumEmpty
  <2>3. S \cup D = S BY <2>1
  <2>4. Sum(S \cup D) = Sum(S) BY <2>3
  <2>5. Sum(S) \in Int BY <1>5
  <2>6. Sum(S \cup D) # Sum(S) + Sum(D) BY <1>3
  <2> HIDE DEF Sum
  <2> QED BY <2>2, <2>4, <2>5, <2>6
<1>7. PICK x \in D : TRUE BY <1>6
<1> DEFINE E == D \ {x}
<1>8. E \subseteq D /\ E # D /\ E \in SUBSET T BY <1>3, <1>7
<1>9. Sum(S \cup E) = Sum(S) + Sum(E) BY <1>2, <1>8
<1>10. Sum(D) = f[x] + Sum(E) BY <1>3, <1>5, <1>7, SumRemove
<1>11. Sum(S \cup D) = f[x] + Sum(S \cup E)
  <2>1. (S \cup D) \ {x} = S \cup E BY <1>3, <1>7
  <2>2. IsFiniteSet(S \cup D) /\ x \in S \cup D /\ \A y \in S \cup D : f[y] \in Int BY <1>3, <1>5, <1>7
  <2>3. Sum(S \cup D) = f[x] + Sum((S \cup D) \ {x}) BY <2>2, SumRemove
  <2> QED BY <2>1, <2>3
<1>12. f[x] \in Int /\ Sum(E) \in Int /\ Sum(S) \in Int BY <1>3, <1>5, <1>7, <1>8
<1> HIDE DEF Sum, E
<1> QED BY <1>3, <1>9, <1>10, <1>11, <1>12

LEMMA SumAdded ==
  ASSUME NEW S, IsFiniteSet(S), NEW x, x \notin S, NEW f, \A y \in S \cup {x} : f[y] \in Int
  PROVE  SumFunctionOnSet(f, S \cup {x}) = f[x] + SumFunctionOnSet(f, S)
<1>1. IsFiniteSet(S \cup {x}) BY FS_AddElement
<1>2. SumFunctionOnSet(f, S \cup {x}) = f[x] + SumFunctionOnSet(f, (S \cup {x}) \ {x})
  BY <1>1, SumRemove
<1>3. (S \cup {x}) \ {x} = S OBVIOUS
<1> QED BY <1>2, <1>3

LEMMA SumOfFunction ==
  ASSUME NEW f, NEW S, IsFiniteSet(S), NEW g, DOMAIN g = S, \A x \in S : g[x] = f[x]
  PROVE  SumFunction(g) = SumFunctionOnSet(f, S)
BY SumSame DEF SumFunction

---------------------------------------------------------------------------
(* The rows of the book and the bank's movements, added up. *)

LEMMA RowsType ==
  ASSUME NEW S, IsFiniteSet(S), \A t \in S : t.rial \in Int PROVE Rows(S) \in Int
<1> DEFINE f == [t \in S |-> t.rial]
<1>1. \A t \in S : f[t] \in Int OBVIOUS
<1>2. SumFunctionOnSet(f, S) \in Int
  <2> HIDE DEF f
  <2> QED BY <1>1, SumType
<1> QED BY <1>2 DEF Rows, SumFunction

LEMMA RowsUnion ==
  ASSUME NEW S, IsFiniteSet(S), NEW T, IsFiniteSet(T), S \cap T = {}, \A t \in S \cup T : t.rial \in Int
  PROVE  Rows(S \cup T) = Rows(S) + Rows(T)
<1> DEFINE f == [t \in S \cup T |-> t.rial]
<1>1. \A t \in S \cup T : f[t] \in Int OBVIOUS
<1>2. SumFunctionOnSet(f, S \cup T) = SumFunctionOnSet(f, S) + SumFunctionOnSet(f, T)
  <2> HIDE DEF f
  <2> QED BY <1>1, SumDisjoint
<1> DEFINE g == [t \in S |-> t.rial]
           h == [t \in T |-> t.rial]
<1>3. DOMAIN g = S /\ (\A t \in S : g[t] = f[t]) /\ DOMAIN h = T /\ (\A t \in T : h[t] = f[t]) OBVIOUS
<1>4. SumFunction(g) = SumFunctionOnSet(f, S) /\ SumFunction(h) = SumFunctionOnSet(f, T)
  <2> HIDE DEF f, g, h
  <2> QED BY <1>3, SumOfFunction
<1> QED BY <1>2, <1>4 DEF Rows, SumFunction

LEMMA RowsAdd ==
  ASSUME NEW S, IsFiniteSet(S), NEW r, r \notin S, r.rial \in Int, \A t \in S : t.rial \in Int
  PROVE  Rows(S \cup {r}) = Rows(S) + r.rial
<1>1. IsFiniteSet({r}) BY FS_Singleton
<1>2. Rows(S \cup {r}) = Rows(S) + Rows({r}) BY <1>1, RowsUnion
<1> DEFINE f == [t \in {r} |-> t.rial]
<1>3. DOMAIN f = {r} /\ f[r] = r.rial OBVIOUS
<1>4. SumFunctionOnSet(f, {r}) = f[r]
  <2>1. IsFiniteSet({}) BY FS_EmptySet
  <2>2. f[r] \in Int BY <1>3
  <2> HIDE DEF f
  <2>3. SumFunctionOnSet(f, {} \cup {r}) = f[r] + SumFunctionOnSet(f, {}) BY <2>1, <2>2, SumAdded
  <2>4. {} \cup {r} = {r} OBVIOUS
  <2> QED BY <2>2, <2>3, <2>4, SumEmpty
<1> QED BY <1>2, <1>3, <1>4 DEF Rows, SumFunction

\* what the messages of S move, of any list of them
SumOf(b, S) == SumFunction([i \in S |-> b[i].rial])

LEMMA SumOfType ==
  ASSUME NEW b, NEW S, IsFiniteSet(S), \A i \in S : b[i].rial \in Int PROVE SumOf(b, S) \in Int
<1> DEFINE f == [i \in S |-> b[i].rial]
<1>1. \A i \in S : f[i] \in Int OBVIOUS
<1>2. SumFunctionOnSet(f, S) \in Int
  <2> HIDE DEF f
  <2> QED BY <1>1, SumType
<1> QED BY <1>2 DEF SumOf, SumFunction

LEMMA SumOfUnion ==
  ASSUME NEW b, NEW S, IsFiniteSet(S), NEW T, IsFiniteSet(T), S \cap T = {},
         \A i \in S \cup T : b[i].rial \in Int
  PROVE  SumOf(b, S \cup T) = SumOf(b, S) + SumOf(b, T)
<1> DEFINE f == [i \in S \cup T |-> b[i].rial]
<1>1. \A i \in S \cup T : f[i] \in Int OBVIOUS
<1>2. SumFunctionOnSet(f, S \cup T) = SumFunctionOnSet(f, S) + SumFunctionOnSet(f, T)
  <2> HIDE DEF f
  <2> QED BY <1>1, SumDisjoint
<1> DEFINE g == [i \in S |-> b[i].rial]
           h == [i \in T |-> b[i].rial]
<1>3. DOMAIN g = S /\ (\A i \in S : g[i] = f[i]) /\ DOMAIN h = T /\ (\A i \in T : h[i] = f[i]) OBVIOUS
<1>4. SumFunction(g) = SumFunctionOnSet(f, S) /\ SumFunction(h) = SumFunctionOnSet(f, T)
  <2> HIDE DEF f, g, h
  <2> QED BY <1>3, SumOfFunction
<1> QED BY <1>2, <1>4 DEF SumOf, SumFunction

LEMMA SumOfSame ==
  ASSUME NEW b, NEW c, NEW S, IsFiniteSet(S), \A i \in S : b[i].rial = c[i].rial
  PROVE  SumOf(b, S) = SumOf(c, S)
BY DEF SumOf

LEMMA SumOfNone == ASSUME NEW b PROVE SumOf(b, {}) = 0
BY SumEmpty DEF SumOf, SumFunction

LEMMA SumOfOne ==
  ASSUME NEW b, NEW i, b[i].rial \in Int PROVE SumOf(b, {i}) = b[i].rial
<1> DEFINE f == [j \in {i} |-> b[j].rial]
<1>1. DOMAIN f = {i} /\ f[i] = b[i].rial OBVIOUS
<1>2. SumFunctionOnSet(f, {i}) = f[i]
  <2>1. IsFiniteSet({}) BY FS_EmptySet
  <2>2. f[i] \in Int BY <1>1
  <2> HIDE DEF f
  <2>3. SumFunctionOnSet(f, {} \cup {i}) = f[i] + SumFunctionOnSet(f, {}) BY <2>1, <2>2, SumAdded
  <2>4. {} \cup {i} = {i} OBVIOUS
  <2> QED BY <2>2, <2>3, <2>4, SumEmpty
<1> QED BY <1>1, <1>2 DEF SumOf, SumFunction

---------------------------------------------------------------------------
(* The invariant, of any bank, log and messages read, so that an action is  *)
(* asked only about the part it touches.                                    *)

MessageType == [at : 1..Minutes, got : 0..Minutes, kind : Kinds, rial : Int, holds : Int]
StatementType == [at : 0..Minutes, rial : Int]
BookRows == [at : 1..Minutes, timed : BOOLEAN, added : 0..Minutes, rial : Int, of : Nat]
AccountType == [reported : StatementType, log : Seq(StatementType)]

BankTypeOK(b) == b \in Seq(MessageType) /\ Len(b) <= Len(Messages)
LogFits(lg) == Len(lg) <= LogMax

BalanceTypeOK ==
  /\ now \in 0..Minutes /\ BankTypeOK(bank)
  /\ read \subseteq DOMAIN bank /\ queue \subseteq DOMAIN bank
  /\ linked \in BOOLEAN /\ last \in 0..Len(bank)
  /\ rows \in SUBSET BookRows /\ IsFiniteSet(rows) /\ Cardinality(rows) <= MaxRows
  /\ opening \in Int /\ Account \in AccountType /\ LogFits(log)
  /\ typed \in 0..Minutes

\* what the bank holds after all its messages, and the messages after minute a
HeldOf(b) == IF Len(b) = 0 THEN Opening ELSE b[Len(b)].holds
After(b, a) == {i \in DOMAIN b : a < b[i].at}

\* every minute has one thing in it, and a message is there before the bank moves again
Orderly == Apart /\ ~Overtaken

\* the bank's messages are of the past, and so is their arrival, no earlier than what they tell
InOrder(b, n) ==
  /\ \A i \in DOMAIN b : b[i].at <= n /\ b[i].got <= n /\ (b[i].got = 0 \/ b[i].at <= b[i].got)
  /\ \A i, j \in DOMAIN b : i < j => b[i].at <= b[j].at
  /\ Overtaken \/ \A i \in DOMAIN b : i < Len(b) => b[i].got > 0

\* the statement s is what the bank held at its minute
IsTrue(b, n, s) == s.at \in 1..n /\ s.rial = HeldOf(b) - SumOf(b, After(b, s.at))

AddsUp(b) == HeldOf(b) = Opening + SumOf(b, DOMAIN b)
BankTrue(b, n) ==
  Orderly => \A i \in DOMAIN b : b[i].got > 0 => IsTrue(b, n, [at |-> b[i].got, rial |-> b[i].holds])

\* the messages R have arrived
AllGot(b, R) == \A i \in R : b[i].got > 0

\* the card keeps the newest of the messages R that state a balance
CardKeeps(b, l, R) ==
  /\ l # 0 => l \in R /\ b[l].kind # "plain"
  /\ \A j \in R : b[j].kind # "plain" => l # 0 /\ b[j].got <= b[l].got

\* the moments of the statements the account was given, and the newest of them
ToldOf(b, k, R, ty) == {b[i].got : i \in {j \in R : k /\ b[j].kind # "plain"}} \cup {ty}
AccountKeeps(a, told) ==
  /\ a.reported.at \in told /\ \A t \in told : t <= a.reported.at
  /\ a.reported.at = 0 => a.reported = None
AccountTrue(b, n, a) ==
  Orderly => /\ a.reported # None => IsTrue(b, n, a.reported)
             /\ \A i \in DOMAIN a.log : IsTrue(b, n, a.log[i])

\* what is typed is typed of the past
RowsKept(rs) == \A t \in rs : t.timed \/ t.at <= t.added

BankInv == InOrder(bank, now) /\ AddsUp(bank) /\ BankTrue(bank, now)
AccountInv ==
  /\ CardKeeps(bank, last, read) /\ AllGot(bank, read) /\ typed <= now
  /\ AccountKeeps(Account, ToldOf(bank, linked, read, typed))
  /\ AccountTrue(bank, now, Account)

Inv == BalanceTypeOK /\ BankInv /\ AccountInv /\ RowsKept(rows)

---------------------------------------------------------------------------
(* What the operators of the module are in these terms. *)

LEMMA MovedIs == ASSUME NEW S PROVE Moved(S) = SumOf(bank, S)
BY DEF Moved, SumOf

LEMMA HeldIs == BankTypeOK(bank) => Held = HeldOf(bank)
BY DEF Held, Holds, HeldOf, BankTypeOK

LEMMA ToldIs == Told = ToldOf(bank, linked, read, typed)
BY DEF Told, ToldOf, Stating

LEMMA MessageFields ==
  ASSUME NEW b, BankTypeOK(b), NEW i \in DOMAIN b
  PROVE  /\ i \in 1..Len(b) /\ b[i].at \in 1..Minutes /\ b[i].got \in 0..Minutes
         /\ b[i].kind \in Kinds /\ b[i].rial \in Int /\ b[i].holds \in Int
<1>1. i \in 1..Len(b) /\ b[i] \in MessageType BY DEF BankTypeOK
<1> QED BY <1>1 DEF MessageType

LEMMA BankFinite ==
  ASSUME NEW b, BankTypeOK(b), NEW S \in SUBSET (DOMAIN b)
  PROVE  /\ IsFiniteSet(S) /\ (\A i \in S : b[i].rial \in Int) /\ SumOf(b, S) \in Int
<1>1. DOMAIN b = 1..Len(b) /\ Len(b) \in Nat BY DEF BankTypeOK
<1>2. IsFiniteSet(1..Len(b)) BY <1>1, FS_Interval
<1>3. IsFiniteSet(S) BY <1>1, <1>2, FS_Subset
<1>4. \A i \in S : b[i].rial \in Int BY MessageFields
<1> QED BY <1>3, <1>4, SumOfType

LEMMA HeldType ==
  ASSUME BalanceAssumption, NEW b, BankTypeOK(b) PROVE HeldOf(b) \in Int
<1>1. CASE Len(b) = 0 BY <1>1 DEF HeldOf, BalanceAssumption
<1>2. CASE Len(b) # 0
  <2>1. b[Len(b)] \in MessageType BY <1>2 DEF BankTypeOK
  <2> QED BY <1>2, <2>1 DEF HeldOf, MessageType
<1> QED BY <1>1, <1>2

---------------------------------------------------------------------------
(* The bank moves *)

\* A message more, of a later minute: what was true of an earlier one still is.
LEMMA TrueStays ==
  ASSUME BalanceAssumption, NEW b, BankTypeOK(b), NEW n \in 0..Minutes, NEW t \in 1..Minutes,
         n < t, NEW m \in MessageType, m.at = t, m.holds = HeldOf(b) + m.rial,
         NEW s \in StatementType, IsTrue(b, n, s)
  PROVE  IsTrue(Append(b, m), t, s)
<1> DEFINE L == Len(b)
           c == Append(b, m)
           A == After(b, s.at)
<1>1. L \in Nat /\ DOMAIN b = 1..L /\ Len(c) = L + 1 /\ DOMAIN c = 1..L + 1 /\ c[L + 1] = m
      /\ \A i \in 1..L : c[i] = b[i]
  BY DEF BankTypeOK
<1>2. s.at \in 1..n BY DEF IsTrue
<1>3. After(c, s.at) = A \cup {L + 1} BY <1>1, <1>2 DEF After
<1>4. A \in SUBSET (DOMAIN b) /\ L + 1 \notin A BY <1>1 DEF After
<1>5. IsFiniteSet(A) /\ (\A i \in A : b[i].rial \in Int) /\ SumOf(b, A) \in Int BY <1>4, BankFinite
<1>6. (\A i \in A : c[i].rial = b[i].rial) /\ m.rial \in Int BY <1>1, <1>4 DEF MessageType
<1>7. c[L + 1].rial = m.rial BY <1>1
<1>8. HeldOf(c) = HeldOf(b) + m.rial BY <1>1 DEF HeldOf
<1>9. HeldOf(b) \in Int BY HeldType
<1>10. s.rial = HeldOf(b) - SumOf(b, A) BY DEF IsTrue
<1>11. SumOf(c, A \cup {L + 1}) = SumOf(b, A) + m.rial
  <2> HIDE DEF A, c, L
  <2>1. SumOf(c, A) = SumOf(b, A) BY <1>5, <1>6, SumOfSame
  <2>2. SumOf(c, {L + 1}) = m.rial BY <1>6, <1>7, SumOfOne
  <2>3. IsFiniteSet({L + 1}) /\ A \cap {L + 1} = {} BY <1>4, FS_Singleton
  <2>4. \A i \in A \cup {L + 1} : c[i].rial \in Int BY <1>5, <1>6, <1>7
  <2>5. SumOf(c, A \cup {L + 1}) = SumOf(c, A) + SumOf(c, {L + 1}) BY <1>5, <2>3, <2>4, SumOfUnion
  <2> QED BY <2>1, <2>2, <2>5
<1>12. s.at \in 1..t BY <1>2
<1> HIDE DEF A, c, L
<1>13. s.rial = HeldOf(c) - SumOf(c, After(c, s.at))
  BY <1>3, <1>5, <1>6, <1>8, <1>9, <1>10, <1>11
<1> QED BY <1>12, <1>13 DEF IsTrue, c

\* A statement of what the bank holds now is true.
LEMMA TrueNow ==
  ASSUME BalanceAssumption, NEW b, BankTypeOK(b), NEW t \in 1..Minutes,
         \A i \in DOMAIN b : b[i].at <= t, NEW r, r = HeldOf(b)
  PROVE  IsTrue(b, t, [at |-> t, rial |-> r])
<1>1. After(b, t) = {}
  <2>1. \A i \in DOMAIN b : b[i].at \in 1..Minutes BY MessageFields
  <2> QED BY <2>1 DEF After
<1>2. HeldOf(b) \in Int BY HeldType
<1>3. SumOf(b, After(b, t)) = 0 BY <1>1, SumOfNone
<1> QED BY <1>2, <1>3 DEF IsTrue

LEMMA MoveStep ==
  ASSUME BalanceAssumption, NEW b, BankTypeOK(b), NEW n \in 0..Minutes, NEW t \in 1..Minutes,
         n <= t, Orderly => n < t, InOrder(b, n), AddsUp(b), BankTrue(b, n),
         Overtaken \/ AllGot(b, DOMAIN b),
         NEW m \in MessageType, m.at = t, m.got \in {0, t}, m.holds = HeldOf(b) + m.rial
  PROVE  InOrder(Append(b, m), t) /\ AddsUp(Append(b, m)) /\ BankTrue(Append(b, m), t)
<1> DEFINE L == Len(b)
           c == Append(b, m)
<1>1. L \in Nat /\ DOMAIN b = 1..L /\ Len(c) = L + 1 /\ DOMAIN c = 1..L + 1 /\ c[L + 1] = m
      /\ \A i \in 1..L : c[i] = b[i]
  BY DEF BankTypeOK
<1>2. InOrder(c, t)
  <2>1. \A i \in 1..L : /\ c[i].at <= n /\ c[i].at \in 1..Minutes /\ c[i].got <= n /\ c[i].got \in 0..Minutes
                       /\ (c[i].got = 0 \/ c[i].at <= c[i].got)
    <3>1. \A i \in DOMAIN b : b[i].at \in 1..Minutes /\ b[i].got \in 0..Minutes BY MessageFields
    <3> QED BY <1>1, <3>1 DEF InOrder
  <2>2. \A i \in 1..L : c[i].at <= t /\ c[i].got <= t BY <2>1
  <2>3. c[L + 1].at = t /\ c[L + 1].got \in {0, t} BY <1>1
  <2>4. \A i \in 1..L + 1 : i \in 1..L \/ i = L + 1 BY <1>1
  <2>5. \A i \in 1..L + 1 : c[i].at <= t /\ c[i].got <= t /\ (c[i].got = 0 \/ c[i].at <= c[i].got)
    <3> HIDE DEF c, L
    <3> QED BY <2>1, <2>2, <2>3, <2>4
  <2>6. ASSUME ~Overtaken, NEW i \in 1..L + 1, i < L + 1 PROVE c[i].got > 0
    <3>1. i \in 1..L BY <2>6, <1>1
    <3>2. b[i].got > 0 BY <3>1, <2>6, <1>1 DEF AllGot
    <3> QED BY <3>1, <3>2, <1>1
  <2>7. ASSUME NEW i \in 1..L + 1, NEW j \in 1..L + 1, i < j PROVE c[i].at <= c[j].at
    <3>1. i \in 1..L BY <2>7, <1>1
    <3>2. CASE j \in 1..L BY <3>1, <3>2, <2>7, <1>1 DEF InOrder
    <3>3. CASE j = L + 1 BY <3>1, <3>3, <2>2, <2>3
    <3> QED BY <3>2, <3>3, <2>4
  <2> HIDE DEF c, L
  <2> QED BY <1>1, <2>5, <2>6, <2>7 DEF InOrder
<1>3. AddsUp(c)
  <2>1. DOMAIN c = DOMAIN b \cup {L + 1} /\ L + 1 \notin DOMAIN b BY <1>1
  <2>2. IsFiniteSet(DOMAIN b) /\ (\A i \in DOMAIN b : b[i].rial \in Int) /\ SumOf(b, DOMAIN b) \in Int
    BY BankFinite
  <2>3. (\A i \in DOMAIN b : c[i].rial = b[i].rial) /\ c[L + 1].rial = m.rial /\ m.rial \in Int
    BY <1>1 DEF MessageType
  <2>4. HeldOf(c) = HeldOf(b) + m.rial BY <1>1 DEF HeldOf
  <2>5. HeldOf(b) \in Int /\ Opening \in Int BY HeldType DEF BalanceAssumption
  <2> DEFINE S == DOMAIN b
  <2> HIDE DEF S, c, L
  <2>6. SumOf(c, S) = SumOf(b, S) BY <2>2, <2>3, SumOfSame DEF S
  <2>7. SumOf(c, {L + 1}) = m.rial BY <2>3, SumOfOne
  <2>8. IsFiniteSet({L + 1}) /\ S \cap {L + 1} = {} /\ \A i \in S \cup {L + 1} : c[i].rial \in Int
    <3>1. IsFiniteSet({L + 1}) BY FS_Singleton
    <3>2. S \cap {L + 1} = {} BY <2>1 DEF S
    <3> QED BY <3>1, <3>2, <2>2, <2>3 DEF S
  <2>9. SumOf(c, S \cup {L + 1}) = SumOf(c, S) + SumOf(c, {L + 1}) BY <2>2, <2>8, SumOfUnion DEF S
  <2>10. HeldOf(b) = Opening + SumOf(b, S) BY DEF AddsUp, S
  <2>11. HeldOf(c) = Opening + SumOf(c, S \cup {L + 1})
    BY <2>2, <2>3, <2>4, <2>5, <2>6, <2>7, <2>9, <2>10 DEF S
  <2> QED BY <2>1, <2>11 DEF AddsUp, S
<1>4. BankTrue(c, t)
  <2> SUFFICES ASSUME Orderly, NEW i \in DOMAIN c, c[i].got > 0
               PROVE  IsTrue(c, t, [at |-> c[i].got, rial |-> c[i].holds])
    BY DEF BankTrue
  <2>1. CASE i \in 1..L
    <3> DEFINE s == [at |-> b[i].got, rial |-> b[i].holds]
    <3>1. IsTrue(b, n, s) BY <1>1, <2>1 DEF BankTrue
    <3>2. s \in StatementType 
      <4>1. b[i].got \in 0..Minutes /\ b[i].holds \in Int BY <1>1, <2>1, MessageFields
      <4> QED BY <4>1 DEF StatementType
    <3>3. c[i] = b[i] BY <1>1, <2>1
    <3> HIDE DEF s
    <3>4. IsTrue(c, t, s) BY <3>1, <3>2, TrueStays
    <3> QED BY <3>3, <3>4 DEF s
  <2>2. CASE i = L + 1
    <3>1. c[i].got = t /\ c[i].holds = HeldOf(c) BY <1>1, <2>2 DEF HeldOf
    <3>2. \A j \in DOMAIN c : c[j].at <= t BY <1>2 DEF InOrder
    <3>3. After(c, t) = {}
      <4>1. \A j \in DOMAIN c : c[j].at \in 1..Minutes
        <5>1. \A j \in DOMAIN c : j \in 1..L \/ j = L + 1 BY <1>1
        <5>2. \A j \in 1..L : b[j].at \in 1..Minutes BY <1>1, MessageFields
        <5> QED BY <1>1, <5>1, <5>2
      <4> QED BY <4>1, <3>2 DEF After
    <3>4. SumOf(c, After(c, t)) = 0 BY <3>3, SumOfNone
    <3>5. HeldOf(c) \in Int
      <4>1. HeldOf(c) = HeldOf(b) + m.rial BY <1>1 DEF HeldOf
      <4> QED BY <4>1, HeldType DEF MessageType
    <3> HIDE DEF c
    <3> QED BY <3>1, <3>4, <3>5 DEF IsTrue
  <2> QED BY <1>1, <2>1, <2>2
<1> QED BY <1>2, <1>3, <1>4

LEMMA OfTuple == ASSUME NEW T, NEW n \in Nat, NEW s \in [1..n -> T] PROVE s \in Seq(T)
OBVIOUS

\* message i of b has arrived at minute t, and nothing else is new
GotIs(b, i, t, c) == c = [b EXCEPT ![i].got = t]

\* the bank after it: as well typed, ordered and true, and what was true stays so
Received(b, n, i, t, c) ==
  /\ BankTypeOK(c) /\ Len(c) = Len(b) /\ DOMAIN c = DOMAIN b
  /\ \A j \in DOMAIN b \ {i} : c[j] = b[j]
  /\ InOrder(c, t) /\ AddsUp(c) /\ BankTrue(c, t)
  /\ \A s : IsTrue(b, n, s) => IsTrue(c, t, s)

\* A message arrives: the bank holds what it held, and the message tells it.
LEMMA ReceiveStep ==
  ASSUME BalanceAssumption, NEW b, BankTypeOK(b), NEW n \in 0..Minutes, NEW t \in 1..Minutes,
         n <= t, InOrder(b, n), AddsUp(b), BankTrue(b, n),
         NEW i \in DOMAIN b, b[i].got = 0, NEW c, GotIs(b, i, t, c)
  PROVE  Received(b, n, i, t, c)
<1>1. /\ Len(c) = Len(b) /\ DOMAIN c = DOMAIN b /\ Len(b) \in Nat /\ DOMAIN b = 1..Len(b)
      /\ \A j \in DOMAIN b \ {i} : c[j] = b[j]
  BY DEF BankTypeOK, GotIs
<1>2. c[i] = [b[i] EXCEPT !.got = t] /\ b[i] \in MessageType BY <1>1 DEF BankTypeOK, GotIs
<1>3. /\ c[i] \in MessageType /\ c[i].got = t /\ c[i].at = b[i].at /\ c[i].rial = b[i].rial
      /\ c[i].holds = b[i].holds
  BY <1>2 DEF MessageType
<1>4. \A j \in DOMAIN b : c[j].at = b[j].at /\ c[j].rial = b[j].rial /\ c[j].holds = b[j].holds
  BY <1>1, <1>3
<1>5. BankTypeOK(c)
  <2>1. \A j \in DOMAIN b : c[j] \in MessageType
    <3>1. \A j \in DOMAIN b : b[j] \in MessageType BY DEF BankTypeOK
    <3> QED BY <1>1, <1>3, <3>1
  <2>2. c \in [1..Len(b) -> MessageType]
    <3>1. c \in [DOMAIN b -> MessageType]
      <4>1. c = [j \in DOMAIN b |-> c[j]] BY DEF GotIs
      <4> QED BY <2>1, <4>1, Zenon
    <3> QED BY <1>1, <3>1
  <2>3. c \in Seq(MessageType) BY <1>1, <2>2, OfTuple
  <2> QED BY <1>1, <2>3 DEF BankTypeOK
<1>6. HeldOf(c) = HeldOf(b)
  <2>1. CASE Len(b) = 0 BY <1>1, <2>1 DEF HeldOf
  <2>2. CASE Len(b) # 0
    <3>1. Len(b) \in DOMAIN b BY <1>1, <2>2
    <3> QED BY <1>1, <1>4, <2>2, <3>1 DEF HeldOf
  <2> QED BY <2>1, <2>2
<1>7. \A a : After(c, a) = After(b, a) BY <1>1, <1>4 DEF After
<1>8. ASSUME NEW S \in SUBSET (DOMAIN b) PROVE SumOf(c, S) = SumOf(b, S)
  <2>1. IsFiniteSet(S) BY BankFinite
  <2>2. \A j \in S : c[j].rial = b[j].rial BY <1>4
  <2> QED BY ONLY <2>1, <2>2, SumOfSame
<1>9. AddsUp(c)
  <2>1. SumOf(c, DOMAIN b) = SumOf(b, DOMAIN b) BY <1>8
  <2> QED BY <1>1, <1>6, <2>1 DEF AddsUp
<1>10. ASSUME NEW s, IsTrue(b, n, s) PROVE IsTrue(c, t, s)
  <2>1. After(b, s.at) \in SUBSET (DOMAIN b) BY DEF After
  <2>2. SumOf(c, After(c, s.at)) = SumOf(b, After(b, s.at)) BY <1>7, <1>8, <2>1
  <2>3. s.at \in 1..t BY <1>10 DEF IsTrue
  <2> QED BY <1>6, <1>10, <2>2, <2>3 DEF IsTrue
<1>11. InOrder(c, t)
  <2>1. \A j \in DOMAIN b : b[j].at \in 1..Minutes /\ b[j].got \in 0..Minutes BY MessageFields
  <2>2. \A j \in DOMAIN c : c[j].at <= t /\ c[j].got <= t /\ (c[j].got = 0 \/ c[j].at <= c[j].got)
    <3> TAKE j \in DOMAIN c
    <3>1. j \in DOMAIN b /\ b[j].at <= n /\ b[j].got <= n /\ (b[j].got = 0 \/ b[j].at <= b[j].got)
      BY <1>1 DEF InOrder
    <3>2. b[j].at <= t /\ b[j].got <= t BY <2>1, <3>1
    <3>3. CASE j = i BY <1>3, <3>1, <3>2, <3>3
    <3>4. CASE j # i
      <4>1. c[j] = b[j] BY <1>1, <3>1, <3>4
      <4> QED BY <3>1, <3>2, <4>1
    <3> QED BY <3>3, <3>4
  <2>3. ASSUME ~Overtaken, NEW j \in DOMAIN c, j < Len(c) PROVE c[j].got > 0
    <3>1. j \in DOMAIN b /\ b[j].got > 0 BY <1>1, <2>3 DEF InOrder
    <3>2. j # i BY <3>1
    <3> QED BY <1>1, <3>1, <3>2
  <2>4. \A j, k \in DOMAIN c : j < k => c[j].at <= c[k].at BY <1>1, <1>4 DEF InOrder
  <2> QED BY <2>2, <2>3, <2>4 DEF InOrder
<1>12. BankTrue(c, t)
  <2> SUFFICES ASSUME Orderly, NEW j \in DOMAIN c, c[j].got > 0
               PROVE  IsTrue(c, t, [at |-> c[j].got, rial |-> c[j].holds])
    BY DEF BankTrue
  <2>1. CASE j # i
    <3>1. j \in DOMAIN b /\ c[j] = b[j] BY <1>1, <2>1
    <3>2. IsTrue(b, n, [at |-> b[j].got, rial |-> b[j].holds]) BY <3>1 DEF BankTrue
    <3>3. IsTrue(c, t, [at |-> b[j].got, rial |-> b[j].holds]) BY <1>10, <3>2
    <3> QED BY <3>1, <3>3
  <2>2. CASE j = i
    <3>1. i = Len(b)
      <4>1. ~(i < Len(b)) BY DEF InOrder, Orderly
      <4> QED BY <1>1, <4>1
    <3>2. c[i].holds = HeldOf(c) BY <1>1, <3>1 DEF HeldOf
    <3>3. \A k \in DOMAIN c : c[k].at <= t BY <1>11 DEF InOrder
    <3>4. IsTrue(c, t, [at |-> t, rial |-> c[i].holds]) BY <1>5, <3>2, <3>3, TrueNow
    <3> QED BY <1>3, <2>2, <3>4
  <2> QED BY <2>1, <2>2
<1> QED BY <1>1, <1>5, <1>9, <1>10, <1>11, <1>12 DEF Received

---------------------------------------------------------------------------
(* The account is given a statement *)

LEMMA PartOf ==
  ASSUME NEW S, NEW s \in Seq(S), NEW m \in 1..Len(s) + 1, NEW n \in m - 1..Len(s)
  PROVE  /\ SubSeq(s, m, n) \in Seq(S) /\ Len(SubSeq(s, m, n)) = n - m + 1
         /\ \A i \in 1..n - m + 1 : SubSeq(s, m, n)[i] = s[m + i - 1]
<1>1. \A i \in m..n : s[i] \in S OBVIOUS
<1> QED BY <1>1

\* The log gets no statement but the new one, and never grows too long.
LEMMA LoggedIs ==
  ASSUME BalanceAssumption, NEW lg \in Seq(StatementType), LogFits(lg), NEW r \in StatementType
  PROVE  /\ Logged(lg, r) \in Seq(StatementType) /\ LogFits(Logged(lg, r))
         /\ \A i \in DOMAIN Logged(lg, r) :
              Logged(lg, r)[i] = r \/ \E j \in DOMAIN lg : Logged(lg, r)[i] = lg[j]
<1> DEFINE before == {i \in DOMAIN lg : lg[i].at <= r.at}
           k == Cardinality(before)
           L == Len(lg)
           all == InsertAt(lg, k + 1, r)
<1>0. L \in Nat /\ DOMAIN lg = 1..L /\ LogMax \in Nat \ {0} BY DEF BalanceAssumption
<1>1. k \in 0..L
  <2>1. IsFiniteSet(1..L) /\ Cardinality(1..L) = L
    <3> HIDE DEF L
    <3> QED BY <1>0, FS_Interval
  <2>2. before \subseteq 1..L BY <1>0
  <2> HIDE DEF before, L
  <2>3. IsFiniteSet(before) /\ Cardinality(before) <= L BY <2>1, <2>2, FS_Subset
  <2>4. Cardinality(before) \in Nat BY <2>3, FS_CardinalityType
  <2> QED BY <1>0, <2>3, <2>4 DEF k
<1> HIDE DEF k, before
<1>2. /\ SubSeq(lg, 1, k) \in Seq(StatementType) /\ Len(SubSeq(lg, 1, k)) = k
      /\ \A i \in 1..k : SubSeq(lg, 1, k)[i] = lg[i]
  <2>1. 1 \in 1..L + 1 /\ k \in 1 - 1..L BY <1>0, <1>1
  <2> QED BY <2>1, <1>0, <1>1, PartOf
<1>3. /\ SubSeq(lg, k + 1, L) \in Seq(StatementType) /\ Len(SubSeq(lg, k + 1, L)) = L - k
      /\ \A i \in 1..L - k : SubSeq(lg, k + 1, L)[i] = lg[k + i]
  <2> DEFINE j == k + 1
  <2>1. j \in 1..Len(lg) + 1 /\ L \in j - 1..Len(lg) /\ L - j + 1 = L - k BY <1>0, <1>1
  <2>2. \A i \in 1..L - k : j + i - 1 = k + i BY <1>1
  <2> HIDE DEF j
  <2>3. /\ SubSeq(lg, j, L) \in Seq(StatementType) /\ Len(SubSeq(lg, j, L)) = L - j + 1
        /\ \A i \in 1..L - j + 1 : SubSeq(lg, j, L)[i] = lg[j + i - 1]
    BY <2>1, PartOf
  <2>4. \A i \in 1..L - k : SubSeq(lg, j, L)[i] = lg[k + i] BY <2>1, <2>2, <2>3
  <2> QED BY <2>1, <2>3, <2>4 DEF j
<1> DEFINE p == SubSeq(lg, 1, k)
           q == SubSeq(lg, k + 1, L)
<1>4. all = p \o <<r>> \o q
  <2>1. (k + 1) - 1 = k BY <1>1
  <2> QED BY <2>1 DEF InsertAt
<1>5. /\ all \in Seq(StatementType) /\ Len(all) = L + 1
      /\ \A i \in 1..L + 1 : all[i] = r \/ \E j \in 1..L : all[i] = lg[j]
  <2> HIDE DEF all
  <2>1. p \in Seq(StatementType) /\ q \in Seq(StatementType) /\ <<r>> \in Seq(StatementType) BY <1>2, <1>3
  <2>2. Len(p) = k /\ Len(q) = L - k BY <1>2, <1>3
  <2>3. \A i \in 1..k : p[i] = lg[i] BY <1>2
  <2>4. \A i \in 1..L - k : q[i] = lg[k + i] BY <1>3
  <2> HIDE DEF p, q
  <2> DEFINE h == p \o <<r>>
  <2>5. h \in Seq(StatementType) /\ Len(h) = k + 1 /\ h[k + 1] = r /\ \A i \in 1..k : h[i] = p[i]
    BY <2>1, <2>2, <1>0, <1>1
  <2> HIDE DEF h
  <2>6. all = h \o q BY <1>4 DEF h
  <2>7. all \in Seq(StatementType) /\ Len(all) = L + 1 BY <2>1, <2>2, <2>5, <2>6, <1>0, <1>1
  <2>8. \A i \in 1..k + 1 : all[i] = h[i] BY <2>1, <2>2, <2>5, <2>6, <1>0, <1>1
  <2>9. \A i \in k + 2..L + 1 : all[i] = q[i - (k + 1)]
    BY <2>1, <2>2, <2>5, <2>6, <1>0, <1>1, SMTT(60)
  <2>10. ASSUME NEW i \in 1..L + 1 PROVE all[i] = r \/ \E j \in 1..L : all[i] = lg[j]
    <3>1. CASE i \in 1..k
      <4>1. all[i] = lg[i] /\ i \in 1..L BY <3>1, <2>3, <2>5, <2>8, <1>0, <1>1
      <4> QED BY <4>1
    <3>2. CASE i = k + 1 BY <3>2, <2>5, <2>8, <1>0, <1>1
    <3>3. CASE i \in k + 2..L + 1
      <4>1. i - (k + 1) \in 1..L - k /\ k + (i - (k + 1)) = i - 1 /\ i - 1 \in 1..L BY <3>3, <1>0, <1>1
      <4>2. all[i] = lg[i - 1] BY <4>1, <3>3, <2>4, <2>9
      <4> QED BY <4>1, <4>2
    <3> QED BY <3>1, <3>2, <3>3, <1>0, <1>1
  <2> QED BY <2>7, <2>10
<1> HIDE DEF all, p, q
<1> DEFINE kept == IF Len(all) > LogMax THEN SubSeq(all, Len(all) - LogMax + 1, Len(all)) ELSE all
<1>6. /\ kept \in Seq(StatementType) /\ Len(kept) <= LogMax
      /\ \A i \in DOMAIN kept : \E j \in 1..L + 1 : kept[i] = all[j]
  <2>1. CASE Len(all) > LogMax
    <3> DEFINE d == Len(all) - LogMax
    <3>1. d \in Nat /\ d + LogMax = L + 1 BY <2>1, <1>0, <1>5
    <3>2. kept = SubSeq(all, d + 1, L + 1) BY <2>1, <1>5
    <3> HIDE DEF d, kept
    <3>3. /\ kept \in Seq(StatementType) /\ Len(kept) = LogMax
          /\ \A i \in 1..LogMax : kept[i] = all[d + i]
      BY <3>1, <3>2, <1>0, <1>5
    <3>4. \A i \in 1..LogMax : d + i \in 1..L + 1 BY <3>1, <1>0
    <3> QED BY <3>3, <3>4
  <2>2. CASE ~(Len(all) > LogMax) BY <2>2, <1>0, <1>5
  <2> QED BY <2>1, <2>2
<1>7. CASE \E i \in DOMAIN lg : lg[i] = r
  <2>1. Logged(lg, r) = lg BY <1>7 DEF Logged
  <2> QED BY <2>1
<1>8. CASE ~ \E i \in DOMAIN lg : lg[i] = r
  <2>1. Logged(lg, r) = kept BY <1>8 DEF Logged, all, k, before
  <2> HIDE DEF kept
  <2>2. \A i \in DOMAIN kept : kept[i] = r \/ \E j \in DOMAIN lg : kept[i] = lg[j] BY <1>0, <1>5, <1>6
  <2> QED BY <2>1, <2>2, <1>6 DEF LogFits
<1> QED BY <1>7, <1>8

\* The account given a statement keeps the newest, and only true ones if it is.
LEMMA AddStep ==
  ASSUME BalanceAssumption, NEW a \in AccountType, LogFits(a.log), NEW r \in StatementType, r.at # 0,
         NEW told \in SUBSET Nat, AccountKeeps(a, told),
         NEW b, NEW n, AccountTrue(b, n, a), Orderly => IsTrue(b, n, r)
  PROVE  /\ AddReported(a, r) \in AccountType /\ LogFits(AddReported(a, r).log)
         /\ AccountKeeps(AddReported(a, r), told \cup {r.at})
         /\ AccountTrue(b, n, AddReported(a, r))
<1> DEFINE g == Logged(a.log, r)
           w == Newer(a.reported, r)
           c == AddReported(a, r)
<1>1. a.reported \in StatementType /\ a.log \in Seq(StatementType) BY DEF AccountType
<1>2. /\ g \in Seq(StatementType) /\ LogFits(g)
      /\ \A i \in DOMAIN g : g[i] = r \/ \E j \in DOMAIN a.log : g[i] = a.log[j]
  BY <1>1, LoggedIs
<1>3. w = r \/ w = a.reported BY DEF Newer
<1>4. c = [reported |-> w, log |-> g] BY DEF AddReported
<1>5. c \in AccountType /\ c.reported = w /\ c.log = g
  <2> HIDE DEF w, g, c
  <2> QED BY <1>1, <1>2, <1>3, <1>4 DEF AccountType
<1>6. r.at \in Nat /\ a.reported.at \in Nat BY <1>1 DEF StatementType
<1>7. /\ w.at \in told \cup {r.at} /\ \A t \in told \cup {r.at} : t <= w.at
      /\ w.at = 0 => w = None
  <2>1. /\ a.reported.at \in told /\ \A t \in told : t <= a.reported.at
        /\ a.reported.at = 0 => a.reported = None
    BY DEF AccountKeeps
  <2>2. CASE a.reported.at <= r.at
    <3>1. w = r BY <2>2 DEF Newer
    <3>2. \A t \in told : t <= r.at
      <4> TAKE t \in told
      <4>1. t \in Nat /\ t <= a.reported.at BY <2>1
      <4> QED BY <4>1, <2>2, <1>6
    <3> HIDE DEF w
    <3> QED BY <3>1, <3>2, <1>6
  <2>3. CASE ~(a.reported.at <= r.at)
    <3>1. w = a.reported BY <2>3 DEF Newer
    <3>2. r.at <= a.reported.at BY <2>3, <1>6
    <3> HIDE DEF w
    <3> QED BY <3>1, <3>2, <2>1
  <2> QED BY <2>2, <2>3
<1>8. AccountTrue(b, n, c)
  <2> HIDE DEF w, g, c
  <2> QED BY <1>2, <1>3, <1>5 DEF AccountTrue
<1> HIDE DEF w, g, c
<1> QED BY <1>2, <1>5, <1>7, <1>8 DEF AccountKeeps, c

---------------------------------------------------------------------------
(* The messages read are learnt one after the other *)

\* what the card and the account know when they were told the messages R
LearntOK(s, R) ==
  /\ s.last \in 0..Len(bank) /\ s.account \in AccountType /\ LogFits(s.account.log)
  /\ CardKeeps(bank, s.last, R)
  /\ AccountKeeps(s.account, ToldOf(bank, linked, R, typed))
  /\ AccountTrue(bank, now, s.account)

LEMMA ToldType ==
  ASSUME NEW b, BankTypeOK(b), NEW k, NEW R \in SUBSET (DOMAIN b), NEW ty \in 0..Minutes
  PROVE  ToldOf(b, k, R, ty) \in SUBSET Nat
<1>1. \A i \in R : b[i].got \in Nat
  <2> TAKE i \in R
  <2>1. b[i].got \in 0..Minutes BY MessageFields
  <2> QED BY <2>1
<1> QED BY <1>1 DEF ToldOf

LEMMA StatementFields ==
  ASSUME BankTypeOK(bank), NEW i \in DOMAIN bank, bank[i].got > 0
  PROVE  StatementOf(i) \in StatementType /\ StatementOf(i).at = bank[i].got /\ StatementOf(i).at # 0
<1>1. bank[i].got \in 0..Minutes /\ bank[i].holds \in Int BY MessageFields
<1> QED BY <1>1 DEF StatementOf, StatementType

LEMMA StatementTrue ==
  ASSUME BankTrue(bank, now), NEW i \in DOMAIN bank, bank[i].got > 0, Orderly
  PROVE  IsTrue(bank, now, StatementOf(i))
BY DEF BankTrue, StatementOf

LEMMA LearnStep ==
  ASSUME BalanceAssumption, BalanceTypeOK, BankInv, NEW R \in SUBSET (DOMAIN bank),
         NEW s, LearntOK(s, R), NEW i \in DOMAIN bank, bank[i].got > 0
  PROVE  LearntOK(Learn(s, i), R \cup {i})
<1> DEFINE told == ToldOf(bank, linked, R, typed)
           r == StatementOf(i)
           c == Learn(s, i)
<1>0. BankTypeOK(bank) /\ typed \in 0..Minutes /\ linked \in BOOLEAN /\ DOMAIN bank = 1..Len(bank)
  BY DEF BalanceTypeOK, BankTypeOK
<1>1. /\ s.last \in 0..Len(bank) /\ s.account \in AccountType /\ LogFits(s.account.log)
      /\ CardKeeps(bank, s.last, R) /\ AccountKeeps(s.account, told) /\ AccountTrue(bank, now, s.account)
  BY DEF LearntOK
<1>2. told \in SUBSET Nat BY <1>0, ToldType
<1>3. CASE bank[i].kind = "plain"
  <2>1. Learn(s, i) = s BY <1>3 DEF Learn, Stating
  <2>2. CardKeeps(bank, s.last, R \cup {i}) BY <1>1, <1>3 DEF CardKeeps
  <2>3. ToldOf(bank, linked, R \cup {i}, typed) = told BY <1>3 DEF ToldOf
  <2> QED BY <2>1, <2>2, <2>3, <1>1 DEF LearntOK
<1>4. CASE bank[i].kind # "plain"
  <2>1. c = [last |-> IF Fresher(i, s.last) THEN i ELSE s.last,
             account |-> IF linked THEN AddReported(s.account, r) ELSE s.account]
    BY <1>4 DEF Learn, Stating
  <2>2. c.last = IF Fresher(i, s.last) THEN i ELSE s.last BY <2>1
  <2>3. i \in 1..Len(bank) /\ i # 0 /\ i \in 0..Len(bank) BY <1>0
  <2>4. c.last \in 0..Len(bank) /\ CardKeeps(bank, c.last, R \cup {i})
    <3> DEFINE l == s.last
    <3>1. \A j \in DOMAIN bank : bank[j].got \in Nat
      <4> TAKE j \in DOMAIN bank
      <4>1. bank[j].got \in 0..Minutes BY <1>0, MessageFields
      <4> QED BY <4>1
    <3>2. /\ l # 0 => l \in R /\ bank[l].kind # "plain"
          /\ \A j \in R : bank[j].kind # "plain" => l # 0 /\ bank[j].got <= bank[l].got
      BY <1>1 DEF CardKeeps
    <3>3. CASE l = 0
      <4>1. c.last = i BY <2>2, <3>3 DEF Fresher
      <4>2. \A j \in R \cup {i} : bank[j].kind # "plain" => bank[j].got <= bank[i].got BY <3>1, <3>2, <3>3
      <4> HIDE DEF c, l
      <4> QED BY <1>4, <2>3, <4>1, <4>2 DEF CardKeeps
    <3>4. CASE l # 0
      <4>1. l \in DOMAIN bank /\ l \in R BY <3>2, <3>4
      <4>2. CASE Fresher(i, l)
        <5>1. c.last = i BY <2>2, <4>2
        <5>2. bank[l].got <= bank[i].got BY <3>1, <3>4, <4>1, <4>2 DEF Fresher
        <5>3. \A j \in R \cup {i} : bank[j].kind # "plain" => bank[j].got <= bank[i].got
          BY <3>1, <3>2, <4>1, <5>2
        <5> HIDE DEF c, l
        <5> QED BY <1>4, <2>3, <5>1, <5>3 DEF CardKeeps
      <4>3. CASE ~Fresher(i, l)
        <5>1. c.last = l BY <2>2, <4>3
        <5>2. bank[i].got <= bank[l].got BY <3>1, <3>4, <4>1, <4>3 DEF Fresher
        <5>3. \A j \in R \cup {i} : bank[j].kind # "plain" => bank[j].got <= bank[l].got BY <3>2, <5>2
        <5>4. l \in 0..Len(bank) BY <1>1
        <5> HIDE DEF c, l
        <5> QED BY <3>2, <3>4, <5>1, <5>3, <5>4 DEF CardKeeps
      <4> QED BY <4>2, <4>3
    <3> QED BY <3>3, <3>4
  <2>5. CASE linked
    <3>1. c.account = AddReported(s.account, r) BY <2>1, <2>5
    <3>2. r \in StatementType /\ r.at = bank[i].got /\ r.at # 0 BY <1>0, StatementFields
    <3>3. Orderly => IsTrue(bank, now, r) BY StatementTrue DEF BankInv
    <3>4. ToldOf(bank, linked, R \cup {i}, typed) = told \cup {r.at}
      <4> HIDE DEF r
      <4> QED BY <1>4, <2>5, <3>2 DEF ToldOf
    <3> HIDE DEF told, r, c
    <3>5. /\ AddReported(s.account, r) \in AccountType /\ LogFits(AddReported(s.account, r).log)
          /\ AccountKeeps(AddReported(s.account, r), told \cup {r.at})
          /\ AccountTrue(bank, now, AddReported(s.account, r))
      BY <1>1, <1>2, <3>2, <3>3, AddStep
    <3> QED BY <2>4, <3>1, <3>4, <3>5 DEF LearntOK, c
  <2>6. CASE ~linked
    <3>1. c.account = s.account BY <2>1, <2>6
    <3>2. ToldOf(bank, linked, R \cup {i}, typed) = told BY <2>6 DEF ToldOf
    <3> HIDE DEF told, c
    <3> QED BY <1>1, <2>4, <3>1, <3>2 DEF LearntOK, c
  <2> QED BY <2>5, <2>6
<1> QED BY <1>3, <1>4

LEMMA LessIsWellFounded == IsWellFoundedOn({ss \in Nat \X Nat : ss[1] < ss[2]}, Nat)
BY NatLessThanWellFounded DEF OpToRel

\* what holds of 0 and of the next number up to N holds up to N
LEMMA Upto ==
  ASSUME NEW N \in Nat, NEW T, 0 \in T, \A n \in 0..N : n \in T /\ n < N => n + 1 \in T
  PROVE  \A n \in 0..N : n \in T
<1> DEFINE R == {ss \in Nat \X Nat : ss[1] < ss[2]}
           Bad == {n \in 0..N : n \notin T}
<1>1. SUFFICES ASSUME Bad # {} PROVE FALSE OBVIOUS
<1>2. PICK n \in Bad : \A m \in Bad : ~(<<m, n>> \in R)
  <2>1. Bad \subseteq Nat OBVIOUS
  <2>2. IsWellFoundedOn(R, Nat) BY LessIsWellFounded
  <2> HIDE DEF R, Bad
  <2> QED BY <1>1, <2>1, <2>2, WFMin
<1>3. n \in 1..N OBVIOUS
<1>4. n - 1 \in 0..N /\ n - 1 < N /\ (n - 1) + 1 = n BY <1>3
<1>5. n - 1 \notin T BY <1>4
<1>6. n - 1 \in Bad BY <1>4, <1>5
<1>7. <<n - 1, n>> \in R
  <2>1. <<n - 1, n>> \in Nat \X Nat BY <1>3
  <2>2. <<n - 1, n>>[1] < <<n - 1, n>>[2] BY <1>3
  <2> QED BY <2>1, <2>2
<1> QED BY <1>2, <1>6, <1>7

LearnNext(x, i, S) == IF i \in S THEN Learn(x, i) ELSE x
\* g has what is known after each message, the newest first
OneByOne(g, s, S) ==
  /\ g[0] = s
  /\ \A n \in 0..Len(bank) : n < Len(bank) => g[n + 1] = LearnNext(g[n], Len(bank) - n, S)
  /\ NewestFirst(s, S) = g[Len(bank)]

LEMMA NewestFirstSteps ==
  ASSUME NEW s, NEW S, Len(bank) \in Nat PROVE \E g : OneByOne(g, s, S)
<1> DEFINE L == Len(bank)
           At(x, n) == LearnNext(x, L + 1 - n, S)
           To(g, m) == g = [n \in 0..m |-> IF n = 0 THEN s ELSE At(g[n - 1], n)]
           T == {m \in 0..L : \E g : To(g, m)}
<1>0. L \in Nat /\ 0..0 = {0} OBVIOUS
<1>1. 0 \in T
  <2> DEFINE g == [n \in 0..0 |-> s]
  <2>1. \A n \in 0..0 : g[n] = IF n = 0 THEN s ELSE At(g[n - 1], n) OBVIOUS
  <2>2. To(g, 0)
    <3>1. g = [n \in 0..0 |-> g[n]] OBVIOUS
    <3> HIDE DEF g, At
    <3> QED BY <3>1, <2>1
  <2>3. 0 \in 0..L BY <1>0
  <2> HIDE DEF To, g
  <2> QED BY <2>2, <2>3
<1>2. ASSUME NEW m \in 0..L, m \in T, m < L PROVE m + 1 \in T
  <2>1. PICK g : To(g, m) BY <1>2
  <2> DEFINE h == [n \in 0..m + 1 |-> IF n <= m THEN g[n] ELSE At(g[m], m + 1)]
  <2> HIDE DEF At
  <2>2. \A n \in 0..m + 1 : h[n] = IF n = 0 THEN s ELSE At(h[n - 1], n)
    <3> TAKE n \in 0..m + 1
    <3>0. n \in Int /\ m \in Int BY <1>0
    <3>1. CASE n = 0
      <4>1. h[n] = g[n] /\ 0 \in 0..m BY <3>1, <1>0
      <4> QED BY <4>1, <3>1, <2>1
    <3>2. CASE n \in 1..m
      <4>1. h[n] = g[n] /\ h[n - 1] = g[n - 1] BY <3>2
      <4>2. g[n] = At(g[n - 1], n) BY <2>1, <3>2
      <4> QED BY <4>1, <4>2, <3>2
    <3>3. CASE n = m + 1
      <4>1. h[n] = At(g[m], n) /\ h[n - 1] = g[m] /\ n # 0 BY <3>3
      <4> QED BY <4>1
    <3> QED BY <3>0, <3>1, <3>2, <3>3
  <2>3. To(h, m + 1)
    <3>1. h = [n \in 0..m + 1 |-> h[n]] OBVIOUS
    <3> HIDE DEF h
    <3> QED BY <3>1, <2>2
  <2>4. m + 1 \in 0..L BY <1>2, <1>0
  <2> HIDE DEF To, h
  <2> QED BY <2>3, <2>4
<1>3. L \in T
  <2> HIDE DEF T, L
  <2>1. \A n \in 0..L : n \in T BY <1>0, <1>1, <1>2, Upto
  <2> QED BY <2>1, <1>0
<1>4. \E g : To(g, L) BY <1>3
<1> DEFINE A == CHOOSE g : To(g, L)
<1>5. To(A, L) BY <1>4
<1>6. NewestFirst(s, S) = A[L] BY DEF NewestFirst, LearnNext
<1>7. A[0] = s
  <2>1. 0 \in 0..L BY <1>0
  <2> HIDE DEF A, At, L
  <2> QED BY <1>5, <2>1
<1>8. \A n \in 0..L : n < L => A[n + 1] = LearnNext(A[n], L - n, S)
  <2> TAKE n \in 0..L
  <2> HAVE n < L
  <2>1. n + 1 \in 0..L /\ n + 1 # 0 /\ (n + 1) - 1 = n /\ L + 1 - (n + 1) = L - n BY <1>0
  <2>2. A[n + 1] = At(A[(n + 1) - 1], n + 1)
    <3> HIDE DEF A, At, L
    <3> QED BY <1>5, <2>1
  <2> HIDE DEF A, L
  <2> QED BY <2>1, <2>2
<1>9. OneByOne(A, s, S)
  <2> HIDE DEF A
  <2> QED BY <1>6, <1>7, <1>8 DEF OneByOne
<1> QED BY <1>9

LEMMA NewestFirstLearns ==
  ASSUME BalanceAssumption, BalanceTypeOK, BankInv, NEW R \in SUBSET (DOMAIN bank),
         NEW s, LearntOK(s, R), NEW S \in SUBSET (DOMAIN bank), AllGot(bank, S)
  PROVE  LearntOK(NewestFirst(s, S), R \cup S)
<1> DEFINE L == Len(bank)
           Done(n) == {i \in S : i > L - n}
<1>0. L \in Nat /\ DOMAIN bank = 1..L BY DEF BalanceTypeOK, BankTypeOK
<1>1. PICK g : OneByOne(g, s, S) BY <1>0, NewestFirstSteps
<1>2. /\ g[0] = s /\ NewestFirst(s, S) = g[L]
      /\ \A n \in 0..L : n < L => g[n + 1] = LearnNext(g[n], L - n, S)
  BY <1>1 DEF OneByOne
<1> DEFINE U == {n \in 0..L : LearntOK(g[n], R \cup Done(n))}
<1>3. 0 \in U
  <2>1. Done(0) = {} BY <1>0
  <2>2. R \cup Done(0) = R BY <2>1
  <2> HIDE DEF Done
  <2>3. LearntOK(g[0], R \cup Done(0)) BY <2>2, <1>2
  <2> QED BY <2>3, <1>0
<1>4. ASSUME NEW n \in 0..L, n \in U, n < L PROVE n + 1 \in U
  <2> DEFINE i == L - n
  <2>1. i \in DOMAIN bank /\ n + 1 \in 0..L BY <1>0, <1>4
  <2>2. g[n + 1] = LearnNext(g[n], i, S) BY <1>2, <1>4
  <2>3. LearntOK(g[n], R \cup Done(n)) /\ R \cup Done(n) \in SUBSET (DOMAIN bank) BY <1>4
  <2>4. \A j \in S : j > L - (n + 1) <=> j > i \/ j = i
    <3>1. \A j \in S : j \in Int BY <1>0
    <3>2. i \in Int /\ L - (n + 1) = i - 1 BY <1>0, <2>1
    <3> HIDE DEF i
    <3> QED BY <3>1, <3>2
  <2>5. CASE i \in S
    <3>1. Done(n + 1) = Done(n) \cup {i} BY <2>4, <2>5
    <3>2. R \cup Done(n + 1) = (R \cup Done(n)) \cup {i} BY <3>1
    <3>3. g[n + 1] = Learn(g[n], i) BY <2>2, <2>5 DEF LearnNext
    <3>5. bank[i].got > 0 BY <2>5 DEF AllGot
    <3> HIDE DEF Done, i
    <3>4. LearntOK(Learn(g[n], i), (R \cup Done(n)) \cup {i}) BY <2>1, <2>3, <3>5, LearnStep
    <3> QED BY <2>1, <3>2, <3>3, <3>4
  <2>6. CASE i \notin S
    <3>1. Done(n + 1) = Done(n) BY <2>4, <2>6
    <3>2. g[n + 1] = g[n] BY <2>2, <2>6 DEF LearnNext
    <3> HIDE DEF Done, i
    <3> QED BY <2>1, <2>3, <3>1, <3>2
  <2> QED BY <2>5, <2>6
<1>5. L \in U
  <2> HIDE DEF U, L
  <2>1. \A n \in 0..L : n \in U BY <1>0, <1>3, <1>4, Upto
  <2> QED BY <2>1, <1>0
<1>6. Done(L) = S BY <1>0
<1> HIDE DEF L, Done
<1> QED BY <1>2, <1>5, <1>6

LEMMA LearnSourcesIs ==
  ASSUME BalanceAssumption, BalanceTypeOK, BankInv, AccountInv, NEW S \in SUBSET (DOMAIN bank),
         AllGot(bank, S)
  PROVE  LearntOK(LearnSources(S), read \cup S)
<1> DEFINE s == [last |-> last, account |-> Account]
           balances == {i \in S : bank[i].kind = "only"}
<1>1. s.last = last /\ s.account = Account OBVIOUS
<1>2. LogFits(Account.log) BY DEF BalanceTypeOK, Account
<1>3. LearntOK(s, read)
  <2> HIDE DEF s
  <2> QED BY <1>1, <1>2 DEF LearntOK, AccountInv, BalanceTypeOK
<1>4. /\ read \in SUBSET (DOMAIN bank) /\ balances \in SUBSET (DOMAIN bank)
      /\ S \ balances \in SUBSET (DOMAIN bank) /\ read \cup balances \in SUBSET (DOMAIN bank)
      /\ (read \cup balances) \cup (S \ balances) = read \cup S
      /\ AllGot(bank, balances) /\ AllGot(bank, S \ balances)
  BY DEF BalanceTypeOK, AllGot
<1>5. LearnSources(S) = NewestFirst(NewestFirst(s, balances), S \ balances) BY DEF LearnSources
<1> HIDE DEF s, balances
<1>6. LearntOK(NewestFirst(s, balances), read \cup balances) BY <1>3, <1>4, NewestFirstLearns
<1>7. LearntOK(NewestFirst(NewestFirst(s, balances), S \ balances), (read \cup balances) \cup (S \ balances))
  BY <1>4, <1>6, NewestFirstLearns
<1> QED BY <1>4, <1>5, <1>7

---------------------------------------------------------------------------
(* The month's check is of integers *)

LEMMA MaxOf ==
  ASSUME NEW N \in Nat, NEW S \in SUBSET (0..N), S # {}
  PROVE  Max(S) \in S /\ \A x \in S : x <= Max(S)
<1> DEFINE R == {ss \in Nat \X Nat : ss[1] < ss[2]}
           D == {N - x : x \in S}
<1>1. D \subseteq Nat /\ D # {}
  <2>1. \A x \in S : x \in 0..N OBVIOUS
  <2>2. \A x \in S : N - x \in Nat BY <2>1
  <2>3. PICK x \in S : TRUE OBVIOUS
  <2>4. N - x \in D OBVIOUS
  <2> QED BY <2>2, <2>4
<1>2. IsWellFoundedOn(R, Nat) BY LessIsWellFounded
<1>3. PICK d \in D : \A e \in D : ~(<<e, d>> \in R)
  <2> HIDE DEF R, D
  <2> QED BY <1>1, <1>2, WFMin
<1>4. PICK y \in S : d = N - y BY <1>3
<1>5. ASSUME NEW x \in S PROVE x <= y
  <2>1. N - x \in D /\ N - x \in Nat /\ d \in Nat BY <1>1, <1>3
  <2>2. ~(<<N - x, d>> \in R) BY <2>1, <1>3
  <2>3. <<N - x, d>> \in Nat \X Nat /\ <<N - x, d>>[1] = N - x /\ <<N - x, d>>[2] = d BY <2>1
  <2>4. ~(N - x < d) BY <2>2, <2>3
  <2>5. x \in 0..N /\ y \in 0..N OBVIOUS
  <2> QED BY <2>4, <2>5, <1>4
<1>6. \E y2 \in S : \A x \in S : y2 >= x
  <2>1. \A x \in S : y >= x BY <1>5
  <2> QED BY <2>1
<1>7. Max(S) \in S /\ \A x \in S : Max(S) >= x
  BY <1>6 DEF Max
<1> QED BY <1>7

\* The bank's last word before the month is a statement of the log.
LEMMA PriorIs ==
  ASSUME log \in Seq(StatementType), Minutes \in Nat
  PROVE  /\ Prior \in StatementType
         /\ Prior # None => \E i \in DOMAIN log : Prior = log[i] /\ BeforeMonth(log[i].at)
<1> DEFINE before == {i \in DOMAIN log : BeforeMonth(log[i].at)}
<1>1. CASE before = {}
  <2>1. Prior = None BY <1>1 DEF Prior
  <2> QED BY <2>1 DEF None, StatementType
<1>2. CASE before # {}
  <2>1. Prior = log[Max(before)] BY <1>2 DEF Prior
  <2>2. Len(log) \in Nat /\ before \in SUBSET (0..Len(log)) OBVIOUS
  <2>3. Max(before) \in before
    <3> HIDE DEF before
    <3> QED BY <1>2, <2>2, MaxOf
  <2> DEFINE i == Max(before)
  <2> HIDE DEF i
  <2>4. i \in DOMAIN log /\ BeforeMonth(log[i].at) BY <2>3 DEF i
  <2>5. log[i] \in StatementType BY <2>4
  <2>6. Prior = log[i] BY <2>1 DEF i
  <2> QED BY <2>4, <2>5, <2>6
<1> QED BY <1>1, <1>2

LEMMA RowsIn ==
  ASSUME BalanceTypeOK, NEW S \in SUBSET rows
  PROVE  IsFiniteSet(S) /\ (\A t \in S : t.rial \in Int) /\ Rows(S) \in Int
<1>1. IsFiniteSet(S) BY FS_Subset DEF BalanceTypeOK
<1>2. \A t \in S : t.rial \in Int BY DEF BalanceTypeOK, BookRows
<1> QED BY <1>1, <1>2, RowsType

LEMMA AccountTypes ==
  ASSUME BalanceTypeOK
  PROVE  /\ reported \in StatementType /\ log \in Seq(StatementType)
         /\ Account.reported = reported /\ Account.log = log
BY DEF BalanceTypeOK, AccountType, Account

LEMMA CheckTypes ==
  ASSUME BalanceAssumption, BalanceTypeOK
  PROVE  /\ Prior \in StatementType /\ StartRial \in Int /\ BookedRial \in Int /\ PendingRial \in Int
         /\ DiffRial \in Int /\ BalanceOf \in Int
<1>1. reported \in StatementType /\ log \in Seq(StatementType) BY AccountTypes
<1>2. Prior \in StatementType BY <1>1, PriorIs DEF BalanceAssumption
<1>3. StartRial \in Int
  <2> DEFINE A == {t \in rows : BeforeMonth(t.at) /\ ~BookedBy(t, Prior)}
             B == {t \in rows : BeforeMonth(t.at)}
  <2>1. A \in SUBSET rows /\ B \in SUBSET rows OBVIOUS
  <2>2. StartRial = IF Prior # None THEN Prior.rial + Rows(A) ELSE opening + Rows(B) BY DEF StartRial
  <2> HIDE DEF A, B
  <2>3. Rows(A) \in Int /\ Rows(B) \in Int BY <2>1, RowsIn
  <2>4. Prior.rial \in Int /\ opening \in Int BY <1>2 DEF StatementType, BalanceTypeOK
  <2> QED BY <2>2, <2>3, <2>4
<1>4. BookedRial \in Int
  <2> DEFINE A == {t \in rows : ~BeforeMonth(t.at) /\ BookedBy(t, reported)}
  <2>1. A \in SUBSET rows OBVIOUS
  <2>2. BookedRial = Rows(A) BY DEF BookedRial
  <2> HIDE DEF A
  <2> QED BY <2>1, <2>2, RowsIn
<1>5. PendingRial \in Int
  <2>1. Pending \ PendingUnknown \in SUBSET (DOMAIN bank) /\ BankTypeOK(bank) BY DEF Pending, BalanceTypeOK
  <2>2. SumOf(bank, Pending \ PendingUnknown) \in Int BY <2>1, BankFinite
  <2> QED BY <2>2, MovedIs DEF PendingRial
<1>6. reported.rial \in Int /\ opening \in Int BY <1>1 DEF StatementType, BalanceTypeOK
<1>7. DiffRial \in Int BY <1>3, <1>4, <1>5, <1>6 DEF DiffRial
<1>8. BalanceOf \in Int
  <2> DEFINE A == {t \in rows : ~BookedBy(t, reported)}
  <2>1. A \in SUBSET rows /\ rows \in SUBSET rows OBVIOUS
  <2>2. BalanceOf = IF reported = None THEN opening + Rows(rows) ELSE reported.rial + Rows(A) BY DEF BalanceOf
  <2> HIDE DEF A
  <2>3. Rows(A) \in Int /\ Rows(rows) \in Int BY <2>1, RowsIn
  <2> QED BY <2>2, <2>3, <1>6
<1> QED BY <1>2, <1>3, <1>4, <1>5, <1>7, <1>8

---------------------------------------------------------------------------
(* The steps *)

LEMMA InitInv == ASSUME BalanceAssumption, Init PROVE Inv
<1>1. bank = <<>> /\ DOMAIN bank = {} /\ Len(bank) = 0 /\ bank \in Seq(MessageType) BY DEF Init
<1>2. Len(Messages) \in Nat /\ Minutes \in Nat \ {0} /\ LogMax \in Nat \ {0} /\ MaxRows \in Nat /\ Opening \in Int
  BY DEF BalanceAssumption
<1>3. BankTypeOK(bank) BY <1>1, <1>2 DEF BankTypeOK
<1>4. IsFiniteSet({}) /\ Cardinality({}) = 0 BY FS_EmptySet
<1>5. Account = [reported |-> None, log |-> <<>>] /\ log = <<>> BY DEF Account, Init
<1>6. None \in StatementType /\ None.at = 0 BY <1>2 DEF None, StatementType
<1>7. Account \in AccountType BY <1>5, <1>6 DEF AccountType
<1>8. BalanceTypeOK
  <2>1. read \subseteq DOMAIN bank /\ queue \subseteq DOMAIN bank /\ linked \in BOOLEAN BY DEF Init
  <2>2. rows \in SUBSET BookRows /\ IsFiniteSet(rows) /\ Cardinality(rows) <= MaxRows
    BY <1>2, <1>4 DEF Init
  <2>3. now \in 0..Minutes /\ typed \in 0..Minutes /\ last \in 0..Len(bank) /\ opening \in Int
    BY <1>1, <1>2 DEF Init
  <2>4. LogFits(log)
    <3>1. Len(log) = 0 BY <1>5
    <3> QED BY <3>1, <1>2 DEF LogFits
  <2> QED BY <2>1, <2>2, <2>3, <2>4, <1>3, <1>7 DEF BalanceTypeOK
<1>9. BankInv
  <2>1. InOrder(bank, now) BY <1>1 DEF InOrder
  <2>2. SumOf(bank, DOMAIN bank) = 0 BY <1>1, SumOfNone
  <2>3. AddsUp(bank) BY <1>1, <1>2, <2>2 DEF AddsUp, HeldOf
  <2>4. BankTrue(bank, now) BY <1>1 DEF BankTrue
  <2> QED BY <2>1, <2>3, <2>4 DEF BankInv
<1>10. AccountInv
  <2>1. read = {} /\ last = 0 /\ typed = 0 /\ now = 0 BY DEF Init
  <2>2. CardKeeps(bank, last, read) BY <2>1 DEF CardKeeps
  <2>3. ToldOf(bank, linked, read, typed) = {0} BY <2>1 DEF ToldOf
  <2>4. AccountKeeps(Account, {0}) BY <1>5, <1>6 DEF AccountKeeps
  <2>5. AccountTrue(bank, now, Account) BY <1>5 DEF AccountTrue
  <2>6. typed <= now BY <2>1
  <2>7. AccountKeeps(Account, ToldOf(bank, linked, read, typed)) BY <2>3, <2>4
  <2>8. AllGot(bank, read) BY <2>1 DEF AllGot
  <2> QED BY <2>2, <2>5, <2>6, <2>7, <2>8 DEF AccountInv
<1>11. RowsKept(rows) BY DEF RowsKept, Init
<1> QED BY <1>8, <1>9, <1>10, <1>11 DEF Inv

\* a minute for the next thing
LEMMA LaterIs ==
  ASSUME BalanceAssumption, BalanceTypeOK, NEW t \in Later
  PROVE  t \in 1..Minutes /\ now <= t /\ (Apart => now < t)
<1>1. Minutes \in Nat /\ Apart \in BOOLEAN /\ now \in 0..Minutes BY DEF BalanceAssumption, BalanceTypeOK
<1>2. CASE Apart BY <1>1, <1>2 DEF Later
<1>3. CASE ~Apart BY <1>1, <1>3 DEF Later
<1> QED BY <1>2, <1>3

\* What a statement says stays true as time goes on.
LEMMA TrueLater ==
  ASSUME NEW b, NEW n \in Nat, NEW t \in Nat, n <= t, NEW s, IsTrue(b, n, s) PROVE IsTrue(b, t, s)
BY DEF IsTrue

LEMMA BankLater ==
  ASSUME NEW b, BankTypeOK(b), NEW n \in Nat, NEW t \in Nat, n <= t, InOrder(b, n), BankTrue(b, n)
  PROVE  InOrder(b, t) /\ BankTrue(b, t)
<1>1. \A i \in DOMAIN b : b[i].at \in 1..Minutes /\ b[i].got \in 0..Minutes BY MessageFields
<1>2. InOrder(b, t) BY <1>1 DEF InOrder
<1>3. BankTrue(b, t) BY TrueLater DEF BankTrue
<1> QED BY <1>2, <1>3

LEMMA AccountLater ==
  ASSUME NEW b, NEW n \in Nat, NEW t \in Nat, n <= t, NEW a, AccountTrue(b, n, a) PROVE AccountTrue(b, t, a)
BY TrueLater DEF AccountTrue

LEMMA MoveInv ==
  ASSUME BalanceAssumption, Inv, Len(bank) < Len(Messages), NEW t \in Later,
         NEW m \in Messages[Len(bank) + 1], Move(t, m)
  PROVE  Inv'
<1>0. PICK got \in {0, t} :
         bank' = Append(bank, [at |-> t, got |-> got, kind |-> m.kind, rial |-> m.rial, holds |-> Held + m.rial])
  BY DEF Move
<1> DEFINE c == [at |-> t, got |-> got, kind |-> m.kind, rial |-> m.rial, holds |-> Held + m.rial]
<1>1. BalanceTypeOK /\ BankTypeOK(bank) /\ BankInv /\ AccountInv /\ RowsKept(rows)
  BY DEF Inv, BalanceTypeOK
<1>2. t \in 1..Minutes /\ now <= t /\ (Apart => now < t) /\ now \in 0..Minutes
  BY <1>1, LaterIs DEF BalanceTypeOK
<1>3. m.rial \in Int /\ m.kind \in Kinds
  <2>1. Len(bank) \in Nat /\ Len(Messages) \in Nat /\ Messages \in Seq(SUBSET [rial : Int, kind : Kinds])
    BY <1>1 DEF BankTypeOK, BalanceAssumption
  <2>2. Len(bank) + 1 \in 1..Len(Messages) BY <2>1
  <2>3. Messages[Len(bank) + 1] \in SUBSET [rial : Int, kind : Kinds] BY <2>1, <2>2
  <2> QED BY <2>3
<1>4. Held = HeldOf(bank) /\ HeldOf(bank) \in Int BY <1>1, HeldIs, HeldType
<1>5. c \in MessageType /\ c.at = t /\ c.got \in {0, t} /\ c.holds = HeldOf(bank) + c.rial
  BY <1>2, <1>3, <1>4 DEF MessageType
<1>6. /\ now' = t /\ bank' = Append(bank, c) /\ (Overtaken \/ AllGot(bank, DOMAIN bank))
      /\ UNCHANGED <<read, queue, linked, last, rows, opening, reported, log, typed>>
  BY <1>0 DEF Move, account, AllGot, Arrived
<1> HIDE DEF c
<1>7. /\ BankTypeOK(bank') /\ DOMAIN bank \subseteq DOMAIN bank' /\ Len(bank') = Len(bank) + 1
      /\ \A i \in DOMAIN bank : bank'[i] = bank[i]
  BY <1>1, <1>5, <1>6 DEF BankTypeOK
<1>8. Account' = Account /\ Account \in AccountType BY <1>1, <1>6 DEF Account, BalanceTypeOK
<1>9. BalanceTypeOK'
  <2>1. Len(bank) \in Nat /\ last \in 0..Len(bank) BY <1>1 DEF BankTypeOK, BalanceTypeOK
  <2>2. last' \in 0..Len(bank') BY <2>1, <1>6, <1>7
  <2>3. read' \subseteq DOMAIN bank' /\ queue' \subseteq DOMAIN bank' BY <1>1, <1>6, <1>7 DEF BalanceTypeOK
  <2>4. now' \in 0..Minutes BY <1>2, <1>6
  <2> QED BY <2>2, <2>3, <2>4, <1>1, <1>6, <1>7, <1>8 DEF BalanceTypeOK
<1>10. BankInv'
  <2>1. InOrder(Append(bank, c), t) /\ AddsUp(Append(bank, c)) /\ BankTrue(Append(bank, c), t)
    <3>1. InOrder(bank, now) /\ AddsUp(bank) /\ BankTrue(bank, now) BY <1>1 DEF BankInv
    <3>2. Orderly => now < t BY <1>2 DEF Orderly
    <3> QED BY <1>1, <1>2, <1>5, <1>6, <3>1, <3>2, MoveStep
  <2> QED BY <2>1, <1>6 DEF BankInv
<1>11. AccountInv'
  <2>1. /\ CardKeeps(bank, last, read) /\ AccountKeeps(Account, ToldOf(bank, linked, read, typed))
        /\ AccountTrue(bank, now, Account) /\ typed <= now /\ read \subseteq DOMAIN bank /\ typed \in 0..Minutes
        /\ AllGot(bank, read)
    BY <1>1 DEF AccountInv, BalanceTypeOK
  <2>2. CardKeeps(bank', last, read) /\ AllGot(bank', read) BY <2>1, <1>7 DEF CardKeeps, AllGot
  <2>3. ToldOf(bank', linked, read, typed) = ToldOf(bank, linked, read, typed) BY <2>1, <1>7 DEF ToldOf
  <2>4. AccountTrue(bank', t, Account)
    <3> SUFFICES ASSUME Orderly PROVE AccountTrue(bank', t, Account) BY DEF AccountTrue
    <3>0. now < t BY <1>2 DEF Orderly
    <3>1. \A s \in StatementType : IsTrue(bank, now, s) => IsTrue(bank', t, s)
      <4> TAKE s \in StatementType
      <4> HAVE IsTrue(bank, now, s)
      <4>1. IsTrue(Append(bank, c), t, s) BY <1>1, <1>2, <1>5, <3>0, TrueStays
      <4> QED BY <4>1, <1>6
    <3>2. Account.reported \in StatementType /\ Account.log \in Seq(StatementType) BY <1>8 DEF AccountType
    <3>3. \A i \in DOMAIN Account.log : Account.log[i] \in StatementType BY <3>2
    <3> QED BY <3>1, <3>2, <3>3, <2>1 DEF AccountTrue
  <2>5. typed <= t BY <2>1, <1>2
  <2> QED BY <2>1, <2>2, <2>3, <2>4, <2>5, <1>6, <1>8 DEF AccountInv
<1>12. RowsKept(rows') BY <1>1, <1>6
<1> QED BY <1>9, <1>10, <1>11, <1>12 DEF Inv

LEMMA ReceiveInv ==
  ASSUME BalanceAssumption, Inv, NEW i \in DOMAIN bank, NEW t \in Later, Receive(i, t)
  PROVE  Inv'
<1>1. BalanceTypeOK /\ BankTypeOK(bank) /\ BankInv /\ AccountInv /\ RowsKept(rows)
  BY DEF Inv, BalanceTypeOK
<1>2. t \in 1..Minutes /\ now <= t /\ now \in 0..Minutes BY <1>1, LaterIs DEF BalanceTypeOK
<1>3. /\ now' = t /\ bank' = [bank EXCEPT ![i].got = t] /\ ~(bank[i].got > 0)
      /\ UNCHANGED <<read, queue, linked, last, rows, opening, reported, log, typed>>
  BY DEF Receive, account, Arrived
<1>4. bank[i].got = 0
  <2>1. bank[i].got \in 0..Minutes BY <1>1, MessageFields
  <2> QED BY <1>3, <2>1
<1>5. InOrder(bank, now) /\ AddsUp(bank) /\ BankTrue(bank, now) BY <1>1 DEF BankInv
<1>6. /\ BankTypeOK(bank') /\ Len(bank') = Len(bank) /\ DOMAIN bank' = DOMAIN bank
      /\ \A j \in DOMAIN bank \ {i} : bank'[j] = bank[j]
      /\ InOrder(bank', t) /\ AddsUp(bank') /\ BankTrue(bank', t)
      /\ \A s : IsTrue(bank, now, s) => IsTrue(bank', t, s)
  <2>1. GotIs(bank, i, t, bank') BY <1>3 DEF GotIs
  <2>2. Received(bank, now, i, t, bank') BY <1>1, <1>2, <1>4, <1>5, <2>1, ReceiveStep
  <2> QED BY <2>2, Zenon DEF Received
<1>7. Account' = Account /\ Account \in AccountType BY <1>1, <1>3 DEF Account, BalanceTypeOK
<1>8. BalanceTypeOK' BY <1>1, <1>2, <1>3, <1>6, <1>7 DEF BalanceTypeOK
<1>9. BankInv' BY <1>3, <1>6 DEF BankInv
<1>10. AccountInv'
  <2>1. /\ CardKeeps(bank, last, read) /\ AccountKeeps(Account, ToldOf(bank, linked, read, typed))
        /\ AccountTrue(bank, now, Account) /\ typed <= now /\ read \subseteq DOMAIN bank /\ typed \in 0..Minutes
        /\ AllGot(bank, read)
    BY <1>1 DEF AccountInv, BalanceTypeOK
  <2>2. i \notin read BY <1>3, <2>1 DEF AllGot
  <2>3. \A j \in read : bank'[j] = bank[j] BY <1>6, <2>1, <2>2
  <2>4. CardKeeps(bank', last, read) /\ AllGot(bank', read) BY <2>1, <2>3 DEF CardKeeps, AllGot
  <2>5. ToldOf(bank', linked, read, typed) = ToldOf(bank, linked, read, typed) BY <2>3 DEF ToldOf
  <2>6. AccountTrue(bank', t, Account) BY <1>6, <2>1 DEF AccountTrue
  <2>7. typed <= t BY <2>1, <1>2
  <2> QED BY <2>1, <2>4, <2>5, <2>6, <2>7, <1>3, <1>7 DEF AccountInv
<1>11. RowsKept(rows') BY <1>1, <1>3
<1> QED BY <1>8, <1>9, <1>10, <1>11 DEF Inv

LEMMA BankSame ==
  ASSUME BankTypeOK(bank), BankInv, UNCHANGED bank, now \in Nat, now' \in Nat, now <= now'
  PROVE  BankTypeOK(bank') /\ BankInv'
<1>1. InOrder(bank, now') /\ BankTrue(bank, now') BY BankLater DEF BankInv
<1>2. BankTypeOK(bank') /\ AddsUp(bank') BY DEF BankInv
<1> QED BY <1>1, <1>2 DEF BankInv

LEMMA AccountSame ==
  ASSUME AccountInv, UNCHANGED <<now, bank, read, linked, last, reported, log, typed>>
  PROVE  Account' = Account /\ LogFits(log') = LogFits(log) /\ AccountInv'
BY DEF Account, AccountInv

LEMMA RowPushed ==
  ASSUME BalanceAssumption, BalanceTypeOK, RowsKept(rows), NEW r \in BookRows, r.timed \/ r.at <= r.added, Push(r)
  PROVE  /\ rows' \in SUBSET BookRows /\ IsFiniteSet(rows') /\ Cardinality(rows') <= MaxRows
         /\ RowsKept(rows')
<1>1. rows' = rows \cup {r} /\ r \notin rows /\ Cardinality(rows) < MaxRows BY DEF Push
<1>2. rows \in SUBSET BookRows /\ IsFiniteSet(rows) BY DEF BalanceTypeOK
<1>3. IsFiniteSet(rows') /\ Cardinality(rows') = Cardinality(rows) + 1 BY <1>1, <1>2, FS_AddElement
<1>4. Cardinality(rows) \in Nat /\ MaxRows \in Nat BY <1>2, FS_CardinalityType DEF BalanceAssumption
<1>5. RowsKept(rows') BY <1>1 DEF RowsKept
<1> QED BY <1>1, <1>2, <1>3, <1>4, <1>5

\* the statements learnt are the account's
LEMMA StatedIs ==
  ASSUME NEW a \in AccountType, Stated(a)
  PROVE  Account' = a /\ reported' = a.reported /\ log' = a.log
<1>1. reported' = a.reported /\ log' = a.log BY DEF Stated
<1>2. a = [reported |-> a.reported, log |-> a.log] BY DEF AccountType
<1> QED BY <1>1, <1>2 DEF Account

LEMMA ReadInv ==
  ASSUME BalanceAssumption, Inv, NEW S \in SUBSET (DOMAIN bank \ read), Read(S) PROVE Inv'
<1> DEFINE s == LearnSources(S)
<1>1. BalanceTypeOK /\ BankTypeOK(bank) /\ BankInv /\ AccountInv /\ RowsKept(rows) /\ typed <= now
      /\ read \subseteq DOMAIN bank /\ queue \subseteq DOMAIN bank /\ now \in Nat
  BY DEF Inv, BalanceTypeOK, AccountInv
<1>2. /\ read' = read \cup S /\ queue' = queue \cup {i \in S : bank[i].kind # "only"}
      /\ last' = s.last /\ Stated(s.account) /\ UNCHANGED <<now, bank, linked, rows, opening, typed>>
  BY DEF Read
<1>3. S \in SUBSET (DOMAIN bank) /\ AllGot(bank, S) BY DEF Read, AllGot, Arrived
<1>4. LearntOK(s, read \cup S) BY <1>1, <1>3, LearnSourcesIs
<1> HIDE DEF s
<1>5. /\ s.last \in 0..Len(bank) /\ s.account \in AccountType /\ LogFits(s.account.log)
      /\ CardKeeps(bank, s.last, read \cup S)
      /\ AccountKeeps(s.account, ToldOf(bank, linked, read \cup S, typed))
      /\ AccountTrue(bank, now, s.account)
  BY <1>4 DEF LearntOK
<1>6. Account' = s.account /\ log' = s.account.log BY <1>2, <1>5, StatedIs
<1>7. read' \subseteq DOMAIN bank /\ queue' \subseteq DOMAIN bank BY <1>1, <1>2
<1>8. BalanceTypeOK' BY <1>1, <1>2, <1>5, <1>6, <1>7 DEF BalanceTypeOK
<1>9. BankInv' BY <1>1, <1>2, BankSame
<1>10. AccountInv'
  <2>1. AllGot(bank, read \cup S) BY <1>1, <1>3 DEF AccountInv, AllGot
  <2> QED BY <1>1, <1>2, <1>5, <1>6, <2>1 DEF AccountInv
<1> QED BY <1>1, <1>2, <1>8, <1>9, <1>10 DEF Inv

\* Linking the card hands over its newest statement, which no read one is newer than.
LEMMA LinkStep ==
  ASSUME BalanceAssumption, Inv, ~linked, LinkSource, UNCHANGED <<now, bank, read, last, typed>>
  PROVE  linked' \in BOOLEAN /\ Account' \in AccountType /\ LogFits(log') /\ AccountInv'
<1> DEFINE told == ToldOf(bank, TRUE, read, typed)
           r == StatementOf(last)
           c == AddReported(Account, r)
<1>1. /\ BankTypeOK(bank) /\ BankTrue(bank, now) /\ InOrder(bank, now) /\ read \subseteq DOMAIN bank
      /\ Account \in AccountType /\ LogFits(Account.log) /\ typed \in 0..Minutes /\ typed <= now
      /\ CardKeeps(bank, last, read) /\ AllGot(bank, read) /\ AccountTrue(bank, now, Account) /\ Account.log = log
      /\ AccountKeeps(Account, ToldOf(bank, linked, read, typed)) /\ last \in 0..Len(bank)
  BY DEF Inv, BalanceTypeOK, BankInv, AccountInv, Account
<1>2. ToldOf(bank, linked, read, typed) = {typed} BY DEF ToldOf
<1>3. linked' = TRUE BY DEF LinkSource
<1>4. SUFFICES Account' \in AccountType /\ LogFits(log') /\ AccountKeeps(Account', told)
               /\ AccountTrue(bank, now, Account')
  BY <1>1, <1>3, <1>4 DEF AccountInv
<1>5. CASE last = 0
  <2>1. Stated(Account) BY <1>5 DEF LinkSource
  <2>2. Account' = Account /\ log' = Account.log BY <2>1, <1>1, StatedIs
  <2>3. told = {typed}
    <3>1. \A j \in read : j \in 1..Len(bank) BY <1>1 DEF BankTypeOK
    <3>2. \A j \in read : bank[j].kind = "plain" BY <3>1, <1>1, <1>5 DEF CardKeeps
    <3> QED BY <3>2 DEF ToldOf
  <2> HIDE DEF told
  <2> QED BY <2>2, <2>3, <1>1, <1>2
<1>6. CASE last # 0
  <2>1. Stated(c) BY <1>6 DEF LinkSource
  <2>2. last \in read /\ bank[last].kind # "plain" /\ last \in DOMAIN bank /\ bank[last].got > 0
    BY <1>1, <1>6 DEF CardKeeps, AllGot
  <2>3. r \in StatementType /\ r.at = bank[last].got /\ r.at # 0 BY <1>1, <2>2, StatementFields
  <2>4. Orderly => IsTrue(bank, now, r) BY <1>1, <2>2, StatementTrue
  <2>5. {typed} \in SUBSET Nat /\ AccountKeeps(Account, {typed}) BY <1>1, <1>2
  <2>6. /\ c \in AccountType /\ LogFits(c.log) /\ AccountKeeps(c, {typed} \cup {r.at})
        /\ AccountTrue(bank, now, c)
    <3> HIDE DEF r
    <3> QED BY <1>1, <2>3, <2>4, <2>5, AddStep
  <2>7. \A j \in read : bank[j].kind # "plain" => bank[j].got <= r.at BY <1>1, <2>3 DEF CardKeeps
  <2>8. told = {bank[j].got : j \in {k \in read : bank[k].kind # "plain"}} \cup {typed} BY DEF ToldOf
  <2>9. r.at \in told /\ typed \in told BY <2>2, <2>3, <2>8
  <2>10. \A t \in told : t <= r.at \/ t = typed BY <2>7, <2>8
  <2>11. /\ c.reported.at \in {typed} \cup {r.at} /\ \A t \in {typed} \cup {r.at} : t <= c.reported.at
         /\ (c.reported.at = 0 => c.reported = None)
    BY <2>6 DEF AccountKeeps
  <2>12. Account' = c /\ log' = c.log BY <2>1, <2>6, StatedIs
  <2>13. AccountKeeps(c, told)
    <3>1. c.reported.at \in Nat /\ r.at \in Nat /\ typed \in Nat
      <4>1. r.at \in Nat BY <2>3 DEF StatementType
      <4> QED BY <4>1, <1>1, <2>11
    <3>2. \A t \in told : t \in Nat
      <4>1. told \in SUBSET Nat BY <1>1, ToldType
      <4> QED BY <4>1
    <3>3. r.at <= c.reported.at /\ typed <= c.reported.at BY <2>11
    <3>4. \A t \in told : t <= c.reported.at
      <4> HIDE DEF told, r, c
      <4> QED BY <2>10, <3>1, <3>2, <3>3
    <3>5. c.reported.at \in told BY <2>9, <2>11
    <3> HIDE DEF told, r, c
    <3> QED BY <2>11, <3>4, <3>5 DEF AccountKeeps
  <2> HIDE DEF told, c
  <2> QED BY <2>6, <2>12, <2>13
<1> QED BY <1>5, <1>6

LEMMA LinkInv == ASSUME BalanceAssumption, Inv, Link PROVE Inv'
<1>1. /\ ~linked /\ LinkSource /\ UNCHANGED <<now, bank, read, queue, last, rows, opening, typed>>
      /\ UNCHANGED <<now, bank, read, last, typed>>
  BY DEF Link
<1>2. BalanceTypeOK /\ BankTypeOK(bank) /\ BankInv /\ RowsKept(rows) /\ now \in Nat BY DEF Inv, BalanceTypeOK
<1>3. linked' \in BOOLEAN /\ Account' \in AccountType /\ LogFits(log') /\ AccountInv' BY <1>1, LinkStep
<1>4. BalanceTypeOK' BY <1>1, <1>2, <1>3 DEF BalanceTypeOK
<1>5. BankInv' BY <1>1, <1>2, BankSame
<1> QED BY <1>1, <1>2, <1>3, <1>4, <1>5 DEF Inv

\* a row of what the bank did, and one at a statement's moment
LEMMA RowFields ==
  ASSUME BalanceTypeOK, NEW at \in 1..Minutes, NEW timed \in BOOLEAN, timed \/ at <= now,
         NEW rial \in Int, NEW of \in Nat, Minutes \in Nat
  PROVE  LET r == Row(at, timed, rial, of)
         IN r \in BookRows /\ (r.timed \/ r.at <= r.added) /\ r.at = at /\ r.timed = timed /\ r.rial = rial
BY DEF Row, BookRows, BalanceTypeOK

LEMMA CommitInv ==
  ASSUME BalanceAssumption, Inv, NEW i \in queue, CommitStaged(i) PROVE Inv'
<1> DEFINE r == Row(bank[i].at, TRUE, bank[i].rial, i)
<1>1. /\ queue' = queue \ {i} /\ Push(r) /\ UNCHANGED <<now, bank, read, last, opening, typed>>
      /\ IF linked THEN UNCHANGED <<linked, reported, log>> ELSE LinkSource
  BY DEF CommitStaged
<1>2. /\ BalanceTypeOK /\ BankTypeOK(bank) /\ BankInv /\ AccountInv /\ RowsKept(rows) /\ now \in Nat
      /\ queue \subseteq DOMAIN bank /\ Account \in AccountType /\ LogFits(log) /\ linked \in BOOLEAN
      /\ Minutes \in Nat
  BY DEF Inv, BalanceTypeOK, BalanceAssumption
<1>3. bank[i].at \in 1..Minutes /\ bank[i].rial \in Int /\ i \in Nat
  <2>1. i \in DOMAIN bank BY <1>2
  <2>2. i \in 1..Len(bank) /\ bank[i].at \in 1..Minutes /\ bank[i].rial \in Int BY <1>2, <2>1, MessageFields
  <2> QED BY <2>2
<1>4. r \in BookRows /\ (r.timed \/ r.at <= r.added) BY <1>2, <1>3, RowFields
<1> HIDE DEF r
<1>5. rows' \in SUBSET BookRows /\ IsFiniteSet(rows') /\ Cardinality(rows') <= MaxRows /\ RowsKept(rows')
  BY <1>1, <1>2, <1>4, RowPushed
<1>6. linked' \in BOOLEAN /\ Account' \in AccountType /\ LogFits(log') /\ AccountInv'
  <2>1. CASE linked
    <3>1. UNCHANGED <<now, bank, read, linked, last, reported, log, typed>> BY <1>1, <2>1
    <3>2. Account' = Account /\ AccountInv' BY <1>2, <3>1, AccountSame
    <3> QED BY <1>2, <3>1, <3>2
  <2>2. CASE ~linked BY <1>1, <2>2, LinkStep
  <2> QED BY <2>1, <2>2
<1>7. BalanceTypeOK' BY <1>1, <1>2, <1>5, <1>6 DEF BalanceTypeOK
<1>8. BankInv' BY <1>1, <1>2, BankSame
<1> QED BY <1>5, <1>6, <1>7, <1>8 DEF Inv

LEMMA DismissInv ==
  ASSUME BalanceAssumption, Inv, NEW i \in queue, DismissStaged(i) PROVE Inv'
<1>1. queue' = queue \ {i} /\ UNCHANGED <<now, bank, read, linked, last, rows, opening, reported, log, typed>>
  BY DEF DismissStaged, account
<1>2. BalanceTypeOK /\ BankTypeOK(bank) /\ BankInv /\ AccountInv /\ RowsKept(rows) /\ now \in Nat
  BY DEF Inv, BalanceTypeOK
<1>3. UNCHANGED <<now, bank, read, linked, last, reported, log, typed>> BY <1>1
<1>4. Account' = Account /\ AccountInv' BY <1>2, <1>3, AccountSame
<1>5. BalanceTypeOK' BY <1>1, <1>2, <1>4 DEF BalanceTypeOK
<1>6. BankInv' BY <1>1, <1>2, BankSame
<1> QED BY <1>1, <1>2, <1>4, <1>5, <1>6 DEF Inv

\* a row more, and nothing else
LEMMA PushInv ==
  ASSUME BalanceAssumption, Inv, NEW r \in BookRows, r.timed \/ r.at <= r.added, Push(r),
         UNCHANGED <<now, bank, read, queue, linked, last, opening, reported, log, typed>>
  PROVE  Inv'
<1>1. BalanceTypeOK /\ BankTypeOK(bank) /\ BankInv /\ AccountInv /\ RowsKept(rows) /\ now \in Nat
  BY DEF Inv, BalanceTypeOK
<1>2. rows' \in SUBSET BookRows /\ IsFiniteSet(rows') /\ Cardinality(rows') <= MaxRows /\ RowsKept(rows')
  BY <1>1, RowPushed
<1>3. Account' = Account /\ AccountInv' BY <1>1, AccountSame
<1>4. BalanceTypeOK' BY <1>1, <1>2, <1>3 DEF BalanceTypeOK
<1>5. BankInv' BY <1>1, BankSame
<1> QED BY <1>2, <1>3, <1>4, <1>5 DEF Inv

LEMMA TypeRowInv ==
  ASSUME BalanceAssumption, Inv, NEW i \in DOMAIN bank, TypeRow(i) PROVE Inv'
<1> DEFINE r == Row(bank[i].at, FALSE, bank[i].rial, i)
<1>1. Push(r) /\ UNCHANGED <<now, bank, read, queue, linked, last, opening, reported, log, typed>>
  BY DEF TypeRow, account
<1>2. BalanceTypeOK /\ BankTypeOK(bank) /\ bank[i].at <= now /\ Minutes \in Nat
  BY DEF Inv, BalanceTypeOK, BankInv, InOrder, BalanceAssumption
<1>3. bank[i].at \in 1..Minutes /\ bank[i].rial \in Int /\ i \in 1..Len(bank) BY <1>2, MessageFields
<1>4. i \in Nat BY <1>3
<1>5. r \in BookRows /\ (r.timed \/ r.at <= r.added) BY <1>2, <1>3, <1>4, RowFields
<1> HIDE DEF r
<1> QED BY <1>1, <1>5, PushInv

\* the row of an answer: at the bank's moment
LEMMA MissingIs ==
  ASSUME BalanceAssumption, BalanceTypeOK, AccountInv, reported # None, NEW rial \in Int
  PROVE  LET r == MissingRow(reported, rial)
         IN /\ r \in BookRows /\ (r.timed \/ r.at <= r.added)
            /\ r.at = reported.at /\ r.timed /\ r.rial = rial /\ reported.at \in 1..Minutes
<1>1. reported \in StatementType /\ Account.reported = reported BY AccountTypes
<1>2. reported.at \in 0..Minutes /\ Minutes \in Nat BY <1>1 DEF StatementType, BalanceAssumption
<1>3. reported.at # 0 BY <1>1 DEF AccountInv, AccountKeeps
<1>4. reported.at \in 1..Minutes BY <1>2, <1>3
<1> DEFINE r == Row(reported.at, TRUE, rial, 0)
<1>6. r \in BookRows /\ (r.timed \/ r.at <= r.added) /\ r.at = reported.at /\ r.timed = TRUE /\ r.rial = rial
  BY <1>2, <1>4 DEF Row, BookRows
<1>7. MissingRow(reported, rial) = r BY DEF MissingRow
<1> HIDE DEF r
<1> QED BY <1>4, <1>6, <1>7

LEMMA BookMissingInv ==
  ASSUME BalanceAssumption, Inv, BookMissing PROVE Inv'
<1> DEFINE r == MissingRow(reported, DiffRial)
<1>1. /\ Push(r) /\ reported # None
      /\ UNCHANGED <<now, bank, read, queue, linked, last, opening, reported, log, typed>>
  BY DEF BookMissing, account, Asked, MonthCheck
<1>2. BalanceTypeOK /\ AccountInv BY DEF Inv
<1>3. DiffRial \in Int BY <1>2, CheckTypes
<1>4. r \in BookRows /\ (r.timed \/ r.at <= r.added) BY <1>1, <1>2, <1>3, MissingIs
<1> HIDE DEF r
<1> QED BY <1>1, <1>4, PushInv

\* another opening balance, and nothing else
LEMMA OpeningInv ==
  ASSUME BalanceAssumption, Inv, opening' \in Int,
         UNCHANGED <<bank, read, queue, linked, last, rows, reported, log, typed>>,
         now' \in 0..Minutes, now <= now'
  PROVE  Inv'
<1>1. /\ BalanceTypeOK /\ BankTypeOK(bank) /\ BankInv /\ AccountInv /\ RowsKept(rows) /\ now \in Nat
      /\ now' \in Nat /\ typed \in 0..Minutes
  BY DEF Inv, BalanceTypeOK
<1>2. Account' = Account /\ UNCHANGED <<bank, read, linked, last, typed>> BY DEF Account
<1>3. AccountTrue(bank, now', Account) BY <1>1, AccountLater DEF AccountInv
<1>4. typed <= now' BY <1>1 DEF AccountInv
<1>5. AccountInv' BY <1>1, <1>2, <1>3, <1>4 DEF AccountInv
<1>6. BalanceTypeOK' BY <1>1, <1>2 DEF BalanceTypeOK
<1>7. BankInv' BY <1>1, BankSame
<1> QED BY <1>1, <1>5, <1>6, <1>7 DEF Inv

LEMMA FixStartInv == ASSUME BalanceAssumption, Inv, FixStart PROVE Inv'
<1>1. /\ opening' = opening + DiffRial
      /\ UNCHANGED <<now, bank, read, queue, linked, last, rows, reported, log, typed>>
  BY DEF FixStart
<1>2. BalanceTypeOK /\ opening \in Int /\ now \in 0..Minutes BY DEF Inv, BalanceTypeOK
<1>3. opening' \in Int BY <1>1, <1>2, CheckTypes
<1>4. now' \in 0..Minutes /\ now <= now' BY <1>1, <1>2
<1> QED BY <1>1, <1>3, <1>4, OpeningInv

LEMMA SetCurrentInv ==
  ASSUME BalanceAssumption, Inv, NEW t \in Later, SetCurrentBalance(t) PROVE Inv'
<1>1. /\ BalanceTypeOK /\ BankTypeOK(bank) /\ BankInv /\ AccountInv /\ RowsKept(rows) /\ now \in 0..Minutes
      /\ Account \in AccountType /\ LogFits(Account.log) /\ typed \in 0..Minutes /\ opening \in Int
      /\ read \in SUBSET (DOMAIN bank)
  BY DEF Inv, BalanceTypeOK, Account
<1>2. t \in 1..Minutes /\ now <= t /\ (Apart => now < t) BY <1>1, LaterIs
<1>3. now' = t /\ UNCHANGED <<bank, read, queue, linked, last, rows>> BY DEF SetCurrentBalance
<1>4. Held = HeldOf(bank) /\ HeldOf(bank) \in Int BY <1>1, HeldIs, HeldType
<1>5. CASE reported = None
  <2>1. opening' = opening + Held - BalanceOf /\ UNCHANGED <<reported, log, typed>>
    BY <1>5 DEF SetCurrentBalance
  <2>2. BalanceOf \in Int BY <1>1, CheckTypes
  <2>3. opening' \in Int BY <1>1, <1>4, <2>1, <2>2
  <2>4. now' \in 0..Minutes /\ now <= now' BY <1>1, <1>2, <1>3
  <2>5. UNCHANGED <<bank, read, queue, linked, last, rows, reported, log, typed>> BY <1>3, <2>1
  <2> QED BY <2>3, <2>4, <2>5, OpeningInv
<1>6. CASE reported # None
  <2> DEFINE r == [at |-> t, rial |-> Held]
             c == AddReported(Account, r)
             told == ToldOf(bank, linked, read, typed)
  <2>1. Stated(c) /\ typed' = t /\ UNCHANGED opening BY <1>6 DEF SetCurrentBalance
  <2>2. r \in StatementType /\ r.at = t /\ r.at # 0 BY <1>2, <1>4 DEF StatementType
  <2>3. \A i \in DOMAIN bank : bank[i].at <= t /\ bank[i].got <= t
    <3>1. \A i \in DOMAIN bank : /\ bank[i].at <= now /\ bank[i].at \in 1..Minutes
                                /\ bank[i].got <= now /\ bank[i].got \in 0..Minutes
      BY <1>1, MessageFields DEF BankInv, InOrder
    <3> QED BY <1>1, <1>2, <3>1
  <2>4. IsTrue(bank, t, r) BY <1>1, <1>2, <1>4, <2>3, TrueNow
  <2>5. told \in SUBSET Nat BY <1>1, ToldType
  <2>6. AccountTrue(bank, t, Account) /\ AccountKeeps(Account, told)
    <3>1. AccountTrue(bank, now, Account) /\ now \in Nat /\ t \in Nat BY <1>1, <1>2 DEF AccountInv
    <3> QED BY <1>1, <1>2, <3>1, AccountLater DEF AccountInv
  <2> HIDE DEF r, told
  <2>7. /\ c \in AccountType /\ LogFits(c.log) /\ AccountKeeps(c, told \cup {r.at})
        /\ AccountTrue(bank, t, c)
    BY <1>1, <2>2, <2>4, <2>5, <2>6, AddStep
  <2>8. Account' = c /\ log' = c.log BY <2>1, <2>7, StatedIs
  <2>9. AccountKeeps(c, ToldOf(bank, linked, read, t))
    <3> DEFINE told2 == ToldOf(bank, linked, read, t)
    <3>1. told2 \subseteq told \cup {r.at} /\ r.at \in told2 BY <2>2 DEF ToldOf, told
    <3>2. \A x \in told : x <= t
      <4>1. \A j \in read : bank[j].got <= t BY <1>1, <2>3
      <4>2. typed <= t BY <1>1, <1>2 DEF AccountInv
      <4> QED BY <4>1, <4>2 DEF told, ToldOf
    <3>3. /\ c.reported.at \in told \cup {r.at} /\ \A x \in told \cup {r.at} : x <= c.reported.at
          /\ (c.reported.at = 0 => c.reported = None)
      BY <2>7 DEF AccountKeeps
    <3>4. t \in Nat /\ told \cup {r.at} \subseteq Nat BY <1>2, <2>2, <2>5
    <3>5. c.reported.at = r.at
      <4>1. c.reported.at \in Nat /\ r.at <= c.reported.at /\ c.reported.at <= r.at BY <2>2, <3>2, <3>3, <3>4
      <4> QED BY <4>1, <2>2, <3>4
    <3> HIDE DEF told2, c
    <3> QED BY <3>1, <3>3, <3>5 DEF AccountKeeps, told2
  <2> HIDE DEF c
  <2>10. AccountInv'
    <3>1. typed' <= now' BY <1>2, <1>3, <2>1
    <3>2. AccountKeeps(Account', ToldOf(bank', linked', read', typed')) BY <1>3, <2>1, <2>8, <2>9
    <3>3. AccountTrue(bank', now', Account') BY <1>3, <2>7, <2>8
    <3>4. CardKeeps(bank', last', read') /\ AllGot(bank', read') BY <1>1, <1>3 DEF AccountInv
    <3> QED BY <3>1, <3>2, <3>3, <3>4 DEF AccountInv
  <2>11. BalanceTypeOK'
    <3>1. now' \in 0..Minutes /\ typed' \in 0..Minutes BY <1>2, <1>3, <2>1
    <3>2. Account' \in AccountType /\ LogFits(log') BY <2>7, <2>8
    <3> QED BY <1>1, <1>3, <2>1, <3>1, <3>2 DEF BalanceTypeOK
  <2>12. BankInv'
    <3>1. now \in Nat /\ now' \in Nat /\ now <= now' BY <1>1, <1>2, <1>3
    <3> QED BY <1>1, <1>3, <3>1, BankSame
  <2> QED BY <1>1, <1>3, <2>10, <2>11, <2>12 DEF Inv
<1> QED BY <1>5, <1>6

LEMMA NextInv == BalanceAssumption /\ Inv /\ [Next]_vars => Inv'
<1> SUFFICES ASSUME BalanceAssumption, Inv, [Next]_vars PROVE Inv' OBVIOUS
<1>1. CASE UNCHANGED vars
  <2>1. UNCHANGED <<now, bank, read, queue, linked, last, rows, opening, reported, log, typed>>
    BY <1>1 DEF vars, account
  <2> QED BY <2>1 DEF Inv, BalanceTypeOK, BankInv, AccountInv, Account
<1>2. ASSUME Len(bank) < Len(Messages), NEW t \in Later, NEW m \in Messages[Len(bank) + 1], Move(t, m)
      PROVE  Inv'
  BY <1>2, MoveInv
<1>3. ASSUME NEW S \in SUBSET (DOMAIN bank \ read), Read(S) PROVE Inv' BY <1>3, ReadInv
<1>4. ASSUME Link PROVE Inv' BY <1>4, LinkInv
<1>5. ASSUME NEW i \in queue, CommitStaged(i) PROVE Inv' BY <1>5, CommitInv
<1>6. ASSUME NEW i \in queue, DismissStaged(i) PROVE Inv' BY <1>6, DismissInv
<1>7. ASSUME NEW i \in DOMAIN bank, TypeRow(i) PROVE Inv' BY <1>7, TypeRowInv
<1>8. ASSUME NEW t \in Later, SetCurrentBalance(t) PROVE Inv' BY <1>8, SetCurrentInv
<1>9. ASSUME BookMissing PROVE Inv' BY <1>9, BookMissingInv
<1>10. ASSUME FixStart PROVE Inv' BY <1>10, FixStartInv
<1>11. ASSUME NEW i \in DOMAIN bank, NEW t \in Later, Receive(i, t) PROVE Inv' BY <1>11, ReceiveInv
<1> QED BY <1>1, <1>2, <1>3, <1>4, <1>5, <1>6, <1>7, <1>8, <1>9, <1>10, <1>11 DEF Next

LEMMA InvAlways == ASSUME BalanceAssumption PROVE Spec => []Inv
<1>1. Init => Inv BY InitInv
<1>2. Inv /\ [Next]_vars => Inv' BY NextInv
<1> QED BY <1>1, <1>2, PTL DEF Spec

---------------------------------------------------------------------------
(* What a statement counts: by its minute *)

LEMMA Days ==
  ASSUME BalanceAssumption, NEW a \in Int, NEW b \in Int, a <= b PROVE Day(a) \in Int /\ Day(a) <= Day(b)
<1> DEFINE D == DayLength
           x == a - 1
           y == b - 1
           p == x \div D
           q == y \div D
<1>1. D \in Nat \ {0} /\ x \in Int /\ y \in Int /\ x <= y BY DEF BalanceAssumption
<1> HIDE DEF D, x, y
<1>2. /\ p \in Int /\ x = D * p + (x % D) /\ x % D \in 0..D - 1
      /\ q \in Int /\ y = D * q + (y % D) /\ y % D \in 0..D - 1
  BY <1>1
<1>3. p <= q
  <2> SUFFICES ASSUME q < p PROVE FALSE BY <1>2
  <2>1. D * (q + 1) <= D * p
    <3>1. q + 1 <= p BY <1>2
    <3> HIDE DEF p, q
    <3> QED BY <1>1, <1>2, <3>1
  <2> DEFINE u == D * p
             v == D * q
             c == x % D
             d == y % D
  <2>2. u \in Int /\ v \in Int /\ D * (q + 1) = v + D BY <1>1, <1>2
  <2>3. v + D <= u BY <2>1, <2>2
  <2>4. x = u + c /\ c \in 0..D - 1 /\ y = v + d /\ d \in 0..D - 1 BY <1>2
  <2> HIDE DEF u, v, c, d, p, q
  <2> QED BY <1>1, <2>2, <2>3, <2>4
<1> QED BY <1>2, <1>3 DEF Day, D, x, y

LEMMA DayOrder ==
  ASSUME BalanceAssumption, NEW a \in Int, NEW b \in Int
  PROVE  /\ Day(a) \in Int /\ Day(b) \in Int
         /\ a <= b => Day(a) <= Day(b)
         /\ b <= a => Day(b) <= Day(a)
<1>1. CASE a <= b
  <2>1. Day(a) \in Int /\ Day(b) \in Int /\ Day(a) <= Day(b)
    <3>1. b <= b OBVIOUS
    <3> QED BY <1>1, <3>1, Days
  <2>2. b <= a => a = b BY <1>1
  <2> QED BY <2>1, <2>2
<1>2. CASE b <= a /\ a # b
  <2>1. Day(a) \in Int /\ Day(b) \in Int /\ Day(b) <= Day(a)
    <3>1. a <= a OBVIOUS
    <3> QED BY <1>2, <3>1, Days
  <2>2. ~(a <= b) BY <1>2
  <2> QED BY <2>1, <2>2
<1> QED BY <1>1, <1>2

\* With no row misplaced, a statement counts the rows until its minute.
LEMMA BookedIs ==
  ASSUME BalanceAssumption, BalanceTypeOK, RowsKept(rows), NEW R \in StatementType, Misplaced(R) = {},
         NEW t \in rows
  PROVE  BookedBy(t, R) <=> t.at <= R.at
<1>1. t \in BookRows /\ (t.timed \/ t.at <= t.added) BY DEF BalanceTypeOK, RowsKept
<1>2. t.at \in Int /\ t.added \in Int /\ t.timed \in BOOLEAN /\ R.at \in Int
  BY <1>1 DEF BookRows, StatementType
<1>3. ~(~t.timed /\ Day(t.at) = Day(R.at) /\ t.at <= R.at /\ t.added >= R.at) BY DEF Misplaced
<1>4. /\ Day(t.at) \in Int /\ Day(R.at) \in Int
      /\ t.at <= R.at => Day(t.at) <= Day(R.at)
      /\ R.at <= t.at => Day(R.at) <= Day(t.at)
  BY <1>2, DayOrder
<1> QED BY <1>1, <1>2, <1>3, <1>4 DEF BookedBy

\* A row with a time always counts by it.
LEMMA TimedBooked ==
  ASSUME BalanceAssumption, NEW t, t.timed, t.at \in Int, NEW R \in StatementType
  PROVE  BookedBy(t, R) <=> t.at <= R.at
<1>1. R.at \in Int BY DEF StatementType
<1>2. /\ Day(t.at) \in Int /\ Day(R.at) \in Int
      /\ t.at <= R.at => Day(t.at) <= Day(R.at)
      /\ R.at <= t.at => Day(R.at) <= Day(t.at)
  BY <1>1, DayOrder
<1> QED BY <1>1, <1>2 DEF BookedBy

\* What moved between two minutes is what moved after the one, less what moved after the other.
LEMMA MovedSplit ==
  ASSUME BankTypeOK(bank), NEW a \in Int, NEW b \in Int, a <= b
  PROVE  /\ MovedIn(a, b) = SumOf(bank, After(bank, a)) - SumOf(bank, After(bank, b))
         /\ SumOf(bank, After(bank, a)) \in Int /\ SumOf(bank, After(bank, b)) \in Int
<1> DEFINE S == {i \in DOMAIN bank : a < bank[i].at /\ bank[i].at <= b}
           T == After(bank, b)
<1>1. S \in SUBSET (DOMAIN bank) /\ T \in SUBSET (DOMAIN bank) BY DEF After
<1>2. \A i \in DOMAIN bank : bank[i].at \in Int
  <2> TAKE i \in DOMAIN bank
  <2>1. bank[i].at \in 1..Minutes BY MessageFields
  <2> QED BY <2>1
<1>3. After(bank, a) = S \cup T BY <1>2 DEF After
<1>4. S \cap T = {} BY <1>2 DEF After
<1> DEFINE m == SumOf(bank, S)
           n == SumOf(bank, T)
<1>5. MovedIn(a, b) = m BY MovedIs DEF MovedIn
<1> HIDE DEF S, T
<1>6. IsFiniteSet(S) /\ m \in Int /\ IsFiniteSet(T) /\ n \in Int
      /\ (\A i \in S : bank[i].rial \in Int) /\ (\A i \in T : bank[i].rial \in Int)
  BY <1>1, BankFinite
<1>7. SumOf(bank, S \cup T) = m + n BY <1>4, <1>6, SumOfUnion
<1> QED BY <1>3, <1>5, <1>6, <1>7 DEF T

\* All of it after the beginning, and nothing after the end.
LEMMA MovedEnds ==
  ASSUME BalanceAssumption, BankTypeOK(bank)
  PROVE  /\ After(bank, 0) = DOMAIN bank /\ After(bank, Minutes) = {}
         /\ SumOf(bank, After(bank, Minutes)) = 0
<1>1. \A i \in DOMAIN bank : bank[i].at \in 1..Minutes BY MessageFields
<1>2. Minutes \in Nat BY DEF BalanceAssumption
<1>3. \A i \in DOMAIN bank : 0 < bank[i].at /\ ~(Minutes < bank[i].at) BY <1>1, <1>2
<1>4. After(bank, 0) = DOMAIN bank BY <1>3 DEF After
<1>5. After(bank, Minutes) = {} BY <1>3 DEF After
<1> QED BY <1>4, <1>5, SumOfNone

\* The statement kept is of the newest moment told.
LEMMA NewestIs == Inv => Newest = reported.at
<1> SUFFICES ASSUME Inv PROVE Newest = reported.at OBVIOUS
<1> DEFINE told == ToldOf(bank, linked, read, typed)
<1>1. BankTypeOK(bank) /\ read \in SUBSET (DOMAIN bank) /\ typed \in 0..Minutes BY DEF Inv, BalanceTypeOK
<1>2. told \in SUBSET Nat BY <1>1, ToldType
<1>3. reported.at \in told /\ \A t \in told : t <= reported.at
  BY DEF Inv, AccountInv, AccountKeeps, Account
<1>4. Newest = Max(told) BY ToldIs DEF Newest
<1> HIDE DEF told
<1>5. reported.at \in Nat /\ \A t \in told : t \in Nat BY <1>2, <1>3
<1>6. \A t \in told : reported.at >= t BY <1>3, <1>5
<1>7. Max(told) \in told /\ Max(told) >= reported.at BY <1>3, <1>6 DEF Max
<1>8. Max(told) \in Nat /\ Max(told) <= reported.at BY <1>3, <1>5, <1>7
<1> QED BY <1>4, <1>5, <1>7, <1>8

LEMMA ReportedTrue ==
  ASSUME Inv, Orderly, reported # None
  PROVE  reported.at \in 1..now /\ reported.rial = HeldOf(bank) - SumOf(bank, After(bank, reported.at))
BY DEF Inv, AccountInv, AccountTrue, IsTrue, Account

LEMMA ShownHolds == BalanceAssumption /\ Orderly /\ Inv => ShownIsBank
<1> SUFFICES ASSUME BalanceAssumption, Orderly, Inv, Newest > 0, Misplaced(reported) = {}
             PROVE  BalanceOf = Held - MovedIn(Newest, Minutes) + BookedIn(Newest, Minutes)
  BY DEF ShownIsBank
<1>1. BalanceTypeOK /\ BankTypeOK(bank) /\ RowsKept(rows) BY DEF Inv, BalanceTypeOK
<1>2. reported \in StatementType BY <1>1, AccountTypes
<1>3. Newest = reported.at BY NewestIs
<1>4. reported # None BY <1>3 DEF None
<1> DEFINE n == reported.at
<1>5. n \in 0..Minutes /\ Minutes \in Nat BY <1>2 DEF StatementType, BalanceAssumption
<1>6. reported.rial = HeldOf(bank) - SumOf(bank, After(bank, n)) BY <1>4, ReportedTrue
<1>7. MovedIn(n, Minutes) = SumOf(bank, After(bank, n)) /\ SumOf(bank, After(bank, n)) \in Int
  <2>1. n \in Int /\ Minutes \in Int /\ n <= Minutes BY <1>5
  <2>2. /\ MovedIn(n, Minutes) = SumOf(bank, After(bank, n)) - SumOf(bank, After(bank, Minutes))
        /\ SumOf(bank, After(bank, n)) \in Int
    <3> HIDE DEF n
    <3> QED BY <1>1, <2>1, MovedSplit
  <2>3. SumOf(bank, After(bank, Minutes)) = 0 BY <1>1, MovedEnds
  <2> QED BY <2>2, <2>3
<1> DEFINE A == {t \in rows : ~BookedBy(t, reported)}
           B == {t \in rows : n < t.at /\ t.at <= Minutes}
<1>8. A = B
  <2>1. \A t \in rows : BookedBy(t, reported) <=> t.at <= n BY <1>1, <1>2, BookedIs
  <2>2. \A t \in rows : t.at \in 1..Minutes BY <1>1 DEF BalanceTypeOK, BookRows
  <2> QED BY <2>1, <2>2, <1>5
<1>9. BalanceOf = reported.rial + Rows(A) BY <1>4 DEF BalanceOf
<1>10. BookedIn(n, Minutes) = Rows(B) BY DEF BookedIn
<1>11. Rows(B) \in Int
  <2>1. B \in SUBSET rows OBVIOUS
  <2> QED BY <1>1, <2>1, RowsIn
<1>12. Held = HeldOf(bank) /\ HeldOf(bank) \in Int BY <1>1, HeldIs, HeldType
<1> HIDE DEF A, B, n
<1> QED BY <1>3, <1>6, <1>7, <1>8, <1>9, <1>10, <1>11, <1>12 DEF n

---------------------------------------------------------------------------
(* What the check finds missing *)

\* the rows and the queue counted, in minutes
LEMMA PendingIs ==
  ASSUME BalanceAssumption, BalanceTypeOK, linked, NEW i \in queue
  PROVE  i \in Pending <=> ~BeforeMonth(bank[i].at) /\ bank[i].at <= reported.at
<1>1. i \in DOMAIN bank /\ BankTypeOK(bank) /\ reported \in StatementType
  BY AccountTypes DEF BalanceTypeOK
<1>2. bank[i].at \in Int
  <2>1. bank[i].at \in 1..Minutes BY <1>1, MessageFields
  <2> QED BY <2>1
<1>3. InQueue(i).timed /\ InQueue(i).at = bank[i].at BY DEF InQueue
<1>4. BookedBy(InQueue(i), reported) <=> InQueue(i).at <= reported.at BY <1>1, <1>2, <1>3, TimedBooked
<1> QED BY <1>3, <1>4 DEF Pending

\* What the bank stated of the beginning of the check is what it held: the last
\* word before the month, or the opening balance.
PriorRial == IF Prior = None THEN Opening ELSE Prior.rial
LEMMA PriorTrue ==
  ASSUME BalanceAssumption, Inv, Orderly, reported # None
  PROVE  /\ Prior.at \in 0..reported.at /\ PriorRial \in Int
         /\ PriorRial = HeldOf(bank) - SumOf(bank, After(bank, Prior.at))
         /\ Prior # None => InMonth(reported.at) /\ Prior.at < MonthStart
<1>1. /\ BalanceTypeOK /\ BankTypeOK(bank) /\ log \in Seq(StatementType) /\ Account.log = log
      /\ reported \in StatementType /\ Minutes \in Nat /\ MonthStart \in Nat /\ AddsUp(bank)
      /\ AccountTrue(bank, now, Account) /\ Opening \in Int
  BY AccountTypes DEF Inv, BalanceTypeOK, BankInv, AccountInv, BalanceAssumption
<1>2. reported.at \in Nat BY <1>1 DEF StatementType
<1>3. CASE Prior = None
  <2>1. Prior.at = 0 /\ PriorRial = Opening BY <1>3 DEF None, PriorRial
  <2>2. After(bank, 0) = DOMAIN bank BY <1>1, MovedEnds
  <2>3. HeldOf(bank) = Opening + SumOf(bank, DOMAIN bank) BY <1>1 DEF AddsUp
  <2>4. SumOf(bank, DOMAIN bank) \in Int BY <1>1, BankFinite
  <2> QED BY <2>1, <2>2, <2>3, <2>4, <1>1, <1>2, <1>3
<1>4. CASE Prior # None
  <2>1. Prior \in StatementType BY <1>1, PriorIs
  <2>2. PICK i \in DOMAIN log : Prior = log[i] /\ BeforeMonth(log[i].at) BY <1>1, <1>4, PriorIs
  <2>3. IsTrue(bank, now, Prior) BY <1>1, <2>2 DEF AccountTrue
  <2>4. InMonth(reported.at) /\ ~InMonth(Prior.at) BY <2>2 DEF BeforeMonth
  <2>5. Prior.at \in Nat /\ Prior.rial \in Int BY <2>1 DEF StatementType
  <2>6. Prior.at < MonthStart /\ MonthStart <= reported.at BY <2>4, <2>5, <1>1, <1>2 DEF InMonth
  <2>7. Prior.at \in 0..reported.at BY <2>5, <2>6, <1>1, <1>2
  <2>8. PriorRial = Prior.rial BY <1>4 DEF PriorRial
  <2> QED BY <2>3, <2>4, <2>5, <2>6, <2>7, <2>8 DEF IsTrue
<1> QED BY <1>3, <1>4

\* The rows before the month, after the prior word, and those of the month until the statement:
\* together the rows between the two.
LEMMA CheckedRows ==
  ASSUME BalanceAssumption, Inv, Orderly, reported # None, Misplaced(reported) = {}, Misplaced(Prior) = {}
  PROVE  StartRial + BookedRial =
           (IF Prior = None THEN opening ELSE Prior.rial) + BookedIn(Prior.at, reported.at)
<1> DEFINE p == Prior.at
           n == reported.at
           A == IF Prior = None THEN {t \in rows : BeforeMonth(t.at)}
                ELSE {t \in rows : BeforeMonth(t.at) /\ ~BookedBy(t, Prior)}
           B == {t \in rows : ~BeforeMonth(t.at) /\ BookedBy(t, reported)}
           C == {t \in rows : p < t.at /\ t.at <= n}
           base == IF Prior = None THEN opening ELSE Prior.rial
<1>1. BalanceTypeOK /\ RowsKept(rows) /\ reported \in StatementType /\ MonthStart \in Nat /\ opening \in Int
  BY AccountTypes DEF Inv, BalanceTypeOK, BalanceAssumption
<1>2. Prior \in StatementType BY <1>1, CheckTypes
<1>3. \A t \in rows : t.at \in Nat /\ t.at > 0
  <2>1. \A t \in rows : t.at \in 1..Minutes BY <1>1 DEF BalanceTypeOK, BookRows
  <2> QED BY <2>1
<1>4. /\ p \in Nat /\ n \in Nat /\ p <= n
      /\ Prior # None => InMonth(n) /\ p < MonthStart
      /\ Prior = None => p = 0
  <2>1. Prior.at \in 0..reported.at /\ (Prior # None => InMonth(reported.at) /\ Prior.at < MonthStart)
    BY PriorTrue
  <2>2. reported.at \in Nat BY <1>1 DEF StatementType
  <2>3. Prior = None => Prior.at = 0 BY DEF None
  <2> QED BY <2>1, <2>2, <2>3
<1>5. \A t \in rows : (BookedBy(t, reported) <=> t.at <= n) /\ (BookedBy(t, Prior) <=> t.at <= p)
  BY <1>1, <1>2, BookedIs
<1>6. StartRial = base + Rows(A) BY DEF StartRial
<1>7. BookedRial = Rows(B) BY DEF BookedRial
<1>8. A \cap B = {}
  <2>1. \A t \in A : BeforeMonth(t.at) OBVIOUS
  <2>2. \A t \in B : ~BeforeMonth(t.at) OBVIOUS
  <2> HIDE DEF A, B
  <2> QED BY <2>1, <2>2
<1>9. A \cup B = C
  <2>1. ASSUME NEW t \in rows PROVE t \in A \/ t \in B <=> t \in C
    <3>1. t.at \in Nat /\ t.at > 0 BY <1>3
    <3>2. (BookedBy(t, reported) <=> t.at <= n) /\ (BookedBy(t, Prior) <=> t.at <= p) BY <1>5
    <3>3. BeforeMonth(t.at) <=> n >= MonthStart /\ t.at < MonthStart BY <1>1, <1>4, <3>1 DEF BeforeMonth, InMonth
    <3>4. Prior # None => n >= MonthStart /\ p < MonthStart BY <1>4 DEF InMonth
    <3>5. t \in B <=> ~(n >= MonthStart /\ t.at < MonthStart) /\ t.at <= n BY <3>2, <3>3
    <3>6. t \in C <=> p < t.at /\ t.at <= n OBVIOUS
    <3>7. CASE Prior = None
      <4>1. t \in A <=> n >= MonthStart /\ t.at < MonthStart BY <3>3, <3>7
      <4>2. p = 0 BY <1>4, <3>7
      <4> HIDE DEF A, B, C, p, n
      <4> QED BY <4>1, <4>2, <3>1, <3>5, <3>6, <1>1, <1>4
    <3>8. CASE Prior # None
      <4>1. t \in A <=> (n >= MonthStart /\ t.at < MonthStart) /\ ~(t.at <= p) BY <3>2, <3>3, <3>8
      <4>2. n >= MonthStart /\ p < MonthStart BY <3>4, <3>8
      <4> HIDE DEF A, B, C, p, n
      <4> QED BY <4>1, <4>2, <3>1, <3>5, <3>6, <1>1, <1>4
    <3> QED BY <3>7, <3>8
  <2>2. A \subseteq rows /\ B \subseteq rows /\ C \subseteq rows OBVIOUS
  <2> HIDE DEF A, B, C
  <2> QED BY <2>1, <2>2
<1>10. A \in SUBSET rows /\ B \in SUBSET rows OBVIOUS
<1>11. BookedIn(p, n) = Rows(C) BY DEF BookedIn
<1>12. base \in Int BY <1>1, <1>2 DEF StatementType
<1> HIDE DEF A, B, C, p, n, base
<1>13. IsFiniteSet(A) /\ IsFiniteSet(B) /\ Rows(A) \in Int /\ Rows(B) \in Int /\ \A t \in A \cup B : t.rial \in Int
  BY <1>1, <1>10, RowsIn
<1>14. Rows(A \cup B) = Rows(A) + Rows(B) BY <1>8, <1>13, RowsUnion
<1>15. Rows(C) = Rows(A) + Rows(B) BY <1>9, <1>14
<1>16. Rows(A) \in Int /\ Rows(B) \in Int BY <1>13
<1>17. StartRial + BookedRial = base + Rows(C) BY <1>6, <1>7, <1>12, <1>15, <1>16
<1> QED BY <1>11, <1>17 DEF p, n, base

LEMMA DiffHolds == BalanceAssumption /\ Orderly /\ Inv => DiffIsMissing
<1> DEFINE waits == {i \in queue : linked /\ bank[i].at > Prior.at /\ bank[i].at <= reported.at}
           known == {i \in waits : bank[i].kind # "unclear"}
           start == IF Prior = None THEN opening - Opening ELSE 0
<1> SUFFICES ASSUME BalanceAssumption, Orderly, Inv, reported # None,
                    Misplaced(reported) = {}, Misplaced(Prior) = {}, known \subseteq Pending
             PROVE  DiffRial = MovedIn(Prior.at, reported.at) - BookedIn(Prior.at, reported.at)
                                 - Moved(known) - start
  BY DEF DiffIsMissing, MonthCheck
<1>1. /\ BalanceTypeOK /\ BankTypeOK(bank) /\ reported \in StatementType /\ opening \in Int /\ Opening \in Int
      /\ queue \subseteq DOMAIN bank /\ MonthStart \in Nat
  BY AccountTypes DEF Inv, BalanceTypeOK, BalanceAssumption
<1> DEFINE p == Prior.at
           n == reported.at
           base == IF Prior = None THEN opening ELSE Prior.rial
           after(a) == SumOf(bank, After(bank, a))
<1>2. /\ p \in 0..n /\ PriorRial \in Int /\ PriorRial = HeldOf(bank) - after(p)
      /\ (Prior # None => InMonth(n) /\ p < MonthStart)
  BY PriorTrue
<1>3. reported.rial = HeldOf(bank) - after(n) BY ReportedTrue
<1>4. HeldOf(bank) \in Int BY <1>1, HeldType
<1>5. MovedIn(p, n) = after(p) - after(n) /\ after(p) \in Int /\ after(n) \in Int
  <2>1. p \in Int /\ n \in Int /\ p <= n
    <3>1. n \in Nat BY <1>1 DEF StatementType
    <3> QED BY <1>2, <3>1
  <2> HIDE DEF p, n
  <2> QED BY <1>1, <2>1, MovedSplit
<1>6. StartRial + BookedRial = base + BookedIn(p, n) BY CheckedRows
<1>7. StartRial \in Int /\ BookedRial \in Int /\ PendingRial \in Int /\ Prior \in StatementType
  BY <1>1, CheckTypes
<1>8. Pending \ PendingUnknown = known
  <2>1. ASSUME NEW i \in Pending PROVE i \in waits
    <3>1. i \in queue /\ linked BY DEF Pending
    <3>2. ~BeforeMonth(bank[i].at) /\ bank[i].at <= n BY <1>1, <3>1, PendingIs
    <3>3. bank[i].at \in 1..Minutes /\ n \in Nat /\ p \in Nat
      <4>1. n \in Nat BY <1>1 DEF StatementType
      <4>2. i \in DOMAIN bank BY <1>1, <3>1
      <4> QED BY <1>1, <1>2, <4>1, <4>2, MessageFields
    <3>4. bank[i].at > p
      <4>1. CASE Prior = None
        <5>1. p = 0 BY <4>1 DEF None
        <5> QED BY <5>1, <3>3
      <4>2. CASE Prior # None
        <5>1. InMonth(n) /\ p < MonthStart BY <1>2, <4>2
        <5>2. InMonth(bank[i].at) BY <5>1, <3>2 DEF BeforeMonth
        <5>3. bank[i].at >= MonthStart BY <5>2 DEF InMonth
        <5>4. bank[i].at \in Int BY <3>3
        <5> HIDE DEF p
        <5> QED BY <5>1, <5>3, <5>4, <3>3, <1>1
      <4> QED BY <4>1, <4>2
    <3> QED BY <3>1, <3>2, <3>4
  <2>2. \A i \in waits : i \in known <=> bank[i].kind # "unclear" OBVIOUS
  <2>3. known \subseteq waits OBVIOUS
  <2>4. \A i \in Pending : i \in PendingUnknown <=> bank[i].kind = "unclear" BY DEF PendingUnknown
  <2> HIDE DEF waits, known
  <2> QED BY <2>1, <2>2, <2>3, <2>4
<1>9. PendingRial = Moved(known)
  <2> HIDE DEF known
  <2> QED BY <1>8 DEF PendingRial
<1>10. DiffRial = reported.rial - (StartRial + BookedRial + PendingRial) BY DEF DiffRial
<1>11. BookedIn(p, n) \in Int
  <2> DEFINE C == {t \in rows : p < t.at /\ t.at <= n}
  <2>1. C \in SUBSET rows OBVIOUS
  <2>2. Rows(C) \in Int BY <1>1, <2>1, RowsIn
  <2> QED BY <2>2 DEF BookedIn
<1>12. base = PriorRial + start /\ start \in Int
  <2>1. CASE Prior = None BY <2>1, <1>1 DEF PriorRial
  <2>2. CASE Prior # None
    <3>1. Prior.rial \in Int BY <1>7 DEF StatementType
    <3> QED BY <2>2, <3>1 DEF PriorRial
  <2> QED BY <2>1, <2>2
<1> HIDE DEF p, n, base, after, known, waits, start
<1>13. DiffRial = MovedIn(p, n) - BookedIn(p, n) - Moved(known) - start
  <2>1. reported.rial = PriorRial + MovedIn(p, n) /\ MovedIn(p, n) \in Int
    <3>1. PriorRial = HeldOf(bank) - after(p) BY <1>2
    <3> QED BY <3>1, <1>3, <1>4, <1>5
  <2>2. StartRial + BookedRial = PriorRial + start + BookedIn(p, n) BY <1>6, <1>12
  <2>3. PriorRial \in Int /\ start \in Int BY <1>2, <1>12
  <2>4. DiffRial = reported.rial - ((StartRial + BookedRial) + Moved(known)) BY <1>9, <1>10
  <2>5. Moved(known) \in Int BY <1>7, <1>9
  <2> QED BY <2>1, <2>2, <2>3, <2>4, <2>5, <1>11
<1> QED BY <1>13 DEF p, n

---------------------------------------------------------------------------
(* The answers *)

\* a step that leaves the bank, the queue and the statements leaves the check's other parts
LEMMA CheckSame ==
  ASSUME UNCHANGED <<bank, queue, linked, reported, log>>
  PROVE  /\ Prior' = Prior /\ PendingRial' = PendingRial
         /\ \A t : BeforeMonth(t)' <=> BeforeMonth(t)
<1>1. \A t : BeforeMonth(t)' <=> BeforeMonth(t) BY DEF BeforeMonth, InMonth
<1>2. Prior' = Prior BY DEF Prior, BeforeMonth, InMonth
<1>3. \A i : InQueue(i)' = InQueue(i) BY DEF InQueue
<1>4. Pending' = Pending BY DEF Pending, BeforeMonth, InMonth, InQueue, BookedBy, Day
<1>5. PendingUnknown' = PendingUnknown BY <1>4 DEF PendingUnknown
<1>6. PendingRial' = PendingRial BY <1>4, <1>5 DEF PendingRial, Moved
<1> QED BY <1>1, <1>2, <1>6

\* money that is added where it is missing leaves no difference
LEMMA NothingMissing ==
  ASSUME StartRial \in Int, BookedRial \in Int, PendingRial \in Int, DiffRial \in Int, reported.rial \in Int
  PROVE  /\ reported.rial - (StartRial + (BookedRial + DiffRial) + PendingRial) = 0
         /\ reported.rial - ((StartRial + DiffRial) + BookedRial + PendingRial) = 0
<1>1. DiffRial = reported.rial - (StartRial + BookedRial + PendingRial) BY DEF DiffRial
<1> QED BY <1>1

LEMMA BookMissingSettles ==
  ASSUME BalanceAssumption, Inv, BookMissing PROVE ~Asked' /\ BalanceOf' = BalanceOf
<1> DEFINE r == MissingRow(reported, DiffRial)
           A == {t \in rows : BeforeMonth(t.at) /\ ~BookedBy(t, Prior)}
           B == {t \in rows : BeforeMonth(t.at)}
           C == {t \in rows : ~BeforeMonth(t.at) /\ BookedBy(t, reported)}
           D == {t \in rows : ~BookedBy(t, reported)}
<1>1. /\ Push(r) /\ reported # None
      /\ UNCHANGED <<now, bank, read, queue, linked, last, opening, reported, log, typed>>
  BY DEF BookMissing, account, Asked, MonthCheck
<1>2. BalanceTypeOK /\ AccountInv /\ reported \in StatementType BY AccountTypes DEF Inv
<1>3. /\ Prior \in StatementType /\ StartRial \in Int /\ BookedRial \in Int /\ PendingRial \in Int
      /\ DiffRial \in Int /\ reported.rial \in Int
  BY <1>2, CheckTypes DEF StatementType
<1>4. r \in BookRows /\ r.at = reported.at /\ r.timed /\ r.rial = DiffRial /\ reported.at \in 1..Minutes
  BY <1>1, <1>2, <1>3, MissingIs
<1> HIDE DEF r
<1>5. rows' = rows \cup {r} /\ r \notin rows BY <1>1 DEF Push
<1>6. BookedBy(r, reported) /\ ~BeforeMonth(r.at)
  <2>1. r.at \in Int /\ r.at <= reported.at BY <1>4
  <2>2. BookedBy(r, reported) BY <2>1, <1>2, <1>4, TimedBooked
  <2> QED BY <2>2, <1>4 DEF BeforeMonth
<1>7. Prior' = Prior /\ PendingRial' = PendingRial /\ \A t : BeforeMonth(t)' <=> BeforeMonth(t)
  BY <1>1, CheckSame
<1>8. StartRial' = StartRial
  <2>1. {t \in rows' : BeforeMonth(t.at)' /\ ~BookedBy(t, Prior')} = A BY <1>5, <1>6, <1>7
  <2>2. {t \in rows' : BeforeMonth(t.at)'} = B BY <1>5, <1>6, <1>7
  <2>3. StartRial = IF Prior # None THEN Prior.rial + Rows(A) ELSE opening + Rows(B) BY DEF StartRial
  <2>4. StartRial' = IF Prior' # None
                     THEN Prior'.rial + Rows({t \in rows' : BeforeMonth(t.at)' /\ ~BookedBy(t, Prior')})
                     ELSE opening' + Rows({t \in rows' : BeforeMonth(t.at)'})
    BY DEF StartRial
  <2> HIDE DEF A, B
  <2> QED BY <2>1, <2>2, <2>3, <2>4, <1>1, <1>7
<1>9. BookedRial' = BookedRial + DiffRial
  <2>1. {t \in rows' : ~BeforeMonth(t.at)' /\ BookedBy(t, reported')} = C \cup {r}
    BY <1>1, <1>5, <1>6, <1>7
  <2>2. BookedRial' = Rows({t \in rows' : ~BeforeMonth(t.at)' /\ BookedBy(t, reported')}) BY DEF BookedRial
  <2>3. BookedRial = Rows(C) BY DEF BookedRial
  <2>4. C \in SUBSET rows /\ r \notin C BY <1>5
  <2> HIDE DEF C
  <2>5. IsFiniteSet(C) /\ \A t \in C : t.rial \in Int BY <1>2, <2>4, RowsIn
  <2>6. Rows(C \cup {r}) = Rows(C) + r.rial BY <1>3, <1>4, <2>4, <2>5, RowsAdd
  <2> QED BY <2>1, <2>2, <2>3, <2>6, <1>4
<1>10. DiffRial' = reported'.rial - (StartRial' + BookedRial' + PendingRial') BY DEF DiffRial
<1>11. DiffRial' = 0
  <2>1. DiffRial' = reported.rial - (StartRial + (BookedRial + DiffRial) + PendingRial)
    BY <1>1, <1>7, <1>8, <1>9, <1>10
  <2>2. reported.rial - (StartRial + (BookedRial + DiffRial) + PendingRial) = 0
    BY <1>3, NothingMissing
  <2> QED BY <2>1, <2>2
<1>12. BalanceOf' = BalanceOf
  <2>1. {t \in rows' : ~BookedBy(t, reported')} = D BY <1>1, <1>5, <1>6
  <2>2. BalanceOf = reported.rial + Rows(D) BY <1>1 DEF BalanceOf
  <2>3. BalanceOf' = IF reported' = None THEN opening' + Rows(rows')
                     ELSE reported'.rial + Rows({t \in rows' : ~BookedBy(t, reported')})
    BY DEF BalanceOf
  <2> HIDE DEF D
  <2> QED BY <2>1, <2>2, <2>3, <1>1
<1> QED BY <1>11, <1>12 DEF Asked

LEMMA FixStartSettles ==
  ASSUME BalanceAssumption, Inv, FixStart PROVE ~Asked' /\ BalanceOf' = BalanceOf
<1> DEFINE B == {t \in rows : BeforeMonth(t.at)}
<1>1. /\ opening' = opening + DiffRial /\ Prior = None /\ reported # None
      /\ UNCHANGED <<bank, queue, linked, rows, reported, log>>
  BY DEF FixStart, Asked, MonthCheck
<1>2. BalanceTypeOK /\ reported \in StatementType /\ opening \in Int BY AccountTypes DEF Inv, BalanceTypeOK
<1>3. /\ StartRial \in Int /\ BookedRial \in Int /\ PendingRial \in Int /\ DiffRial \in Int
      /\ reported.rial \in Int
  BY <1>2, CheckTypes DEF StatementType
<1>4. Prior' = Prior /\ PendingRial' = PendingRial /\ \A t : BeforeMonth(t)' <=> BeforeMonth(t)
  BY <1>1, CheckSame
<1>5. StartRial' = StartRial + DiffRial
  <2>1. {t \in rows' : BeforeMonth(t.at)'} = B BY <1>1, <1>4
  <2>2. StartRial = opening + Rows(B) BY <1>1 DEF StartRial
  <2>3. StartRial' = IF Prior' # None
                     THEN Prior'.rial + Rows({t \in rows' : BeforeMonth(t.at)' /\ ~BookedBy(t, Prior')})
                     ELSE opening' + Rows({t \in rows' : BeforeMonth(t.at)'})
    BY DEF StartRial
  <2>4. B \in SUBSET rows OBVIOUS
  <2> HIDE DEF B
  <2>5. StartRial' = (opening + DiffRial) + Rows(B) BY <2>1, <2>3, <1>1, <1>4
  <2>6. Rows(B) \in Int BY <1>2, <2>4, RowsIn
  <2> QED BY <2>2, <2>5, <2>6, <1>2, <1>3
<1>6. BookedRial' = BookedRial BY <1>1, <1>4 DEF BookedRial
<1>7. DiffRial' = reported'.rial - (StartRial' + BookedRial' + PendingRial') BY DEF DiffRial
<1>8. DiffRial' = 0
  <2>1. DiffRial' = reported.rial - ((StartRial + DiffRial) + BookedRial + PendingRial)
    BY <1>1, <1>4, <1>5, <1>6, <1>7
  <2>2. reported.rial - ((StartRial + DiffRial) + BookedRial + PendingRial) = 0
    BY <1>3, NothingMissing
  <2> QED BY <2>1, <2>2
<1>9. BalanceOf' = BalanceOf BY <1>1 DEF BalanceOf
<1> QED BY <1>8, <1>9 DEF Asked

---------------------------------------------------------------------------
(* The theorems about the balance *)

\* The balance's state is well typed: no difference, however it came about, makes a row or an
\* opening balance that is not a sum of money, and the log never outgrows its limit
\* (balance.ts:75-85).
THEOREM BalanceTypeCorrect == BalanceAssumption => (Spec => []BalanceTypeOK)
<1> SUFFICES ASSUME BalanceAssumption PROVE Spec => []BalanceTypeOK OBVIOUS
<1>1. Spec => []Inv BY InvAlways
<1>2. Inv => BalanceTypeOK BY DEF Inv
<1> QED BY <1>1, <1>2, PTL

\* For every list of messages, every order they are read in, every row and every answer: the balance
\* shown is the bank's, up to what happened after its newest statement and is not in the book, as
\* long as no two things happen in one minute and every message is there before the bank moves again
\* (balance.ts:3-6, 75; importers.ts:532-533).
THEOREM ShownStaysBank == BalanceAssumption /\ Apart /\ ~Overtaken => (Spec => []ShownIsBank)
<1> SUFFICES ASSUME BalanceAssumption, Apart, ~Overtaken PROVE Spec => []ShownIsBank OBVIOUS
<1>1. Spec => []Inv BY InvAlways
<1>2. Inv => ShownIsBank BY ShownHolds DEF Orderly
<1> QED BY <1>1, <1>2, PTL

\* The difference the user is asked about is exactly the money missing from the book and the queue
\* since the bank's last word before the month (balance.ts:8-10, 132-198), under the same two
\* conditions: a message that comes after the bank's next movement is dated after it (sources.ts:61).
THEOREM DiffStaysMissing == BalanceAssumption /\ Apart /\ ~Overtaken => (Spec => []DiffIsMissing)
<1> SUFFICES ASSUME BalanceAssumption, Apart, ~Overtaken PROVE Spec => []DiffIsMissing OBVIOUS
<1>1. Spec => []Inv BY InvAlways
<1>2. Inv => DiffIsMissing BY DiffHolds DEF Orderly
<1> QED BY <1>1, <1>2, PTL

\* with every message read, the statement kept is the last message's
LEMMA NewestHolds == BalanceAssumption /\ Orderly /\ Inv => NewestIsKept
<1> SUFFICES ASSUME BalanceAssumption, Orderly, Inv, linked, bank # <<>>, read = DOMAIN bank,
                    Stating(Len(bank)), typed = 0
             PROVE  reported.rial = Held
  BY DEF NewestIsKept
<1> DEFINE L == Len(bank)
           told == ToldOf(bank, linked, read, typed)
<1>1. BankTypeOK(bank) /\ InOrder(bank, now) /\ AllGot(bank, read)
  BY DEF Inv, BalanceTypeOK, BankInv, AccountInv
<1>2. L \in Nat /\ L # 0 /\ DOMAIN bank = 1..L BY <1>1 DEF BankTypeOK
<1>3. L \in DOMAIN bank BY <1>2
<1>4. \A i \in DOMAIN bank : bank[i].at \in 1..Minutes /\ bank[i].got \in 0..Minutes BY <1>1, MessageFields
<1>5. \A i \in DOMAIN bank : bank[i].at <= bank[L].got
  <2>1. bank[L].got > 0 BY <1>1, <1>3 DEF AllGot
  <2>2. bank[L].at <= bank[L].got BY <1>1, <1>3, <2>1 DEF InOrder
  <2> TAKE i \in DOMAIN bank
  <2>3. bank[i].at <= bank[L].at BY <1>1, <1>2, <1>3, <1>4 DEF InOrder
  <2> QED BY <1>3, <1>4, <2>2, <2>3
<1>6. bank[L].got \in told BY <1>3 DEF ToldOf, Stating
<1>7. \A t \in told : t <= reported.at BY DEF Inv, AccountInv, AccountKeeps, Account
<1>8. reported.at \in Nat BY AccountTypes DEF Inv, StatementType
<1>9. reported.at # 0 /\ bank[L].got <= reported.at
  <2>1. bank[L].got <= reported.at /\ bank[L].got > 0 BY <1>1, <1>3, <1>6, <1>7 DEF AllGot
  <2> QED BY <1>3, <1>4, <1>8, <2>1
<1>10. After(bank, reported.at) = {}
  <2>1. \A i \in DOMAIN bank : ~(reported.at < bank[i].at) BY <1>3, <1>4, <1>5, <1>8, <1>9
  <2> QED BY <2>1 DEF After
<1>11. reported # None BY <1>9 DEF None
<1>12. reported.rial = HeldOf(bank) - 0 BY <1>10, <1>11, ReportedTrue, SumOfNone
<1>13. Held = HeldOf(bank) /\ HeldOf(bank) \in Int BY <1>1, HeldIs, HeldType
<1> QED BY <1>12, <1>13

\* With every message read, the statement kept is the bank's newest, as balance.ts:75 says, as long
\* as no two messages share a minute and none is overtaken by the bank's next movement: the account
\* keeps the statement received last, which is then the bank's last.
THEOREM NewestStaysKept == BalanceAssumption /\ Apart /\ ~Overtaken => (Spec => []NewestIsKept)
<1> SUFFICES ASSUME BalanceAssumption, Apart, ~Overtaken PROVE Spec => []NewestIsKept OBVIOUS
<1>1. Spec => []Inv BY InvAlways
<1>2. Inv => NewestIsKept BY NewestHolds DEF Orderly
<1> QED BY <1>1, <1>2, PTL

\* Whatever the difference came from, either answer to the monthly check leaves no difference and
\* the balance shown as it was (balance.ts:214-239), even when things happen in one minute.
THEOREM AnswersAlwaysSettle == BalanceAssumption => (Spec => AnswersSettle)
<1> SUFFICES ASSUME BalanceAssumption PROVE Spec => AnswersSettle OBVIOUS
<1>1. Spec => []Inv BY InvAlways
<1>2. ASSUME Inv, [Next]_vars
      PROVE  [BookMissing \/ FixStart => ~Asked' /\ BalanceOf' = BalanceOf]_vars
  BY <1>2, BookMissingSettles, FixStartSettles
<1> QED BY <1>1, <1>2, PTL DEF Spec, AnswersSettle

---------------------------------------------------------------------------
(* What is owed.  What a loan and an income have booked is stated apart, of   *)
(* any list of rows, so that an action is asked only about the part it        *)
(* touches.                                                                   *)
RowType == [of : {"loan", "bill", "income", "cheque", "lend"},
            n : Nat, date : Calendar, rial : Int, due : Nat]
LoanType == [there : BOOLEAN, paid : Nat, term : Nat]
IncomeType == [repeat : {"monthly", "once"}, received : SUBSET Nat, switched : BOOLEAN]

\* installments count from one: what lets the latest be un-paid
Numbered(rs) == \A i \in DOMAIN rs : rs[i].of = "loan" => rs[i].n > 0

LoanBooked(l, rs) ==
  l.there => /\ l.paid <= l.term
             /\ \A i \in DOMAIN rs : rs[i].of = "loan" => rs[i].n <= l.paid
             /\ \A i, j \in DOMAIN rs :
                  rs[i].of = "loan" /\ rs[j].of = "loan" /\ rs[i].n = rs[j].n => i = j

IncomeBooked(inc, rs) ==
  ~inc.switched => /\ \A i \in DOMAIN rs : rs[i].of = "income" => rs[i].n \in inc.received
                   /\ \A i, j \in DOMAIN rs :
                        rs[i].of = "income" /\ rs[j].of = "income" /\ rs[i].n = rs[j].n => i = j

DuesInv == DuesTypeOK /\ Numbered(txns) /\ LoanBooked(loan, txns) /\ IncomeBooked(income, txns)

LEMMA DuesTypeParts ==
  DuesTypeOK <=> /\ month \in Calendar /\ loan \in LoanType
                 /\ bill \subseteq Nat /\ dueOn \in Nat /\ cheque \in Statuses
                 /\ income \in IncomeType
                 /\ made \in 0..MaxTxns /\ DOMAIN txns \subseteq 1..made
                 /\ \A i \in DOMAIN txns : txns[i] \in RowType
BY DEF DuesTypeOK, LoanType, IncomeType, RowType

\* the same of the next state
LEMMA DuesTypePartsNext ==
  ASSUME month' \in Calendar, loan' \in LoanType,
         bill' \subseteq Nat, dueOn' \in Nat, cheque' \in Statuses,
         income' \in IncomeType,
         made' \in 0..MaxTxns, DOMAIN txns' \subseteq 1..made',
         \A i \in DOMAIN txns' : txns'[i] \in RowType
  PROVE  DuesTypeOK'
BY DEF DuesTypeOK, LoanType, IncomeType, RowType

LEMMA SettledParts == SettledOnce <=> LoanBooked(loan, txns) /\ IncomeBooked(income, txns)
BY DEF SettledOnce, LoanBooked, IncomeBooked, LoanRows

LEMMA DuesInitInv == ObligationsAssumption /\ DuesInit => DuesInv
<1> SUFFICES ASSUME ObligationsAssumption, DuesInit PROVE DuesInv
  OBVIOUS
<1>1. DOMAIN txns = {}
  BY DEF DuesInit
<1>2. loan \in LoanType
  <2>1. PICK p \in 0..1, t \in Terms : loan = [there |-> TRUE, paid |-> p, term |-> t]
    BY DEF DuesInit
  <2> QED BY <2>1 DEF LoanType, ObligationsAssumption
<1>3. loan.paid <= loan.term
  BY DEF DuesInit, ObligationsAssumption
<1>4. income \in IncomeType
  BY DEF DuesInit, IncomeType
<1>5. DuesTypeOK
  BY <1>1, <1>2, <1>4, DuesTypeParts DEF DuesInit, ObligationsAssumption, Calendar, Statuses
<1> QED BY <1>1, <1>3, <1>5 DEF DuesInv, Numbered, LoanBooked, IncomeBooked

---------------------------------------------------------------------------
(* Rows *)

\* A new row is the only new one, and keeps the list of rows typed.
LEMMA PushedRows ==
  ASSUME DuesInv, ObligationsAssumption, NEW row \in RowType, PushTxn(row)
  PROVE  /\ made' \in 0..MaxTxns /\ DOMAIN txns' \subseteq 1..made'
         /\ DOMAIN txns' = DOMAIN txns \cup {made + 1} /\ made + 1 \notin DOMAIN txns
         /\ txns'[made + 1] = row /\ \A i \in DOMAIN txns : txns'[i] = txns[i]
         /\ \A i \in DOMAIN txns' : txns'[i] \in RowType
<1>1. made \in Nat /\ DOMAIN txns \subseteq 1..made /\ MaxTxns \in Nat
  BY DuesTypeParts DEF DuesInv, ObligationsAssumption
<1>2. made' = made + 1 /\ made < MaxTxns /\ made + 1 \notin DOMAIN txns
  BY <1>1 DEF PushTxn
<1>3. DOMAIN txns' = DOMAIN txns \cup {made + 1}
  BY DEF PushTxn
<1>4. txns'[made + 1] = row /\ \A i \in DOMAIN txns : txns'[i] = txns[i]
  BY <1>2 DEF PushTxn
<1>5. \A i \in DOMAIN txns' : txns'[i] \in RowType
  BY <1>3, <1>4, DuesTypeParts DEF DuesInv
<1> QED BY <1>1, <1>2, <1>3, <1>4, <1>5

\* A row of another kind changes nothing of what the loan and the income have
\* booked, and an installment must have a number.
LEMMA OtherRow ==
  ASSUME DuesInv, ObligationsAssumption, NEW row \in RowType, PushTxn(row),
         row.of \notin {"loan", "income"}
  PROVE  Numbered(txns') /\ LoanBooked(loan, txns') /\ IncomeBooked(income, txns')
<1>1. /\ DOMAIN txns' = DOMAIN txns \cup {made + 1} /\ txns'[made + 1] = row
      /\ \A i \in DOMAIN txns : txns'[i] = txns[i]
  BY PushedRows
<1>2. \A i \in DOMAIN txns' : txns'[i].of \in {"loan", "income"} =>
        i \in DOMAIN txns /\ txns'[i] = txns[i]
  BY <1>1
<1>3. Numbered(txns')
  BY <1>2 DEF DuesInv, Numbered
<1>4. LoanBooked(loan, txns')
  BY <1>2 DEF DuesInv, LoanBooked
<1>5. IncomeBooked(income, txns')
  BY <1>2 DEF DuesInv, IncomeBooked
<1> QED BY <1>3, <1>4, <1>5

LEMMA RowIsTyped ==
  ASSUME DuesInv, NEW of \in {"loan", "bill", "income", "cheque", "lend"}, NEW n \in Nat, NEW rial \in Int
  PROVE  /\ Txn(of, n, rial) \in RowType /\ Txn(of, n, rial).of = of /\ Txn(of, n, rial).n = n
         /\ \A due \in Nat : /\ [Txn(of, n, rial) EXCEPT !.due = due] \in RowType
                             /\ [Txn(of, n, rial) EXCEPT !.due = due].of = of
<1>1. month \in Calendar
  BY DuesTypeParts DEF DuesInv
<1> QED BY <1>1 DEF Txn, RowType

---------------------------------------------------------------------------
(* One step per action *)

LEMMA LoanSteps ==
  ASSUME DuesInv, ObligationsAssumption,
         \/ \E n \in 1..loan.term : SettleLoan(n)
         \/ \E term \in Terms : \E paid \in 0..term : EditLoan(paid, term)
         \/ DeleteLoan
  PROVE  DuesInv'
<1>0. loan \in LoanType /\ loan.paid \in Nat /\ loan.term \in Nat
  BY DuesTypeParts DEF DuesInv, LoanType
<1>1. ASSUME NEW n \in 1..loan.term, SettleLoan(n) PROVE DuesInv'
  <2> DEFINE row == Txn("loan", n, 0)
  <2>1. n \in Nat /\ n = loan.paid + 1 /\ n <= loan.term /\ PushTxn(row)
    BY <1>0, <1>1 DEF SettleLoan, NextInstallment
  <2>2. row \in RowType /\ row.of = "loan" /\ row.n = n
    BY <2>1, RowIsTyped
  <2> HIDE DEF row
  <2>3. /\ made' \in 0..MaxTxns /\ DOMAIN txns' \subseteq 1..made'
        /\ DOMAIN txns' = DOMAIN txns \cup {made + 1} /\ made + 1 \notin DOMAIN txns
        /\ txns'[made + 1] = row /\ \A i \in DOMAIN txns : txns'[i] = txns[i]
        /\ \A i \in DOMAIN txns' : txns'[i] \in RowType
    BY <2>1, <2>2, PushedRows
  <2>4. loan' = [loan EXCEPT !.paid = @ + 1] /\ loan.there
    BY <1>1 DEF SettleLoan
  <2>5. loan' \in LoanType /\ loan'.paid = n /\ loan'.term = loan.term
    BY <1>0, <2>1, <2>4 DEF LoanType
  <2>6. DuesTypeOK'
    BY <1>1, <2>3, <2>5, DuesTypeParts, DuesTypePartsNext DEF DuesInv, SettleLoan, others
  <2>7. Numbered(txns')
    BY <2>1, <2>2, <2>3 DEF DuesInv, Numbered
  <2>8. \A i \in DOMAIN txns : txns[i].of = "loan" => txns[i].n < n
    <3>1. \A i \in DOMAIN txns : txns[i].n \in Nat
      BY DuesTypeParts DEF DuesInv, RowType
    <3> QED BY <1>0, <2>1, <2>4, <3>1 DEF DuesInv, LoanBooked
  <2>9. \A i \in DOMAIN txns : txns[i].n \in Nat
    BY DuesTypeParts DEF DuesInv, RowType
  <2>10. LoanBooked(loan', txns')
    <3>1. loan'.paid <= loan'.term
      BY <2>1, <2>5
    <3>2. \A i \in DOMAIN txns' : txns'[i].of = "loan" => txns'[i].n <= loan'.paid
      BY <2>1, <2>2, <2>3, <2>5, <2>8, <2>9
    <3>3. ASSUME NEW i \in DOMAIN txns', NEW j \in DOMAIN txns',
                 txns'[i].of = "loan", txns'[j].of = "loan", txns'[i].n = txns'[j].n
          PROVE  i = j
      <4>1. CASE i \in DOMAIN txns /\ j \in DOMAIN txns
        BY <2>3, <2>4, <3>3, <4>1 DEF DuesInv, LoanBooked
      <4>2. CASE i = made + 1 \/ j = made + 1
        BY <2>1, <2>2, <2>3, <2>8, <2>9, <3>3, <4>2
      <4> QED BY <2>3, <4>1, <4>2
    <3> QED BY <3>1, <3>2, <3>3 DEF LoanBooked
  <2>11. IncomeBooked(income', txns')
    <3>1. \A i \in DOMAIN txns' : txns'[i].of = "income" => i \in DOMAIN txns /\ txns'[i] = txns[i]
      BY <2>2, <2>3
    <3>2. income' = income
      BY <1>1 DEF SettleLoan, others
    <3> QED BY <3>1, <3>2 DEF DuesInv, IncomeBooked
  <2> QED BY <2>6, <2>7, <2>10, <2>11 DEF DuesInv
<1>2. ASSUME NEW term \in Terms, NEW paid \in 0..term, EditLoan(paid, term) PROVE DuesInv'
  <2>1. term \in Nat /\ paid \in Nat /\ paid <= term
    BY DEF ObligationsAssumption
  <2>2. loan' \in LoanType /\ loan'.paid = paid /\ loan'.term = term /\ loan'.there = loan.there
    BY <1>0, <1>2, <2>1 DEF EditLoan, LoanType
  <2>3. UNCHANGED <<month, others, dueOn, txns, made>> /\ KeepsBooked(paid) /\ loan.there
    BY <1>2 DEF EditLoan
  <2>4. DuesTypeOK'
    BY <2>2, <2>3, DuesTypeParts, DuesTypePartsNext DEF DuesInv, others
  <2>5. LoanBooked(loan', txns')
    BY <2>1, <2>2, <2>3 DEF DuesInv, LoanBooked, KeepsBooked, LoanRows
  <2> QED BY <2>3, <2>4, <2>5 DEF DuesInv, others
<1>3. CASE DeleteLoan
  <2>1. loan' \in LoanType /\ ~loan'.there /\ UNCHANGED <<month, others, dueOn, txns, made>>
    BY <1>3 DEF DeleteLoan, NoLoan, LoanType
  <2>2. DuesTypeOK'
    BY <2>1, DuesTypeParts, DuesTypePartsNext DEF DuesInv, others
  <2> QED BY <2>1, <2>2 DEF DuesInv, LoanBooked, others
<1> QED BY <1>1, <1>2, <1>3

\* What pushes a row that is neither an installment nor an income, or no row.
LEMMA OtherPush ==
  ASSUME DuesInv, ObligationsAssumption, UNCHANGED <<month, loan, income>>,
         bill' \subseteq Nat, dueOn' \in Nat, cheque' \in Statuses,
         NEW row \in RowType, row.of \notin {"loan", "income"}, PushTxn(row)
  PROVE  DuesInv'
<1>1. DuesTypeOK'
  BY PushedRows, DuesTypeParts, DuesTypePartsNext DEF DuesInv
<1> QED BY <1>1, OtherRow DEF DuesInv

LEMMA IncomeSteps ==
  ASSUME DuesInv, ObligationsAssumption,
         (\E mk \in 0..Horizon : SettleIncome(mk)) \/ SwitchRepeat
  PROVE  DuesInv'
<1>0. income \in IncomeType /\ income.received \subseteq Nat
  BY DuesTypeParts DEF DuesInv, IncomeType
<1>1. ASSUME NEW mk \in 0..Horizon, SettleIncome(mk) PROVE DuesInv'
  <2> DEFINE row == Txn("income", mk, 0)
  <2>1. mk \in Nat /\ mk \notin income.received /\ PushTxn(row)
    BY <1>1 DEF SettleIncome, IncomeDue
  <2>2. row \in RowType /\ row.of = "income" /\ row.n = mk
    BY <2>1, RowIsTyped
  <2> HIDE DEF row
  <2>3. /\ made' \in 0..MaxTxns /\ DOMAIN txns' \subseteq 1..made'
        /\ DOMAIN txns' = DOMAIN txns \cup {made + 1} /\ made + 1 \notin DOMAIN txns
        /\ txns'[made + 1] = row /\ \A i \in DOMAIN txns : txns'[i] = txns[i]
        /\ \A i \in DOMAIN txns' : txns'[i] \in RowType
    BY <2>1, <2>2, PushedRows
  <2>4. income' = [income EXCEPT !.received = @ \cup {mk}]
        /\ UNCHANGED <<month, loan, bill, cheque, dueOn>>
    BY <1>1 DEF SettleIncome
  <2>5. /\ income' \in IncomeType /\ income'.received = income.received \cup {mk}
        /\ income'.switched = income.switched
    BY <1>0, <2>1, <2>4 DEF IncomeType
  <2>6. DuesTypeOK'
    BY <2>3, <2>4, <2>5, DuesTypeParts, DuesTypePartsNext DEF DuesInv
  <2>7. \A i \in DOMAIN txns' : txns'[i].of = "loan" => i \in DOMAIN txns /\ txns'[i] = txns[i]
    BY <2>2, <2>3
  <2>8. Numbered(txns') /\ LoanBooked(loan', txns')
    BY <2>4, <2>7 DEF DuesInv, Numbered, LoanBooked
  <2>9. IncomeBooked(income', txns')
    <3> SUFFICES ASSUME ~income.switched PROVE IncomeBooked(income', txns')
      BY <2>5 DEF IncomeBooked
    <3>1. \A i \in DOMAIN txns : txns[i].of = "income" => txns[i].n \in income.received
      BY DEF DuesInv, IncomeBooked
    <3>2. \A i \in DOMAIN txns' : txns'[i].of = "income" => txns'[i].n \in income'.received
      BY <2>2, <2>3, <2>5, <3>1
    <3>3. ASSUME NEW i \in DOMAIN txns', NEW j \in DOMAIN txns',
                 txns'[i].of = "income", txns'[j].of = "income", txns'[i].n = txns'[j].n
          PROVE  i = j
      <4>1. CASE i \in DOMAIN txns /\ j \in DOMAIN txns
        BY <2>3, <3>3, <4>1 DEF DuesInv, IncomeBooked
      <4>2. CASE i = made + 1 \/ j = made + 1
        BY <2>1, <2>2, <2>3, <3>1, <3>3, <4>2
      <4> QED BY <2>3, <4>1, <4>2
    <3> QED BY <3>2, <3>3 DEF IncomeBooked
  <2> QED BY <2>6, <2>8, <2>9 DEF DuesInv
<1>2. CASE SwitchRepeat
  <2>1. income' \in IncomeType /\ income'.switched
    BY <1>2 DEF SwitchRepeat, IncomeType
  <2>2. UNCHANGED <<month, loan, bill, cheque, dueOn, txns, made>>
    BY <1>2 DEF SwitchRepeat
  <2>3. DuesTypeOK'
    BY <2>1, <2>2, DuesTypeParts, DuesTypePartsNext DEF DuesInv
  <2> QED BY <2>1, <2>2, <2>3 DEF DuesInv, IncomeBooked
<1> QED BY <1>1, <1>2

\* Bills, the cheque and the person touch neither the loan nor the income.
LEMMA OtherSteps ==
  ASSUME DuesInv, ObligationsAssumption,
         \/ \E mk \in 0..Horizon : SettleBill(mk)
         \/ SettleCheque
         \/ \E status \in Statuses : SetCheque(status)
         \/ \E rial \in Amounts, due \in 0..Months : BookLend(rial, due) \/ BookLend(-rial, due)
         \/ \E rial \in Amounts : SettleLend(rial)
         \/ \E due \in 0..Months : SetPersonDue(due)
         \/ Tick
  PROVE  DuesInv'
<1>0. /\ month \in Calendar /\ bill \subseteq Nat /\ dueOn \in Nat /\ cheque \in Statuses
      /\ Months \in Nat /\ Amounts \subseteq Nat /\ 0 \in Int /\ 0 \in Nat
  BY DuesTypeParts DEF DuesInv, ObligationsAssumption
<1>1. ASSUME NEW mk \in 0..Horizon, SettleBill(mk) PROVE DuesInv'
  <2>1. Txn("bill", mk, 0) \in RowType /\ Txn("bill", mk, 0).of = "bill"
    BY <1>0, RowIsTyped
  <2> QED BY <1>0, <1>1, <2>1, OtherPush DEF SettleBill
<1>2. CASE SettleCheque
  <2>1. Txn("cheque", 0, 0) \in RowType /\ Txn("cheque", 0, 0).of = "cheque"
    BY <1>0 DEF Txn, RowType
  <2> QED BY <1>0, <1>2, <2>1, OtherPush DEF SettleCheque, Statuses
<1>3. ASSUME NEW status \in Statuses, SetCheque(status) PROVE DuesInv'
  <2>1. DuesTypeOK'
    BY <1>3, DuesTypeParts, DuesTypePartsNext DEF DuesInv, SetCheque
  <2> QED BY <1>3, <2>1 DEF DuesInv, SetCheque
<1>4. ASSUME NEW rial \in Int, NEW due \in Nat, Closing(Txn("lend", 0, rial), due),
             UNCHANGED <<month, loan, others>>
      PROVE  DuesInv'
  <2> DEFINE row == Txn("lend", 0, rial)
  <2>1. /\ row \in RowType /\ row.of = "lend"
        /\ [row EXCEPT !.due = due] \in RowType /\ [row EXCEPT !.due = due].of = "lend"
    BY <1>0, <1>4 DEF Txn, RowType
  <2> HIDE DEF row
  <2>2. \E r \in RowType : r.of = "lend" /\ PushTxn(r)
    BY <1>4, <2>1 DEF Closing, row
  <2>3. dueOn' \in Nat
    BY <1>4 DEF Closing
  <2> QED BY <1>0, <1>4, <2>2, <2>3, OtherPush DEF others
<1>5. ASSUME NEW rial \in Amounts, NEW due \in 0..Months, BookLend(rial, due) \/ BookLend(-rial, due)
      PROVE  DuesInv'
  <2>1. rial \in Int /\ -rial \in Int /\ due \in Nat
    BY <1>0
  <2>2. (IF due = 0 THEN dueOn ELSE due) \in Nat
    BY <1>0, <2>1
  <2> QED BY <1>4, <1>5, <2>1, <2>2 DEF BookLend
<1>6. ASSUME NEW rial \in Amounts, SettleLend(rial) PROVE DuesInv'
  <2>1. (IF Position > 0 THEN -rial ELSE rial) \in Int
    BY <1>0
  <2> QED BY <1>0, <1>4, <1>6, <2>1 DEF SettleLend
<1>7. ASSUME NEW due \in 0..Months, SetPersonDue(due) PROVE DuesInv'
  <2>1. DuesTypeOK'
    BY <1>7, DuesTypeParts, DuesTypePartsNext DEF DuesInv, SetPersonDue, others
  <2> QED BY <1>7, <2>1 DEF DuesInv, SetPersonDue, others
<1>8. CASE Tick
  <2>1. month' \in Calendar
    BY <1>0, <1>8 DEF Tick, Calendar
  <2>2. DuesTypeOK'
    BY <1>8, <2>1, DuesTypeParts, DuesTypePartsNext DEF DuesInv, Tick, others
  <2> QED BY <1>8, <2>2 DEF DuesInv, Tick, others
<1> QED BY <1>1, <1>2, <1>3, <1>5, <1>6, <1>7, <1>8

\* Deleting a row un-pays the latest installment only, so the rows that are left
\* are still of paid ones; an income's month goes with its only row.
LEMMA DeleteStep ==
  ASSUME DuesInv, ObligationsAssumption, NEW i \in DOMAIN txns, DeleteTxn(i)
  PROVE  DuesInv'
<1>0. /\ txns[i] \in RowType /\ txns[i].n \in Nat /\ txns[i].due \in Nat
      /\ \A j \in DOMAIN txns : txns[j] \in RowType /\ txns[j].n \in Nat
      /\ loan \in LoanType /\ loan.paid \in Nat /\ loan.term \in Nat
      /\ income \in IncomeType
  BY DuesTypeParts DEF DuesInv, RowType, LoanType
<1>1. DOMAIN txns' = DOMAIN txns \ {i} /\ \A j \in DOMAIN txns' : txns'[j] = txns[j]
  BY DEF DeleteTxn
<1>2. ASSUME txns[i].of = "loan", LastPaid(txns[i].n)
      PROVE  loan' \in LoanType /\ LoanBooked(loan', txns')
  <2>1. loan' = [loan EXCEPT !.paid = @ - 1] /\ txns[i].n = loan.paid /\ loan.there
    BY <1>2 DEF DeleteTxn, LastPaid
  <2>2. loan.paid > 0
    BY <1>2, <2>1 DEF DuesInv, Numbered
  <2>3. /\ loan' \in LoanType /\ loan'.paid = loan.paid - 1 /\ loan'.term = loan.term
        /\ loan'.there
    BY <1>0, <2>1, <2>2 DEF LoanType
  <2>4. \A j \in DOMAIN txns' : txns'[j].of = "loan" => txns'[j].n <= loan'.paid
    <3> SUFFICES ASSUME NEW j \in DOMAIN txns', txns'[j].of = "loan" PROVE txns'[j].n <= loan'.paid
      OBVIOUS
    <3>1. j \in DOMAIN txns /\ j # i /\ txns'[j] = txns[j]
      BY <1>1
    <3>2. txns[j].n <= loan.paid /\ txns[j].n # txns[i].n
      BY <1>2, <2>1, <3>1 DEF DuesInv, LoanBooked
    <3> QED BY <1>0, <2>1, <2>3, <3>1, <3>2
  <2>5. LoanBooked(loan', txns')
    <3>1. loan'.paid <= loan'.term
      BY <1>0, <2>1, <2>3 DEF DuesInv, LoanBooked
    <3> QED BY <1>1, <2>1, <2>4, <3>1 DEF DuesInv, LoanBooked
  <2> QED BY <2>3, <2>5
<1>3. ASSUME ~(txns[i].of = "loan" /\ LastPaid(txns[i].n))
      PROVE  loan' \in LoanType /\ LoanBooked(loan', txns')
  <2>1. loan' = loan
    BY <1>3 DEF DeleteTxn
  <2>2. LoanBooked(loan', txns')
    BY <1>1, <2>1 DEF DuesInv, LoanBooked
  <2> QED BY <1>0, <2>1, <2>2
<1>4. loan' \in LoanType /\ LoanBooked(loan', txns')
  BY <1>2, <1>3
<1>5. /\ income' \in IncomeType /\ income'.switched = income.switched
      /\ income'.received = IF txns[i].of = "income" THEN income.received \ {txns[i].n}
                             ELSE income.received
  BY <1>0 DEF DeleteTxn, IncomeType
<1>6. IncomeBooked(income', txns')
  <2> SUFFICES ASSUME ~income.switched PROVE IncomeBooked(income', txns')
    BY <1>5 DEF IncomeBooked
  <2>1. ASSUME NEW j \in DOMAIN txns', txns'[j].of = "income"
        PROVE  txns'[j].n \in income'.received
    <3>1. j \in DOMAIN txns /\ j # i /\ txns'[j] = txns[j] /\ txns[j].of = "income"
      BY <1>1, <2>1
    <3>2. txns[j].n \in income.received
      BY <3>1 DEF DuesInv, IncomeBooked
    <3>3. txns[i].of = "income" => txns[j].n # txns[i].n
      BY <3>1 DEF DuesInv, IncomeBooked
    <3> QED BY <1>5, <3>1, <3>2, <3>3
  <2>2. \A j, k \in DOMAIN txns' :
          txns'[j].of = "income" /\ txns'[k].of = "income" /\ txns'[j].n = txns'[k].n => j = k
    BY <1>1 DEF DuesInv, IncomeBooked
  <2> QED BY <2>1, <2>2 DEF IncomeBooked
<1>7. bill' \subseteq Nat /\ dueOn' \in Nat /\ cheque' \in Statuses /\ UNCHANGED <<month, made>>
  BY <1>0, DuesTypeParts DEF DuesInv, DeleteTxn, Statuses
<1>8. DuesTypeOK'
  BY <1>0, <1>1, <1>4, <1>5, <1>7, DuesTypeParts, DuesTypePartsNext DEF DuesInv
<1>9. Numbered(txns')
  BY <1>1 DEF DuesInv, Numbered
<1> QED BY <1>4, <1>6, <1>8, <1>9 DEF DuesInv

LEMMA DuesNextInv == ObligationsAssumption /\ DuesInv /\ [DuesNext]_duesVars => DuesInv'
<1> SUFFICES ASSUME ObligationsAssumption, DuesInv, [DuesNext]_duesVars PROVE DuesInv'
  OBVIOUS
<1>1. CASE UNCHANGED duesVars
  <2>1. DuesTypeOK'
    BY <1>1, DuesTypeParts, DuesTypePartsNext DEF DuesInv, duesVars, others
  <2> QED BY <1>1, <2>1 DEF DuesInv, duesVars, others
<1>2. CASE DuesNext
  BY <1>2, LoanSteps, IncomeSteps, OtherSteps, DeleteStep DEF DuesNext
<1> QED BY <1>1, <1>2

---------------------------------------------------------------------------
LEMMA DuesInvAlways == ASSUME ObligationsAssumption PROVE DuesSpec => []DuesInv
<1>1. DuesInit => DuesInv
  BY DuesInitInv
<1>2. DuesInv /\ [DuesNext]_duesVars => DuesInv'
  BY DuesNextInv
<1> QED BY <1>1, <1>2, PTL DEF DuesSpec

\* What is owed and the rows are well typed in every reachable state.
THEOREM DuesTypeCorrect == ObligationsAssumption => (DuesSpec => []DuesTypeOK)
<1> SUFFICES ASSUME ObligationsAssumption PROVE DuesSpec => []DuesTypeOK
  OBVIOUS
<1>0. DuesSpec => []DuesInv
  BY DuesInvAlways
<1>1. DuesInv => DuesTypeOK
  BY DEF DuesInv
<1> QED BY <1>0, <1>1, PTL

\* Nothing is booked twice: whatever is deleted, edited or settled in whatever
\* order, no two rows pay one installment or one month of an income, and none
\* pays one the loan does not say is paid (actions.ts:17-44, 80-89, 142-153).
THEOREM NothingSettledTwice == ObligationsAssumption => (DuesSpec => []SettledOnce)
<1> SUFFICES ASSUME ObligationsAssumption PROVE DuesSpec => []SettledOnce
  OBVIOUS
<1>0. DuesSpec => []DuesInv
  BY DuesInvAlways
<1>1. DuesInv => SettledOnce
  BY SettledParts DEF DuesInv
<1> QED BY <1>0, <1>1, PTL

===========================================================================
