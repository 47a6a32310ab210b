--------------------------- MODULE BizSalesProofs ---------------------------
(***************************************************************************)
(* Theorems about BizSales, for every set of orders, products, customers,  *)
(* debtors and accounts and all prices: the debts of the credit book are   *)
(* those of sales that stand, and the stock, the customers' totals, the    *)
(* rows of a day and the reports are what these sales add up to.           *)
(***************************************************************************)
EXTENDS BizSales, FiniteSetTheorems, WellFoundedInduction, TLAPS

---------------------------------------------------------------------------
(* Sums over finite sets: what they do not depend on, and how they change.  *)
(* The induction is on the finite subsets of a set, which have a smallest   *)
(* one with any property that some of them have.                            *)

\* g has the sums of f over the subsets of S, taking one element after the other.
Pick(s) == CHOOSE x \in s : TRUE
Adds(g, f, S) == g = [s \in SUBSET S |-> IF s = {} THEN 0 ELSE f[Pick(s)] + g[s \ {Pick(s)}]]

LEMMA SmallestFamily ==
  ASSUME NEW S, IsFiniteSet(S), NEW F \in SUBSET (SUBSET S), F # {}
  PROVE  \E T \in F : \A U \in F : ~(U \subseteq T /\ U # T)
<1>1. IsWellFoundedOn(StrictSubsetOrdering(S), SUBSET S)
  BY FS_StrictSubsetOrderingWellFounded, FS_FiniteSubsetsOfFinite
<1> DEFINE R == StrictSubsetOrdering(S)
<1>2. \E T \in F : \A U \in F : ~(<<U, T>> \in R)
  <2> HIDE DEF R
  <2> QED BY <1>1, WFMin DEF R
<1> QED BY <1>2 DEF StrictSubsetOrdering

LEMMA AddsAgree ==
  ASSUME NEW f, NEW S, IsFiniteSet(S), NEW A \in SUBSET S, NEW B \in SUBSET S,
         NEW g, NEW h, Adds(g, f, A), Adds(h, f, B), NEW C \in SUBSET (A \cap B)
  PROVE  g[C] = h[C]
<1> DEFINE Bad == {D \in SUBSET (A \cap B) : g[D] # h[D]}
<1>1. SUFFICES ASSUME Bad # {} PROVE FALSE OBVIOUS
<1>2. PICK D \in Bad : \A U \in Bad : ~(U \subseteq D /\ U # D)
  <2>1. Bad \in SUBSET (SUBSET S) OBVIOUS
  <2> HIDE DEF Bad
  <2> QED BY <1>1, <2>1, SmallestFamily
<1>3. D # {} BY <1>2 DEF Adds
<1>4. Pick(D) \in D BY <1>3 DEF Pick
<1>5. g[D \ {Pick(D)}] = h[D \ {Pick(D)}] BY <1>2, <1>4
<1>6. D \in SUBSET A /\ D \in SUBSET B /\ g[D] # h[D] BY <1>2
<1>7. g[D] = f[Pick(D)] + g[D \ {Pick(D)}] BY <1>3, <1>6 DEF Adds
<1>8. h[D] = f[Pick(D)] + h[D \ {Pick(D)}] BY <1>3, <1>6 DEF Adds
<1> QED BY <1>5, <1>6, <1>7, <1>8

LEMMA AddsExists ==
  ASSUME NEW f, NEW S, IsFiniteSet(S) PROVE \E g : Adds(g, f, S)
<1> DEFINE Bad == {D \in SUBSET S : ~ \E g : Adds(g, f, D)}
<1>1. SUFFICES ASSUME Bad # {} PROVE FALSE OBVIOUS
<1>2. PICK T \in Bad : \A U \in Bad : ~(U \subseteq T /\ U # T)
  <2>1. Bad \in SUBSET (SUBSET S) OBVIOUS
  <2> HIDE DEF Bad
  <2> QED BY <1>1, <2>1, SmallestFamily
<1> DEFINE H(U) == CHOOSE g : Adds(g, f, U)
           x == Pick(T)
           v == IF T = {} THEN 0 ELSE f[x] + H(T \ {x})[T \ {x}]
           G == [s \in SUBSET T |-> IF s = T THEN v ELSE H(s)[s]]
<1>3. \A U \in SUBSET T : U # T => Adds(H(U), f, U)
  <2> TAKE U \in SUBSET T
  <2> HAVE U # T
  <2>1. \E g : Adds(g, f, U) BY <1>2
  <2> QED BY <2>1
<1>4. ASSUME NEW s \in SUBSET T PROVE G[s] = IF s = {} THEN 0 ELSE f[Pick(s)] + G[s \ {Pick(s)}]
  <2>1. CASE s = {}
    <3>1. CASE s = T BY <3>1, <2>1
    <3>2. CASE s # T
      <4>1. Adds(H(s), f, s) BY <1>3, <3>2
      <4>2. H(s)[s] = 0 BY <4>1, <2>1 DEF Adds
      <4> QED BY <4>2, <3>2, <2>1
    <3> QED BY <3>1, <3>2
  <2>2. CASE s # {}
    <3> DEFINE y == Pick(s)
    <3>1. y \in s BY <2>2 DEF Pick
    <3>2. s \ {y} \in SUBSET T /\ s \ {y} # T BY <3>1
    <3>3. G[s \ {y}] = H(s \ {y})[s \ {y}] BY <3>2
    <3>4. CASE s = T BY <3>4, <3>3, <2>2
    <3>5. CASE s # T
      <4>1. Adds(H(s), f, s) /\ Adds(H(s \ {y}), f, s \ {y}) BY <1>3, <3>5, <3>2
      <4>2. s \ {y} \in SUBSET (s \cap (s \ {y})) OBVIOUS
      <4>3. H(s)[s \ {y}] = H(s \ {y})[s \ {y}]
        <5>1. s \in SUBSET S /\ s \ {y} \in SUBSET S BY <1>2
        <5> HIDE DEF H, G, y
        <5> QED BY <4>1, <4>2, <5>1, AddsAgree, SMTT(60)
      <4>4. H(s)[s] = f[y] + H(s)[s \ {y}] BY <4>1, <2>2 DEF Adds
      <4>5. G[s] = H(s)[s] BY <3>5
      <4> QED BY <4>3, <4>4, <4>5, <3>3, <2>2
    <3> QED BY <3>4, <3>5
  <2> QED BY <2>1, <2>2
<1>5. Adds(G, f, T)
  <2>1. G = [s \in SUBSET T |-> G[s]] OBVIOUS
  <2> HIDE DEF G
  <2> QED BY <2>1, <1>4 DEF Adds
<1> QED BY <1>5, <1>2

LEMMA SumIs ==
  ASSUME NEW f, NEW S, IsFiniteSet(S), NEW g, Adds(g, f, S)
  PROVE  SumFunctionOnSet(f, S) = g[S]
<1> DEFINE it == CHOOSE i : Adds(i, f, S)
<1>1. Adds(it, f, S) BY AddsExists
<1>2. SumFunctionOnSet(f, S) = it[S]
  BY DEF SumFunctionOnSet, FoldFunctionOnSet, MapThenFoldSet, Adds, Pick
<1>3. it[S] = g[S]
  <2> HIDE DEF it
  <2> QED BY <1>1, AddsAgree
<1> QED BY <1>2, <1>3

LEMMA SumEmpty == ASSUME NEW f PROVE SumFunctionOnSet(f, {}) = 0
<1>1. IsFiniteSet({}) BY FS_EmptySet
<1>2. PICK g : Adds(g, f, {}) BY <1>1, AddsExists
<1>3. g[{}] = 0 BY <1>2 DEF Adds
<1> QED BY <1>1, <1>2, <1>3, SumIs

LEMMA SumUnrolled ==
  ASSUME NEW f, NEW S, IsFiniteSet(S), S # {}
  PROVE  SumFunctionOnSet(f, S) = f[Pick(S)] + SumFunctionOnSet(f, S \ {Pick(S)})
<1>1. PICK g : Adds(g, f, S) BY AddsExists
<1>2. PICK h : Adds(h, f, S \ {Pick(S)}) BY AddsExists, FS_RemoveElement
<1>3. IsFiniteSet(S \ {Pick(S)}) BY FS_RemoveElement
<1>4. g[S \ {Pick(S)}] = h[S \ {Pick(S)}]
  <2> DEFINE T == S \ {Pick(S)}
  <2>1. T \in SUBSET S /\ S \in SUBSET S /\ T \in SUBSET (S \cap T) OBVIOUS
  <2>2. Adds(h, f, T) BY <1>2
  <2> HIDE DEF T
  <2>3. g[T] = h[T] BY <1>1, <2>1, <2>2, AddsAgree
  <2> QED BY <2>3 DEF T
<1>5. g[S] = f[Pick(S)] + g[S \ {Pick(S)}] BY <1>1 DEF Adds
<1> QED BY <1>1, <1>2, <1>3, <1>4, <1>5, SumIs

\* The sum of integers is one.
LEMMA SumType ==
  ASSUME NEW S, IsFiniteSet(S), NEW f, \A x \in S : f[x] \in Int
  PROVE  SumFunctionOnSet(f, S) \in Int
<1> DEFINE Bad == {D \in SUBSET S : SumFunctionOnSet(f, D) \notin Int}
<1>1. SUFFICES ASSUME Bad # {} PROVE FALSE OBVIOUS
<1>2. PICK D \in Bad : \A U \in Bad : ~(U \subseteq D /\ U # D)
  <2>1. Bad \in SUBSET (SUBSET S) OBVIOUS
  <2> HIDE DEF Bad
  <2> QED BY <1>1, <2>1, SmallestFamily
<1>3. D # {}
  <2>1. SUFFICES ASSUME D = {} PROVE FALSE OBVIOUS
  <2>2. SumFunctionOnSet(f, D) = 0 BY <2>1, SumEmpty
  <2> QED BY <1>2, <2>2
<1>4. Pick(D) \in D BY <1>3 DEF Pick
<1>5. SumFunctionOnSet(f, D \ {Pick(D)}) \in Int BY <1>2, <1>4
<1>6. SumFunctionOnSet(f, D) = f[Pick(D)] + SumFunctionOnSet(f, D \ {Pick(D)})
  BY <1>3, SumUnrolled, FS_Subset
<1>7. f[Pick(D)] \in Int BY <1>4
<1> QED BY <1>2, <1>5, <1>6, <1>7

\* Any element may be taken first.
LEMMA SumRemove ==
  ASSUME NEW S, IsFiniteSet(S), NEW f, \A x \in S : f[x] \in Int, NEW x \in S
  PROVE  SumFunctionOnSet(f, S) = f[x] + SumFunctionOnSet(f, S \ {x})
<1> DEFINE Sum(T) == SumFunctionOnSet(f, T)
           Bad == {D \in SUBSET S : \E y \in D : Sum(D) # f[y] + Sum(D \ {y})}
<1>1. SUFFICES ASSUME Bad # {} PROVE FALSE OBVIOUS
<1>2. PICK D \in Bad : \A U \in Bad : ~(U \subseteq D /\ U # D)
  <2>1. Bad \in SUBSET (SUBSET S) OBVIOUS
  <2> HIDE DEF Bad
  <2> QED BY <1>1, <2>1, SmallestFamily
<1>3. PICK y \in D : Sum(D) # f[y] + Sum(D \ {y}) BY <1>2
<1> DEFINE z == Pick(D)
<1>4. z \in D BY <1>3 DEF Pick
<1>5. \A T \in SUBSET S : IsFiniteSet(T) /\ Sum(T) \in Int
  <2> TAKE T \in SUBSET S
  <2>1. IsFiniteSet(T) BY FS_Subset
  <2> QED BY <2>1, SumType
<1>6. Sum(D) = f[z] + Sum(D \ {z}) BY <1>3, <1>5, SumUnrolled
<1>7. y # z BY <1>3, <1>6
<1>a. \A U \in SUBSET D : U # D => \A w \in U : Sum(U) = f[w] + Sum(U \ {w})
  <2> TAKE U \in SUBSET D
  <2> HAVE U # D
  <2>1. U \in SUBSET S /\ U \notin Bad BY <1>2
  <2> QED BY <2>1
<1>b. /\ D \ {z} \in SUBSET D /\ D \ {z} # D /\ y \in D \ {z}
      /\ D \ {y} \in SUBSET D /\ D \ {y} # D /\ z \in D \ {y}
  BY <1>4, <1>7
<1>8. Sum(D \ {z}) = f[y] + Sum((D \ {z}) \ {y})
  <2> HIDE DEF Sum, z
  <2> QED BY <1>a, <1>b
<1>9. Sum(D \ {y}) = f[z] + Sum((D \ {y}) \ {z})
  <2> HIDE DEF Sum, z
  <2> QED BY <1>a, <1>b
<1>10. (D \ {z}) \ {y} = (D \ {y}) \ {z} OBVIOUS
<1>11. f[y] \in Int /\ f[z] \in Int /\ Sum((D \ {y}) \ {z}) \in Int BY <1>4, <1>5
<1>12. Sum(D) # f[y] + Sum(D \ {y}) BY <1>3
<1> HIDE DEF Sum, z, Bad
<1>13. Sum(D) = f[z] + (f[y] + Sum((D \ {y}) \ {z})) BY <1>6, <1>8, <1>10
<1>14. f[z] + (f[y] + Sum((D \ {y}) \ {z})) = f[y] + (f[z] + Sum((D \ {y}) \ {z})) BY <1>11
<1> QED BY <1>12, <1>13, <1>14, <1>9

\* Only the values that are added matter.
LEMMA SumSame ==
  ASSUME NEW S, IsFiniteSet(S), NEW f, NEW g, \A x \in S : f[x] = g[x]
  PROVE  SumFunctionOnSet(f, S) = SumFunctionOnSet(g, S)
<1> DEFINE Bad == {D \in SUBSET S : SumFunctionOnSet(f, D) # SumFunctionOnSet(g, D)}
<1>1. SUFFICES ASSUME Bad # {} PROVE FALSE OBVIOUS
<1>2. PICK D \in Bad : \A U \in Bad : ~(U \subseteq D /\ U # D)
  <2>1. Bad \in SUBSET (SUBSET S) OBVIOUS
  <2> HIDE DEF Bad
  <2> QED BY <1>1, <2>1, SmallestFamily
<1>3. D # {} BY <1>2, SumEmpty
<1>4. Pick(D) \in D BY <1>3 DEF Pick
<1>5. SumFunctionOnSet(f, D \ {Pick(D)}) = SumFunctionOnSet(g, D \ {Pick(D)}) BY <1>2, <1>4
<1>6. IsFiniteSet(D) BY FS_Subset
<1>7. SumFunctionOnSet(f, D) = f[Pick(D)] + SumFunctionOnSet(f, D \ {Pick(D)})
  BY <1>3, <1>6, SumUnrolled
<1>8. SumFunctionOnSet(g, D) = g[Pick(D)] + SumFunctionOnSet(g, D \ {Pick(D)})
  BY <1>3, <1>6, SumUnrolled
<1> QED BY <1>2, <1>4, <1>5, <1>7, <1>8

\* The sum over two sets that have nothing in common.
LEMMA SumDisjoint ==
  ASSUME NEW S, IsFiniteSet(S), NEW T, IsFiniteSet(T), S \cap T = {},
         NEW f, \A x \in S \cup T : f[x] \in Int
  PROVE  SumFunctionOnSet(f, S \cup T) = SumFunctionOnSet(f, S) + SumFunctionOnSet(f, T)
<1> DEFINE Sum(U) == SumFunctionOnSet(f, U)
           Bad == {D \in SUBSET T : Sum(S \cup D) # Sum(S) + Sum(D)}
<1>1. SUFFICES ASSUME Bad # {} PROVE FALSE OBVIOUS
<1>2. PICK D \in Bad : \A U \in Bad : ~(U \subseteq D /\ U # D)
  <2>1. Bad \in SUBSET (SUBSET T) OBVIOUS
  <2> HIDE DEF Bad
  <2> QED BY <1>1, <2>1, SmallestFamily
<1>3. D \in SUBSET T /\ Sum(S \cup D) # Sum(S) + Sum(D) BY <1>2
<1>4. IsFiniteSet(S \cup T) BY FS_Union
<1>5. \A U \in SUBSET (S \cup T) : IsFiniteSet(U) /\ Sum(U) \in Int
  <2> TAKE U \in SUBSET (S \cup T)
  <2>1. IsFiniteSet(U) BY <1>4, FS_Subset
  <2> QED BY <2>1, SumType
<1>6. D # {}
  <2>1. SUFFICES ASSUME D = {} PROVE FALSE OBVIOUS
  <2>2. Sum(D) = 0 BY <2>1, SumEmpty
  <2>3. S \cup D = S BY <2>1
  <2>4. Sum(S \cup D) = Sum(S) BY <2>3
  <2>5. Sum(S) \in Int BY <1>5
  <2>6. Sum(S \cup D) # Sum(S) + Sum(D) BY <1>3
  <2> HIDE DEF Sum
  <2> QED BY <2>2, <2>4, <2>5, <2>6
<1>7. PICK x \in D : TRUE BY <1>6
<1> DEFINE E == D \ {x}
<1>8. E \subseteq D /\ E # D /\ E \in SUBSET T BY <1>3, <1>7
<1>9. Sum(S \cup E) = Sum(S) + Sum(E) BY <1>2, <1>8
<1>10. Sum(D) = f[x] + Sum(E) BY <1>3, <1>5, <1>7, SumRemove
<1>11. Sum(S \cup D) = f[x] + Sum(S \cup E)
  <2>1. (S \cup D) \ {x} = S \cup E BY <1>3, <1>7
  <2>2. IsFiniteSet(S \cup D) /\ x \in S \cup D /\ \A y \in S \cup D : f[y] \in Int BY <1>3, <1>5, <1>7
  <2>3. Sum(S \cup D) = f[x] + Sum((S \cup D) \ {x}) BY <2>2, SumRemove
  <2> QED BY <2>1, <2>3
<1>12. f[x] \in Int /\ Sum(E) \in Int /\ Sum(S) \in Int BY <1>3, <1>5, <1>7, <1>8
<1> HIDE DEF Sum, E
<1> QED BY <1>3, <1>9, <1>10, <1>11, <1>12

LEMMA SumNat ==
  ASSUME NEW S, IsFiniteSet(S), NEW f, \A x \in S : f[x] \in Nat
  PROVE  SumFunctionOnSet(f, S) \in Nat /\ \A x \in S : f[x] <= SumFunctionOnSet(f, S)
<1> DEFINE Bad == {D \in SUBSET S : SumFunctionOnSet(f, D) \notin Nat}
<1>1. ASSUME NEW D \in SUBSET S, NEW x \in D
      PROVE  /\ f[x] \in Nat /\ SumFunctionOnSet(f, D) \in Int
             /\ SumFunctionOnSet(f, D) = f[x] + SumFunctionOnSet(f, D \ {x})
  <2>1. IsFiniteSet(D) /\ \A y \in D : f[y] \in Int BY FS_Subset
  <2> QED BY <2>1, SumRemove, SumType
<1>2. Bad = {}
  <2>1. SUFFICES ASSUME Bad # {} PROVE FALSE OBVIOUS
  <2>2. PICK D \in Bad : \A U \in Bad : ~(U \subseteq D /\ U # D)
    <3>1. Bad \in SUBSET (SUBSET S) OBVIOUS
    <3> HIDE DEF Bad
    <3> QED BY <2>1, <3>1, SmallestFamily
  <2>3. D # {}
    <3>1. SUFFICES ASSUME D = {} PROVE FALSE OBVIOUS
    <3>2. SumFunctionOnSet(f, D) = 0 BY <3>1, SumEmpty
    <3> QED BY <2>2, <3>2
  <2>4. PICK x \in D : TRUE BY <2>3
  <2>5. SumFunctionOnSet(f, D \ {x}) \in Nat BY <2>2, <2>4
  <2>6. f[x] \in Nat /\ SumFunctionOnSet(f, D) = f[x] + SumFunctionOnSet(f, D \ {x})
    BY <1>1, <2>2, <2>4
  <2> QED BY <2>2, <2>5, <2>6
<1>3. ASSUME NEW x \in S PROVE f[x] <= SumFunctionOnSet(f, S)
  <2>1. S \in SUBSET S /\ S \ {x} \in SUBSET S OBVIOUS
  <2>2. SumFunctionOnSet(f, S \ {x}) \in Nat BY <1>2, <2>1
  <2>3. f[x] \in Nat /\ SumFunctionOnSet(f, S) = f[x] + SumFunctionOnSet(f, S \ {x})
    BY <1>1, <2>1
  <2> QED BY <2>2, <2>3
<1> QED BY <1>2, <1>3

LEMMA SumAdded ==
  ASSUME NEW S, IsFiniteSet(S), NEW x, x \notin S, NEW f, \A y \in S \cup {x} : f[y] \in Int
  PROVE  SumFunctionOnSet(f, S \cup {x}) = f[x] + SumFunctionOnSet(f, S)
<1>1. IsFiniteSet(S \cup {x}) BY FS_AddElement
<1>2. SumFunctionOnSet(f, S \cup {x}) = f[x] + SumFunctionOnSet(f, (S \cup {x}) \ {x})
  BY <1>1, SumRemove
<1>3. (S \cup {x}) \ {x} = S OBVIOUS
<1> QED BY <1>2, <1>3

LEMMA SumOfFunction ==
  ASSUME NEW f, NEW S, IsFiniteSet(S), NEW g, DOMAIN g = S, \A x \in S : g[x] = f[x]
  PROVE  SumFunction(g) = SumFunctionOnSet(f, S)
BY SumSame DEF SumFunction

-----------------------------------------------------------------------------
(* What an order costs, and what orders add up to. *)

LEMMA RoundedBounds ==
  ASSUME NEW s \in Nat, NEW pct \in 0..100
  PROVE  Rounded(s * pct, 100) \in 0..s
<1> DEFINE x == s * pct
<1>1. x \in Nat /\ x <= 100 * s
  <2>1. s * pct <= s * 100 OBVIOUS
  <2> QED BY <2>1
<1> HIDE DEF x
<1>2. (2 * x + 100) \div 200 \in 0..s BY <1>1
<1>3. Rounded(x, 100) = (2 * x + 100) \div 200 BY <1>1 DEF Rounded
<1> QED BY <1>2, <1>3 DEF x

LEMMA Quotient ==
  ASSUME NEW n \in Nat, NEW d \in Nat \ {0} PROVE n \div d \in Nat
<1>1. n \div d \in Int /\ d * (n \div d) <= n /\ n < d * (n \div d) + d OBVIOUS
<1>2. SUFFICES ASSUME n \div d <= -1 PROVE FALSE BY <1>1
<1>3. d * (n \div d) <= d * (-1) BY <1>1, <1>2
<1>4. d * (n \div d) + d <= 0 BY <1>1, <1>3
<1> QED BY <1>1, <1>4

LEMMA MoneyOf ==
  ASSUME SalesAssumption, NEW o \in Orders
  PROVE  Vat(o) \in Nat /\ Total(o) \in Nat /\ Total(o) - Vat(o) \in Nat /\ Points(o) \in Nat
<1> DEFINE f == [p \in Products |-> Cart[o][p] * Price[p]]
<1>1. IsFiniteSet(Products) /\ \A p \in Products : f[p] \in Nat BY DEF SalesAssumption
<1>2. Subtotal(o) = SumFunctionOnSet(f, Products) BY DEF Subtotal, SumFunction
<1> HIDE DEF f
<1>3. Subtotal(o) \in Nat BY <1>1, <1>2, SumNat
<1>4. DiscountPct \in 0..100 /\ VatPct \in 0..100 BY DEF SalesAssumption
<1>5. Discount(o) \in 0..Subtotal(o) BY <1>3, <1>4, RoundedBounds DEF Discount
<1>6. Subtotal(o) - Discount(o) \in Nat BY <1>3, <1>5
<1>7. Vat(o) \in Nat
  <2> DEFINE rest == Subtotal(o) - Discount(o)
  <2>1. rest \in Nat BY <1>6
  <2> HIDE DEF rest
  <2>2. Rounded(rest * VatPct, 100) \in 0..rest BY <1>4, <2>1, RoundedBounds
  <2>3. Rounded(rest * VatPct, 100) \in Nat BY <2>1, <2>2
  <2> QED BY <2>3 DEF Vat, rest
<1>8. Total(o) \in Nat /\ Total(o) - Vat(o) \in Nat BY <1>3, <1>5, <1>6, <1>7 DEF Total
<1>9. Points(o) \in Nat
  <2>1. RialPerPoint \in Nat \ {0} BY DEF SalesAssumption
  <2> QED BY <1>8, <2>1, Quotient DEF Points
<1> QED BY <1>7, <1>8, <1>9

Totals == [o \in Orders |-> Total(o)]
Vats == [o \in Orders |-> Vat(o)]
Nets == [o \in Orders |-> Total(o) - Vat(o)]
PointsFor == [o \in Orders |-> Points(o)]

LEMMA OrderSums ==
  ASSUME SalesAssumption, NEW S \in SUBSET Orders
  PROVE  /\ IsFiniteSet(S)
         /\ SumOf(S) = SumFunctionOnSet(Totals, S)
         /\ SumFunction([o \in S |-> Vat(o)]) = SumFunctionOnSet(Vats, S)
         /\ SumFunction([o \in S |-> Total(o) - Vat(o)]) = SumFunctionOnSet(Nets, S)
         /\ SumFunction([o \in S |-> Points(o)]) = SumFunctionOnSet(PointsFor, S)
<1>1. IsFiniteSet(S) BY FS_Subset DEF SalesAssumption
<1>2. SumOf(S) = SumFunctionOnSet(Totals, S)
  <2> DEFINE g == [o \in S |-> Total(o)]
  <2>1. DOMAIN g = S /\ \A x \in S : g[x] = Totals[x] BY DEF Totals
  <2> HIDE DEF g
  <2>2. SumFunction(g) = SumFunctionOnSet(Totals, S) BY <1>1, <2>1, SumOfFunction
  <2> QED BY <2>2 DEF g, SumOf
<1>3. SumFunction([o \in S |-> Vat(o)]) = SumFunctionOnSet(Vats, S)
  <2> DEFINE g == [o \in S |-> Vat(o)]
  <2>1. DOMAIN g = S /\ \A x \in S : g[x] = Vats[x] BY DEF Vats
  <2> HIDE DEF g
  <2>2. SumFunction(g) = SumFunctionOnSet(Vats, S) BY <1>1, <2>1, SumOfFunction
  <2> QED BY <2>2 DEF g
<1>4. SumFunction([o \in S |-> Total(o) - Vat(o)]) = SumFunctionOnSet(Nets, S)
  <2> DEFINE g == [o \in S |-> Total(o) - Vat(o)]
  <2>1. DOMAIN g = S /\ \A x \in S : g[x] = Nets[x] BY DEF Nets
  <2> HIDE DEF g
  <2>2. SumFunction(g) = SumFunctionOnSet(Nets, S) BY <1>1, <2>1, SumOfFunction
  <2> QED BY <2>2 DEF g
<1>5. SumFunction([o \in S |-> Points(o)]) = SumFunctionOnSet(PointsFor, S)
  <2> DEFINE g == [o \in S |-> Points(o)]
  <2>1. DOMAIN g = S /\ \A x \in S : g[x] = PointsFor[x] BY DEF PointsFor
  <2> HIDE DEF g
  <2>2. SumFunction(g) = SumFunctionOnSet(PointsFor, S) BY <1>1, <2>1, SumOfFunction
  <2> QED BY <2>2 DEF g
<1> QED BY <1>1, <1>2, <1>3, <1>4, <1>5

LEMMA SumsType ==
  ASSUME SalesAssumption, NEW S \in SUBSET Orders
  PROVE  /\ Cardinality(S) \in Nat
         /\ SumOf(S) \in Nat /\ \A o \in S : Total(o) <= SumOf(S)
         /\ SumFunction([o \in S |-> Vat(o)]) \in Nat
         /\ SumFunction([o \in S |-> Total(o) - Vat(o)]) \in Nat
         /\ SumFunction([o \in S |-> Points(o)]) \in Nat
<1>1. /\ IsFiniteSet(S)
      /\ SumOf(S) = SumFunctionOnSet(Totals, S)
      /\ SumFunction([o \in S |-> Vat(o)]) = SumFunctionOnSet(Vats, S)
      /\ SumFunction([o \in S |-> Total(o) - Vat(o)]) = SumFunctionOnSet(Nets, S)
      /\ SumFunction([o \in S |-> Points(o)]) = SumFunctionOnSet(PointsFor, S)
  BY OrderSums
<1>2. ASSUME NEW o \in S
      PROVE  /\ Totals[o] \in Nat /\ Totals[o] = Total(o)
             /\ Vats[o] \in Nat /\ Nets[o] \in Nat /\ PointsFor[o] \in Nat
  BY MoneyOf DEF Totals, Vats, Nets, PointsFor
<1>3. SumFunctionOnSet(Totals, S) \in Nat /\ \A o \in S : Totals[o] <= SumFunctionOnSet(Totals, S)
  BY <1>1, <1>2, SumNat
<1>4. /\ SumFunctionOnSet(Vats, S) \in Nat /\ SumFunctionOnSet(Nets, S) \in Nat
      /\ SumFunctionOnSet(PointsFor, S) \in Nat
  BY <1>1, <1>2, SumNat
<1>5. Cardinality(S) \in Nat BY <1>1, FS_CardinalityType
<1> QED BY <1>1, <1>2, <1>3, <1>4, <1>5

-----------------------------------------------------------------------------
(* Types *)

Pays == {"cash", "card", "credit", None}
OrderRecord == [status : Statuses, day : Days, used : [Ingredients -> Nat],
                pay : Pays, debtor : Debtors \cup {None}]
ClubRecord == [orders : Nat, spent : Nat, points : Nat]

OrderType == today \in Days /\ order \in [Orders -> OrderRecord]
StockType ==
  /\ stock \in [Ingredients -> Int] /\ net \in [Ingredients -> Int]
  /\ shelf \subseteq Ingredients
  /\ recipe \in [Products -> [Ingredients -> Quantities \cup {0}]]
ClubType ==
  /\ club \in [Phones -> ClubRecord]
  /\ credit \subseteq Debtors /\ debts \subseteq [who : Debtors, order : Orders]
RowType ==
  /\ rows \in [Days -> [Accounts -> Nat]] /\ skipBook \subseteq Days \X Accounts
  /\ asOf \in [Days -> [cash : Accounts, card : Accounts \cup {None}]]
SettingsType == cash \in Accounts /\ card \in Accounts \cup {None} /\ moves \in 0..MaxMoves
ArchiveType == archive \in [Days -> [orders : Nat, revenue : Int, vat : Int]]

LEMMA TypeParts ==
  TypeOK <=> /\ OrderType /\ StockType /\ ClubType /\ RowType /\ SettingsType /\ ArchiveType
BY DEF TypeOK, OrderType, StockType, ClubType, RowType, SettingsType, ArchiveType,
       OrderRecord, ClubRecord, Pays

LEMMA TypeNext ==
  ASSUME OrderType', StockType', ClubType', RowType', SettingsType', ArchiveType'
  PROVE  TypeOK'
BY DEF TypeOK, OrderType, StockType, ClubType, RowType, SettingsType, ArchiveType,
       OrderRecord, ClubRecord, Pays

\* What an action leaves alone keeps its type.
LEMMA TypeStays ==
  ASSUME TypeOK
  PROVE  /\ UNCHANGED <<today, order>> => OrderType'
         /\ UNCHANGED stockVars => StockType'
         /\ UNCHANGED clubVars => ClubType'
         /\ UNCHANGED bookVars => RowType'
         /\ UNCHANGED settings => SettingsType'
         /\ UNCHANGED archive => ArchiveType'
BY TypeParts DEF OrderType, StockType, ClubType, RowType, SettingsType, ArchiveType,
   stockVars, clubVars, bookVars, settings

LEMMA UseType ==
  ASSUME SalesAssumption, StockType, NEW o \in Orders
  PROVE  /\ Use(o) \in [Ingredients -> Nat]
         /\ \A i \in Ingredients : i \notin shelf => Use(o)[i] = 0
<1>1. ASSUME NEW i \in Ingredients PROVE Use(o)[i] \in Nat /\ (i \notin shelf => Use(o)[i] = 0)
  <2> DEFINE f == [p \in Products |-> recipe[p][i] * Cart[o][p]]
  <2>1. IsFiniteSet(Products) BY DEF SalesAssumption
  <2>2. ASSUME NEW p \in Products PROVE f[p] \in Nat
    <3>1. recipe[p][i] \in Nat
      <4>1. recipe[p][i] \in Quantities \cup {0} BY DEF StockType
      <4>2. \A v \in Quantities \cup {0} : v \in Nat BY DEF SalesAssumption
      <4> QED BY <4>1, <4>2
    <3>2. Cart[o][p] \in Nat BY DEF SalesAssumption
    <3> QED BY <3>1, <3>2
  <2>3. Use(o)[i] = IF i \in shelf THEN SumFunctionOnSet(f, Products) ELSE 0
    BY DEF Use, SumFunction
  <2> HIDE DEF f
  <2>4. SumFunctionOnSet(f, Products) \in Nat BY <2>1, <2>2, SumNat
  <2> QED BY <2>3, <2>4
<1>2. Use(o) = [i \in Ingredients |-> Use(o)[i]] BY DEF Use
<1> QED BY <1>1, <1>2

LEMMA SyncType ==
  ASSUME SalesAssumption, RowType, SettingsType, NEW ord, NEW skip, NEW d \in Days,
         SyncSales(ord, skip, d), skipBook' \subseteq Days \X Accounts
  PROVE  RowType'
<1>1. ASSUME NEW a \in Accounts PROVE DayRow(ord, skip, d, a) \in Nat
  <2> DEFINE S == SalesInto(ord, d, a, cash, card)
  <2>1. S \in SUBSET Orders BY DEF SalesInto
  <2>2. DayRow(ord, skip, d, a) = IF <<d, a>> \in skip \/ S = {} THEN 0
                                  ELSE IF SumOf(S) > 0 THEN SumOf(S) ELSE rows[d][a]
    BY DEF DayRow
  <2> HIDE DEF S
  <2>3. SumOf(S) \in Nat BY <2>1, SumsType
  <2>4. rows[d][a] \in Nat BY DEF RowType
  <2> QED BY <2>2, <2>3, <2>4
<1> DEFINE new == [a \in Accounts |-> DayRow(ord, skip, d, a)]
<1>2. new \in [Accounts -> Nat] BY <1>1
<1>3. rows' = [rows EXCEPT ![d] = new] BY DEF SyncSales
<1> HIDE DEF new
<1>4. rows' \in [Days -> [Accounts -> Nat]] BY <1>2, <1>3 DEF RowType
<1>5. asOf' = [asOf EXCEPT ![d] = [cash |-> cash, card |-> card]] BY DEF SyncSales
<1>6. asOf' \in [Days -> [cash : Accounts, card : Accounts \cup {None}]]
  BY <1>5 DEF RowType, SettingsType
<1> QED BY <1>4, <1>6 DEF RowType

LEMMA TouchType ==
  ASSUME SalesAssumption, ClubType, NEW o \in Orders, NEW sign \in {1, -1}, TouchCustomer(o, sign)
  PROVE  club' \in [Phones -> ClubRecord]
<1>1. Total(o) \in Nat /\ Points(o) \in Nat BY MoneyOf
<1>2. CASE PhoneOf[o] = None BY <1>2 DEF TouchCustomer, ClubType
<1>3. CASE PhoneOf[o] # None
  <2> DEFINE ph == PhoneOf[o]
             c == club[ph]
             new == [orders |-> AtLeast0(c.orders + sign),
                     spent  |-> AtLeast0(c.spent + sign * Total(o)),
                     points |-> AtLeast0(c.points + sign * Points(o))]
  <2>1. ph \in Phones BY <1>3 DEF SalesAssumption
  <2>2. c.orders \in Nat /\ c.spent \in Nat /\ c.points \in Nat BY <2>1 DEF ClubType, ClubRecord
  <2>3. \A n \in Int : AtLeast0(n) \in Nat BY DEF AtLeast0
  <2>4. /\ c.orders + sign \in Int /\ c.spent + sign * Total(o) \in Int
        /\ c.points + sign * Points(o) \in Int
    BY <1>1, <2>2
  <2>5. new \in ClubRecord BY <2>3, <2>4 DEF ClubRecord
  <2>6. club' = [club EXCEPT ![ph] = new] BY <1>3 DEF TouchCustomer
  <2> HIDE DEF new
  <2> QED BY <2>5, <2>6 DEF ClubType
<1> QED BY <1>2, <1>3

\* One order is replaced by a record of the right type.
LEMMA OrderSet ==
  ASSUME OrderType, NEW o \in Orders, NEW r \in OrderRecord, order' = [order EXCEPT ![o] = r],
         today' = today
  PROVE  OrderType'
BY DEF OrderType

LEMMA RecordType ==
  ASSUME NEW s \in Statuses, NEW d \in Days, NEW p \in Pays, NEW u \in [Ingredients -> Nat],
         NEW b \in Debtors \cup {None}
  PROVE  [status |-> s, day |-> d, pay |-> p, used |-> u, debtor |-> b] \in OrderRecord
BY DEF OrderRecord

LEMMA NoOrderType ==
  ASSUME SalesAssumption PROVE NoOrder \in OrderRecord
<1>1. 0 \in Days /\ NoUse \in [Ingredients -> Nat] BY DEF Days, SalesAssumption, NoUse
<1> QED BY <1>1 DEF NoOrder, OrderRecord, Pays, Statuses

-----------------------------------------------------------------------------
(* Each action keeps the types. *)

LEMMA SellTypes ==
  ASSUME SalesAssumption, TypeOK, NEW o \in Orders, NEW pay \in {"cash", "card", "credit"},
         NEW c \in Debtor(pay), NEW st \in SOLD, Sell(o, pay, c, st)
  PROVE  TypeOK'
<1> USE TypeParts
<1>1. Use(o) \in [Ingredients -> Nat] BY UseType
<1>2. c \in Debtors \cup {None} BY DEF Debtor
<1> DEFINE r == [status |-> st, day |-> today, pay |-> pay, used |-> Use(o), debtor |-> c]
<1>3. r \in OrderRecord
  <2>1. st \in Statuses /\ pay \in Pays /\ today \in Days BY DEF Statuses, Pays, OrderType
  <2> QED BY <1>1, <1>2, <2>1, RecordType
<1>4. order' = [order EXCEPT ![o] = r] /\ today' = today BY DEF Sell
<1> HIDE DEF r
<1>5. OrderType' BY <1>3, <1>4, OrderSet
<1>6. StockType'
  <2>1. stock' = [i \in Ingredients |-> stock[i] - Use(o)[i]] /\ UNCHANGED <<recipe, shelf, net>>
    BY DEF Sell
  <2>2. \A i \in Ingredients : stock[i] - Use(o)[i] \in Int BY <1>1 DEF StockType
  <2> QED BY <2>1, <2>2 DEF StockType
<1>7. ClubType'
  <2>1. club' \in [Phones -> ClubRecord] BY TouchType DEF Sell
  <2>2. credit' = credit \cup ({c} \ {None}) BY DEF Sell
  <2>3. debts' = IF pay = "credit" /\ Total(o) > 0
                 THEN debts \cup {[who |-> c, order |-> o]} ELSE debts
    BY DEF Sell
  <2>4. pay = "credit" => c \in Debtors BY DEF Debtor
  <2> QED BY <1>2, <2>1, <2>2, <2>3, <2>4 DEF ClubType
<1>8. RowType'
  <2>1. PICK d \in Days : d = today BY DEF OrderType
  <2>2. SyncSales(order', skipBook, d) /\ skipBook' = skipBook BY <2>1 DEF Sell
  <2>3. skipBook' \subseteq Days \X Accounts BY <2>2 DEF RowType
  <2> QED BY <2>2, <2>3, SyncType
<1>9. SettingsType' /\ ArchiveType' BY TypeStays DEF Sell
<1> QED BY <1>5, <1>6, <1>7, <1>8, <1>9, TypeNext

LEMMA CancelTypes ==
  ASSUME SalesAssumption, TypeOK, NEW o \in Orders, CancelOrder(o)
  PROVE  TypeOK'
<1> USE TypeParts
<1> DEFINE r == [NoOrder EXCEPT !.status = "canceled", !.day = order[o].day]
<1>1. r \in OrderRecord
  <2>1. order[o].day \in Days /\ "canceled" \in Statuses BY DEF OrderType, OrderRecord, Statuses
  <2> QED BY <2>1, NoOrderType DEF OrderRecord
<1>2. order' = [order EXCEPT ![o] = r] /\ today' = today BY DEF CancelOrder
<1> HIDE DEF r
<1>3. OrderType' BY <1>1, <1>2, OrderSet
<1>4. SettingsType' /\ ArchiveType' BY TypeStays DEF CancelOrder
<1>5. UNCHANGED <<recipe, shelf, net, credit, skipBook>> BY DEF CancelOrder
<1>6. CASE UNCHANGED <<stock, club, debts, rows, asOf>>
  <2>1. StockType' /\ ClubType' /\ RowType'
    BY <1>5, <1>6, TypeStays DEF stockVars, clubVars, bookVars
  <2> QED BY <1>3, <1>4, <2>1, TypeNext
<1>7. CASE /\ stock' = [i \in Ingredients |-> stock[i] + GivenBack(o)[i]]
           /\ TouchCustomer(o, -1) /\ debts' = DebtDropped(o)
           /\ SyncSales(order', skipBook, order[o].day)
  <2>1. StockType'
    <3>1. \A i \in Ingredients : GivenBack(o)[i] \in Nat
      BY DEF GivenBack, OrderType, OrderRecord
    <3>2. \A i \in Ingredients : stock[i] + GivenBack(o)[i] \in Int BY <3>1 DEF StockType
    <3>3. stock' = [i \in Ingredients |-> stock[i] + GivenBack(o)[i]] BY <1>7
    <3> QED BY <1>5, <3>2, <3>3 DEF StockType
  <2>2. ClubType'
    <3>1. club' \in [Phones -> ClubRecord] BY <1>7, TouchType
    <3>2. debts' \subseteq debts BY <1>7 DEF DebtDropped
    <3> QED BY <1>5, <3>1, <3>2 DEF ClubType
  <2>3. RowType'
    <3>1. PICK d \in Days : d = order[o].day BY DEF OrderType, OrderRecord
    <3>2. SyncSales(order', skipBook, d) BY <1>7, <3>1
    <3>3. skipBook' \subseteq Days \X Accounts BY <1>5 DEF RowType
    <3> QED BY <3>2, <3>3, SyncType
  <2> QED BY <1>3, <1>4, <2>1, <2>2, <2>3, TypeNext
<1> QED BY <1>6, <1>7 DEF CancelOrder

LEMMA MarkTypes ==
  ASSUME SalesAssumption, TypeOK, NEW o \in Orders, CreateOrder(o) \/ SetOrderStatus(o)
  PROVE  TypeOK'
<1> USE TypeParts
<1>1. /\ today' = today
      /\ StockType' /\ ClubType' /\ RowType' /\ SettingsType' /\ ArchiveType'
  BY TypeStays DEF CreateOrder, SetOrderStatus
<1>2. order' \in [Orders -> OrderRecord]
  <2>1. order[o] \in OrderRecord /\ today \in Days BY DEF OrderType
  <2>2. CASE CreateOrder(o)
    <3>1. order' = [order EXCEPT ![o] = [order[o] EXCEPT !.status = "pending", !.day = today]]
      BY <2>2 DEF CreateOrder, OrderType
    <3>2. [order[o] EXCEPT !.status = "pending", !.day = today] \in OrderRecord
      BY <2>1 DEF OrderRecord, Statuses
    <3> QED BY <3>1, <3>2 DEF OrderType
  <2>3. CASE SetOrderStatus(o)
    <3>1. PICK st \in SOLD : order' = [order EXCEPT ![o].status = st]
      BY <2>3 DEF SetOrderStatus, SalesAssumption
    <3>2. [order[o] EXCEPT !.status = st] \in OrderRecord
      <4>1. st \in Statuses BY DEF Statuses
      <4> QED BY <2>1, <4>1 DEF OrderRecord
    <3>3. order' = [order EXCEPT ![o] = [order[o] EXCEPT !.status = st]] BY <3>1
    <3> QED BY <3>2, <3>3 DEF OrderType
  <2> QED BY <2>2, <2>3
<1>3. OrderType' BY <1>1, <1>2 DEF OrderType
<1> QED BY <1>1, <1>3, TypeNext

LEMMA StockTypes ==
  ASSUME SalesAssumption, TypeOK, NEW i \in Ingredients,
         \/ AddPurchase(i) \/ AddWaste(i) \/ CountStock(i) \/ RemoveIngredient(i)
         \/ \E p \in Products : SetBomLine(p, i)
  PROVE  TypeOK'
<1> USE TypeParts
<1>1. /\ UNCHANGED <<today, order>>
      /\ UNCHANGED clubVars /\ UNCHANGED bookVars /\ UNCHANGED settings /\ UNCHANGED archive
  BY DEF AddPurchase, AddWaste, CountStock, Restock, RemoveIngredient, SetBomLine
<1>2. OrderType' /\ ClubType' /\ RowType' /\ SettingsType' /\ ArchiveType' BY <1>1, TypeStays
<1>3. ASSUME NEW n \in Int, Restock(i, n) PROVE StockType'
  BY <1>3 DEF StockType, Restock
<1>4. CASE AddPurchase(i) \/ AddWaste(i) \/ CountStock(i)
  <2>1. stock[i] \in Int /\ Quantities \subseteq Nat /\ MaxStock \in Nat
    BY DEF StockType, SalesAssumption
  <2>2. \E n \in Int : Restock(i, n) BY <1>4, <2>1 DEF AddPurchase, AddWaste, CountStock
  <2> QED BY <1>2, <1>3, <2>2, TypeNext
<1>5. CASE RemoveIngredient(i)
  <2>1. /\ shelf' = shelf \ {i}
        /\ recipe' = [p \in Products |-> [recipe[p] EXCEPT ![i] = 0]]
        /\ stock' = [stock EXCEPT ![i] = 0] /\ net' = [net EXCEPT ![i] = 0]
    BY <1>5 DEF RemoveIngredient
  <2>2. \A p \in Products : [recipe[p] EXCEPT ![i] = 0] \in [Ingredients -> Quantities \cup {0}]
    BY DEF StockType
  <2>3. StockType' BY <2>1, <2>2 DEF StockType
  <2> QED BY <1>2, <2>3, TypeNext
<1>6. ASSUME NEW p \in Products, SetBomLine(p, i) PROVE TypeOK'
  <2>1. PICK q \in Quantities \cup {0} : recipe' = [recipe EXCEPT ![p][i] = q]
    BY <1>6 DEF SetBomLine
  <2>2. UNCHANGED <<stock, shelf, net>> BY <1>6 DEF SetBomLine
  <2>3. StockType' BY <2>1, <2>2 DEF StockType
  <2> QED BY <1>2, <2>3, TypeNext
<1> QED BY <1>4, <1>5, <1>6

LEMMA BookTypes ==
  ASSUME SalesAssumption, TypeOK,
         \/ \E c \in Debtors : DeleteCreditCustomer(c)
         \/ \E e \in debts : DeleteCreditEntry(e)
         \/ \E d \in Days : RebookDay(d) \/ \E a \in Accounts : DeleteDayRow(d, a)
         \/ SetAccount \/ NextDay
  PROVE  TypeOK'
<1> USE TypeParts
<1>1. UNCHANGED <<order, stockVars, club, archive>>
  BY DEF DeleteCreditCustomer, DeleteCreditEntry, RebookDay, DeleteDayRow, SetAccount, NextDay,
         clubVars
<1>2. StockType' /\ ArchiveType' BY <1>1, TypeStays
<1>3. ASSUME UNCHANGED today PROVE OrderType' BY <1>1, <1>3, TypeStays
<1>4. CASE (\E c \in Debtors : DeleteCreditCustomer(c)) \/ \E e \in debts : DeleteCreditEntry(e)
  <2>1. UNCHANGED <<today, bookVars, settings>> /\ debts' \subseteq debts /\ credit' \subseteq credit
    BY <1>4 DEF DeleteCreditCustomer, DeleteCreditEntry
  <2>2. ClubType' BY <1>1, <2>1 DEF ClubType
  <2> QED BY <1>2, <1>3, <2>1, <2>2, TypeStays, TypeNext
<1>5. ASSUME NEW d \in Days, RebookDay(d) PROVE TypeOK'
  <2>1. UNCHANGED <<today, clubVars, settings>> /\ skipBook' = {k \in skipBook : k[1] # d}
        /\ SyncSales(order, skipBook', d)
    BY <1>5 DEF RebookDay
  <2>2. RowType' BY <2>1, SyncType DEF RowType
  <2> QED BY <1>2, <1>3, <2>1, <2>2, TypeStays, TypeNext
<1>6. ASSUME NEW d \in Days, NEW a \in Accounts, DeleteDayRow(d, a) PROVE TypeOK'
  <2>1. UNCHANGED <<today, clubVars, settings, asOf>> /\ skipBook' = skipBook \cup {<<d, a>>}
        /\ rows' = [rows EXCEPT ![d][a] = 0]
    BY <1>6 DEF DeleteDayRow
  <2>2. RowType' BY <2>1 DEF RowType
  <2> QED BY <1>2, <1>3, <2>1, <2>2, TypeStays, TypeNext
<1>7. CASE SetAccount
  <2>1. UNCHANGED <<today, clubVars, bookVars>> /\ cash' \in Accounts /\ card' \in Accounts \cup {None}
        /\ moves < MaxMoves /\ moves' = moves + 1
    BY <1>7 DEF SetAccount
  <2>2. SettingsType' BY <2>1 DEF SettingsType, SalesAssumption
  <2> QED BY <1>2, <1>3, <2>1, <2>2, TypeStays, TypeNext
<1>8. CASE NextDay
  <2>1. UNCHANGED <<clubVars, bookVars, settings>> /\ today < LastDay /\ today' = today + 1
    BY <1>8 DEF NextDay
  <2>2. today' \in Days BY <2>1 DEF OrderType, Days, SalesAssumption
  <2>3. OrderType' BY <1>1, <2>2 DEF OrderType
  <2> QED BY <1>2, <2>1, <2>3, TypeStays, TypeNext
<1> QED BY <1>4, <1>5, <1>6, <1>7, <1>8

LEMMA CompactTypes ==
  ASSUME SalesAssumption, TypeOK, CompactBiz
  PROVE  TypeOK'
<1> USE TypeParts
<1>1. UNCHANGED <<today, stockVars, clubVars, bookVars, settings>> BY DEF CompactBiz
<1>2. StockType' /\ ClubType' /\ RowType' /\ SettingsType' BY <1>1, TypeStays
<1>3. ASSUME NEW o \in Orders PROVE order'[o] \in OrderRecord
  <2>1. order'[o] = IF o \notin Old THEN order[o]
                    ELSE IF order[o].status = "canceled" THEN [NoOrder EXCEPT !.status = "dropped"]
                    ELSE [order[o] EXCEPT !.status = "folded"]
    BY DEF CompactBiz
  <2>2. order[o] \in OrderRecord /\ NoOrder \in OrderRecord BY NoOrderType DEF OrderType
  <2>3. [NoOrder EXCEPT !.status = "dropped"] \in OrderRecord BY <2>2 DEF OrderRecord, Statuses
  <2>4. [order[o] EXCEPT !.status = "folded"] \in OrderRecord BY <2>2 DEF OrderRecord, Statuses
  <2> QED BY <2>1, <2>2, <2>3, <2>4
<1>4. OrderType'
  <2>1. order' = [o \in Orders |-> order'[o]] BY DEF CompactBiz
  <2> QED BY <1>1, <1>3, <2>1 DEF OrderType
<1>5. ArchiveType'
  <2> DEFINE new == [d \in Days |->
       [orders  |-> archive[d].orders + Cardinality(Folded(d)),
        revenue |-> archive[d].revenue + SumFunction([o \in Folded(d) |-> Total(o) - Vat(o)]),
        vat     |-> archive[d].vat + SumFunction([o \in Folded(d) |-> Vat(o)])]]
  <2>1. ASSUME NEW d \in Days
        PROVE  /\ Cardinality(Folded(d)) \in Nat
               /\ SumFunction([o \in Folded(d) |-> Total(o) - Vat(o)]) \in Int
               /\ SumFunction([o \in Folded(d) |-> Vat(o)]) \in Int
    <3> DEFINE S == Folded(d)
    <3>1. S \in SUBSET Orders BY DEF Folded, Old
    <3> HIDE DEF S, new
    <3>2. /\ Cardinality(S) \in Nat /\ SumFunction([o \in S |-> Total(o) - Vat(o)]) \in Nat
          /\ SumFunction([o \in S |-> Vat(o)]) \in Nat
      BY <3>1, SumsType
    <3> QED BY <3>2 DEF S
  <2>2. \A d \in Days : /\ archive[d].orders \in Nat /\ archive[d].revenue \in Int
                        /\ archive[d].vat \in Int
    BY DEF ArchiveType
  <2>3. new \in [Days -> [orders : Nat, revenue : Int, vat : Int]] BY <2>1, <2>2
  <2>4. archive' = new BY DEF CompactBiz
  <2> QED BY <2>3, <2>4 DEF ArchiveType
<1> QED BY <1>2, <1>4, <1>5, TypeNext

LEMMA InitTypes == SalesAssumption /\ Init => TypeOK
<1> SUFFICES ASSUME SalesAssumption, Init PROVE TypeOK OBVIOUS
<1>1. 0 \in Days /\ 0 \in 0..MaxMoves BY DEF Days, SalesAssumption
<1>2. OrderType BY <1>1, NoOrderType DEF Init, OrderType
<1>3. StockType BY DEF Init, StockType, NoUse
<1>4. ClubType BY DEF Init, ClubType, ClubRecord, NoClub
<1>5. SettingsType BY <1>1 DEF Init, SettingsType, SalesAssumption
<1>6. RowType BY <1>5 DEF Init, RowType, SettingsType
<1>7. ArchiveType BY DEF Init, ArchiveType, NoDay
<1> QED BY <1>2, <1>3, <1>4, <1>5, <1>6, <1>7, TypeParts

LEMMA StepTypes == SalesAssumption /\ TypeOK /\ [Next]_vars => TypeOK'
<1> SUFFICES ASSUME SalesAssumption, TypeOK, [Next]_vars PROVE TypeOK' OBVIOUS
<1>1. CASE UNCHANGED vars
  BY <1>1, TypeStays, TypeNext DEF vars, stockVars, clubVars, bookVars, settings
<1>2. ASSUME NEW o \in Orders, ConfirmOrder(o) \/ QuickSale(o) PROVE TypeOK'
  <2>1. \E pay \in {"cash", "card", "credit"}, st \in SOLD : \E c \in Debtor(pay) : Sell(o, pay, c, st)
    BY <1>2 DEF ConfirmOrder, QuickSale, SOLD
  <2> QED BY <2>1, SellTypes
<1>3. ASSUME NEW o \in Orders, CreateOrder(o) \/ SetOrderStatus(o) \/ CancelOrder(o) PROVE TypeOK'
  BY <1>3, MarkTypes, CancelTypes
<1>4. CASE CompactBiz BY <1>4, CompactTypes
<1> QED BY <1>1, <1>2, <1>3, <1>4, StockTypes, BookTypes DEF Next

-----------------------------------------------------------------------------
(* How an action changes which orders are sales that stand, and which are folded. *)

Sold == {o \in Orders : WasSold(o)}
FoldedOn(d) == {o \in Orders : order[o].status = "folded" /\ order[o].day = d}

\* A sale is made, and no other order is touched.
Sale(o) ==
  /\ o \in Orders \ Sold /\ Sold' = Sold \cup {o}
  /\ order'[o].used = Use(o) /\ \A q \in Orders : q # o => order'[q] = order[q]
  /\ \A d \in Days : FoldedOn(d)' = FoldedOn(d)
  /\ stock' = [i \in Ingredients |-> stock[i] - Use(o)[i]] /\ UNCHANGED <<shelf, net, archive>>
  /\ TouchCustomer(o, 1)

\* A sale is undone.
Undo(o) ==
  /\ o \in Sold /\ Sold' = Sold \ {o}
  /\ \A q \in Orders : q # o => order'[q] = order[q]
  /\ \A d \in Days : FoldedOn(d)' = FoldedOn(d)
  /\ stock' = [i \in Ingredients |-> stock[i] + GivenBack(o)[i]] /\ UNCHANGED <<shelf, net, archive>>
  /\ TouchCustomer(o, -1)

\* The sales stay, and the stock moves as far as its history says.
Quiet ==
  /\ Sold' = Sold /\ \A q \in Sold : order'[q].used = order[q].used
  /\ UNCHANGED club
  /\ shelf' \subseteq shelf
  /\ \A i \in shelf' : \E n \in Int : stock'[i] = stock[i] + n /\ net'[i] = net[i] + n

Fold ==
  /\ Quiet /\ CompactBiz
  /\ \A d \in Days : FoldedOn(d)' = FoldedOn(d) \cup Folded(d) /\ FoldedOn(d) \cap Folded(d) = {}

NoFold == (\A d \in Days : FoldedOn(d)' = FoldedOn(d)) /\ UNCHANGED archive

LEMMA SellIsSale ==
  ASSUME TypeOK, NEW o \in Orders, order[o].status \in {"none", "pending"},
         NEW pay, NEW c, NEW st \in SOLD, Sell(o, pay, c, st)
  PROVE  Sale(o)
<1> DEFINE r == [status |-> st, day |-> today, pay |-> pay, used |-> Use(o), debtor |-> c]
<1>1. order' = [order EXCEPT ![o] = r] BY DEF Sell
<1>2. r.status = st /\ r.used = Use(o) OBVIOUS
<1> HIDE DEF r
<1>3. order'[o] = r /\ \A q \in Orders : q # o => order'[q] = order[q]
  BY <1>1, TypeParts DEF OrderType
<1>4. o \notin Sold BY DEF Sold, WasSold, SOLD
<1>5. Sold' = Sold \cup {o}
  <2>1. WasSold(o)' BY <1>2, <1>3 DEF WasSold
  <2>2. \A q \in Orders : q # o => (WasSold(q)' <=> WasSold(q)) BY <1>3 DEF WasSold
  <2> QED BY <2>1, <2>2 DEF Sold
<1>6. ASSUME NEW d \in Days PROVE FoldedOn(d)' = FoldedOn(d)
  <2>1. order'[o].status # "folded" /\ order[o].status # "folded" BY <1>2, <1>3 DEF SOLD
  <2> QED BY <1>3, <2>1 DEF FoldedOn
<1>7. /\ stock' = [i \in Ingredients |-> stock[i] - Use(o)[i]] /\ UNCHANGED <<shelf, net, archive>>
      /\ TouchCustomer(o, 1)
  BY DEF Sell
<1> QED BY <1>2, <1>3, <1>4, <1>5, <1>6, <1>7 DEF Sale

LEMMA CancelIsUndo ==
  ASSUME TypeOK, NEW o \in Orders, CancelOrder(o)
  PROVE  (order[o].status \in SOLD /\ Undo(o)) \/ (Quiet /\ NoFold)
<1> DEFINE r == [NoOrder EXCEPT !.status = "canceled", !.day = order[o].day]
<1>1. order' = [order EXCEPT ![o] = r] BY DEF CancelOrder
<1>2. r.status = "canceled"  BY DEF NoOrder
<1> HIDE DEF r
<1>3. order'[o] = r /\ \A q \in Orders : q # o => order'[q] = order[q]
  BY <1>1, TypeParts DEF OrderType
<1>4. ~WasSold(o)' BY <1>2, <1>3 DEF WasSold, SOLD
<1>5. \A q \in Orders : q # o => (WasSold(q)' <=> WasSold(q)) BY <1>3 DEF WasSold
<1>6. order[o].status # "folded" BY DEF CancelOrder, SOLD
<1>7. ASSUME NEW d \in Days PROVE FoldedOn(d)' = FoldedOn(d)
  BY <1>2, <1>3, <1>6 DEF FoldedOn
<1>8. UNCHANGED <<shelf, net, archive>> BY DEF CancelOrder
<1>9. CASE order[o].status = "pending"
  <2>1. UNCHANGED <<stock, club>> BY <1>9 DEF CancelOrder, SOLD
  <2>2. ~WasSold(o) BY <1>9 DEF WasSold, SOLD
  <2>3. Sold' = Sold BY <1>4, <1>5, <2>2 DEF Sold
  <2>4. \A q \in Sold : order'[q].used = order[q].used BY <1>3, <2>2 DEF Sold
  <2>5. \A i \in shelf' : stock'[i] = stock[i] + 0 /\ net'[i] = net[i] + 0
    BY <1>8, <2>1, TypeParts DEF StockType
  <2> QED BY <1>7, <1>8, <2>1, <2>3, <2>4, <2>5 DEF Quiet, NoFold
<1>10. CASE order[o].status \in SOLD
  <2>1. stock' = [i \in Ingredients |-> stock[i] + GivenBack(o)[i]] /\ TouchCustomer(o, -1)
    BY <1>10 DEF CancelOrder, SOLD
  <2>2. o \in Sold BY <1>10 DEF Sold, WasSold
  <2>3. Sold' = Sold \ {o} BY <1>4, <1>5 DEF Sold
  <2> QED BY <1>3, <1>7, <1>8, <1>10, <2>1, <2>2, <2>3 DEF Undo
<1> QED BY <1>9, <1>10 DEF CancelOrder

\* Marking an order as new, preparing or delivered makes and undoes no sale.
LEMMA MarkIsQuiet ==
  ASSUME SalesAssumption, TypeOK, NEW o \in Orders, CreateOrder(o) \/ SetOrderStatus(o)
  PROVE  Quiet /\ NoFold
<1>1. UNCHANGED <<stock, net, shelf, club, archive>>
  BY DEF CreateOrder, SetOrderStatus, stockVars, clubVars
<1>2. /\ order'[o].status \in SOLD \/ order'[o].status = "pending"
      /\ order'[o].status \in SOLD <=> order[o].status \in SOLD
      /\ order[o].status \in SOLD \/ order[o].status = "none"
      /\ order'[o].used = order[o].used
      /\ \A q \in Orders : q # o => order'[q] = order[q]
  <2>1. CASE CreateOrder(o)
    <3>1. order' = [order EXCEPT ![o] = [order[o] EXCEPT !.status = "pending", !.day = today]]
          /\ order[o].status = "none"
      BY <2>1, TypeParts DEF CreateOrder, OrderType
    <3> DEFINE r == [order[o] EXCEPT !.status = "pending", !.day = today]
    <3>2. r.status = "pending" /\ r.used = order[o].used BY TypeParts DEF OrderType, OrderRecord
    <3> HIDE DEF r
    <3>3. order'[o] = r /\ \A q \in Orders : q # o => order'[q] = order[q]
      BY <3>1, TypeParts DEF OrderType, r
    <3> QED BY <3>1, <3>2, <3>3 DEF SOLD
  <2>2. CASE SetOrderStatus(o)
    <3>1. PICK st \in SOLD : order' = [order EXCEPT ![o].status = st]
      BY <2>2 DEF SetOrderStatus, SalesAssumption
    <3> DEFINE r == [order[o] EXCEPT !.status = st]
    <3>2. r.status = st /\ r.used = order[o].used BY TypeParts DEF OrderType, OrderRecord
    <3>3. order' = [order EXCEPT ![o] = r] BY <3>1
    <3> HIDE DEF r
    <3>4. order'[o] = r /\ \A q \in Orders : q # o => order'[q] = order[q]
      BY <3>3, TypeParts DEF OrderType
    <3>5. order[o].status \in SOLD BY <2>2 DEF SetOrderStatus
    <3> QED BY <3>2, <3>4, <3>5
  <2> QED BY <2>1, <2>2
<1>3. \A q \in Orders : WasSold(q)' <=> WasSold(q) BY <1>2 DEF WasSold, SOLD
<1>4. Sold' = Sold BY <1>3 DEF Sold
<1>5. \A q \in Sold : order'[q].used = order[q].used BY <1>2 DEF Sold
<1>6. \A d \in Days : FoldedOn(d)' = FoldedOn(d) BY <1>2 DEF FoldedOn, SOLD
<1>7. \A i \in shelf' : stock'[i] = stock[i] + 0 /\ net'[i] = net[i] + 0
  BY <1>1, TypeParts DEF StockType
<1> QED BY <1>1, <1>4, <1>5, <1>6, <1>7 DEF Quiet, NoFold

LEMMA CompactIsFold ==
  ASSUME SalesAssumption, TypeOK, CompactBiz
  PROVE  Fold
<1>1. UNCHANGED <<stock, net, shelf, club>> BY DEF CompactBiz, stockVars, clubVars
<1>2. ASSUME NEW o \in Orders
      PROVE  order'[o] = IF o \notin Old THEN order[o]
                         ELSE IF order[o].status = "canceled" THEN [NoOrder EXCEPT !.status = "dropped"]
                         ELSE [order[o] EXCEPT !.status = "folded"]
  BY DEF CompactBiz
<1>3. \A o \in Orders : o \notin Old => order'[o] = order[o] BY <1>2
<1>4. ASSUME NEW o \in Orders, o \in Old, order[o].status = "canceled"
      PROVE  order'[o].status = "dropped"
  BY <1>2, <1>4 DEF NoOrder
<1>5. ASSUME NEW o \in Orders, o \in Old, order[o].status # "canceled"
      PROVE  /\ order'[o].status = "folded" /\ order'[o].day = order[o].day
             /\ order'[o].used = order[o].used /\ order[o].status \in SOLD
  <2>1. order'[o] = [order[o] EXCEPT !.status = "folded"] BY <1>2, <1>5
  <2>2. order[o] \in OrderRecord BY TypeParts DEF OrderType
  <2>3. order[o].status \in SOLD BY <1>5 DEF Old
  <2> QED BY <2>1, <2>2, <2>3 DEF OrderRecord
<1>6. Sold' = Sold /\ \A q \in Sold : order'[q].used = order[q].used
  <2>1. ASSUME NEW o \in Orders
        PROVE  (WasSold(o)' <=> WasSold(o)) /\ (WasSold(o) => order'[o].used = order[o].used)
    <3>1. CASE o \notin Old BY <1>3, <3>1 DEF WasSold
    <3>2. CASE o \in Old /\ order[o].status = "canceled" BY <1>4, <3>2 DEF WasSold, SOLD
    <3>3. CASE o \in Old /\ order[o].status # "canceled" BY <1>5, <3>3 DEF WasSold
    <3> QED BY <3>1, <3>2, <3>3
  <2> QED BY <2>1 DEF Sold
<1>7. Quiet
  <2>1. \A i \in shelf' : stock'[i] = stock[i] + 0 /\ net'[i] = net[i] + 0
    BY <1>1, TypeParts DEF StockType
  <2> QED BY <1>1, <1>6, <2>1 DEF Quiet
<1>8. ASSUME NEW d \in Days
      PROVE  FoldedOn(d)' = FoldedOn(d) \cup Folded(d) /\ FoldedOn(d) \cap Folded(d) = {}
  <2>1. ASSUME NEW o \in Orders
        PROVE  o \in FoldedOn(d)' <=> o \in FoldedOn(d) \/ o \in Folded(d)
    <3>1. CASE o \notin Old BY <1>3, <3>1 DEF FoldedOn, Folded
    <3>2. CASE o \in Old /\ order[o].status = "canceled" BY <1>4, <3>2 DEF FoldedOn, Folded, SOLD
    <3>3. CASE o \in Old /\ order[o].status # "canceled"
      BY <1>5, <3>3 DEF FoldedOn, Folded, SOLD
    <3> QED BY <3>1, <3>2, <3>3
  <2>2. FoldedOn(d) \cap Folded(d) = {} BY DEF FoldedOn, Folded, SOLD
  <2>3. Folded(d) \subseteq Orders /\ FoldedOn(d) \subseteq Orders /\ FoldedOn(d)' \subseteq Orders
    BY DEF FoldedOn, Folded, Old
  <2> QED BY <2>1, <2>2, <2>3
<1> QED BY <1>7, <1>8 DEF Fold

LEMMA RestockIsQuiet ==
  ASSUME SalesAssumption, TypeOK, NEW i \in Ingredients,
         \/ AddPurchase(i) \/ AddWaste(i) \/ CountStock(i) \/ RemoveIngredient(i)
         \/ \E p \in Products : SetBomLine(p, i)
  PROVE  Quiet /\ NoFold
<1> USE TypeParts
<1>1. UNCHANGED <<order, club, archive>>
  BY DEF AddPurchase, AddWaste, CountStock, Restock, RemoveIngredient, SetBomLine, clubVars
<1>2. Sold' = Sold /\ (\A q \in Sold : order'[q].used = order[q].used) /\ NoFold
  BY <1>1 DEF Sold, WasSold, NoFold, FoldedOn
<1>3. \A j \in shelf : stock[j] \in Int /\ net[j] \in Int BY DEF StockType
<1>4. ASSUME NEW n \in Int, Restock(i, n) PROVE Quiet
  <2>1. stock' = [stock EXCEPT ![i] = n] /\ net' = [net EXCEPT ![i] = @ + n - stock[i]]
        /\ shelf' = shelf /\ i \in shelf
    BY <1>4 DEF Restock, stockVars
  <2>2. ASSUME NEW j \in shelf
        PROVE  \E m \in Int : stock'[j] = stock[j] + m /\ net'[j] = net[j] + m
    <3>1. CASE j = i
      <4> DEFINE m == n - stock[i]
      <4>1. stock'[j] = n /\ net'[j] = net[i] + n - stock[i] BY <2>1, <3>1 DEF StockType
      <4>2. m \in Int /\ stock'[j] = stock[j] + m /\ net'[j] = net[j] + m BY <1>3, <3>1, <4>1
      <4> QED BY <4>2
    <3>2. CASE j # i
      <4>1. stock'[j] = stock[j] + 0 /\ net'[j] = net[j] + 0 BY <1>3, <2>1, <3>2 DEF StockType
      <4> QED BY <4>1
    <3> QED BY <3>1, <3>2
  <2> QED BY <1>1, <1>2, <2>1, <2>2 DEF Quiet
<1>5. CASE AddPurchase(i) \/ AddWaste(i) \/ CountStock(i)
  <2>1. stock[i] \in Int /\ Quantities \subseteq Nat /\ MaxStock \in Nat
    BY DEF StockType, SalesAssumption
  <2>2. \E n \in Int : Restock(i, n) BY <1>5, <2>1 DEF AddPurchase, AddWaste, CountStock
  <2> QED BY <1>2, <1>4, <2>2
<1>6. CASE RemoveIngredient(i)
  <2>1. shelf' = shelf \ {i} /\ stock' = [stock EXCEPT ![i] = 0] /\ net' = [net EXCEPT ![i] = 0]
    BY <1>6 DEF RemoveIngredient
  <2>2. \A j \in shelf' : stock'[j] = stock[j] + 0 /\ net'[j] = net[j] + 0
    BY <1>3, <2>1 DEF StockType
  <2> QED BY <1>1, <1>2, <2>1, <2>2 DEF Quiet
<1>7. CASE \E p \in Products : SetBomLine(p, i)
  <2>1. UNCHANGED <<shelf, stock, net>> BY <1>7 DEF SetBomLine
  <2>2. \A j \in shelf' : stock'[j] = stock[j] + 0 /\ net'[j] = net[j] + 0 BY <1>3, <2>1
  <2> QED BY <1>1, <1>2, <2>1, <2>2 DEF Quiet
<1> QED BY <1>5, <1>6, <1>7

LEMMA RestIsQuiet ==
  ASSUME SalesAssumption, TypeOK, UNCHANGED <<order, club, archive, shelf, stock, net>>
  PROVE  Quiet /\ NoFold
<1>1. \A j \in shelf' : stock'[j] = stock[j] + 0 /\ net'[j] = net[j] + 0 BY TypeParts DEF StockType
<1>2. Sold' = Sold /\ (\A q \in Sold : order'[q].used = order[q].used) BY DEF Sold, WasSold
<1>3. NoFold BY DEF NoFold, FoldedOn
<1> QED BY <1>1, <1>2, <1>3 DEF Quiet

LEMMA StepKinds ==
  ASSUME SalesAssumption, TypeOK, [Next]_vars
  PROVE  \/ \E o \in Orders : Sale(o) \/ (order[o].status \in SOLD /\ Undo(o))
         \/ Fold \/ (Quiet /\ NoFold)
<1>1. CASE UNCHANGED vars
  BY <1>1, RestIsQuiet DEF vars
<1>2. ASSUME NEW o \in Orders, ConfirmOrder(o) \/ QuickSale(o) PROVE Sale(o)
  <2>1. PICK pay \in {"cash", "card", "credit"}, st \in SOLD : \E c \in Debtor(pay) : Sell(o, pay, c, st)
    BY <1>2 DEF ConfirmOrder, QuickSale, SOLD
  <2>2. order[o].status \in {"none", "pending"} BY <1>2 DEF ConfirmOrder, QuickSale
  <2> QED BY <2>1, <2>2, SellIsSale
<1>3. ASSUME NEW o \in Orders, CreateOrder(o) \/ SetOrderStatus(o) PROVE Quiet /\ NoFold
  BY <1>3, MarkIsQuiet
<1>4. ASSUME NEW o \in Orders, CancelOrder(o)
      PROVE  (order[o].status \in SOLD /\ Undo(o)) \/ (Quiet /\ NoFold)
  BY <1>4, CancelIsUndo
<1>5. CASE CompactBiz BY <1>5, CompactIsFold
<1>6. ASSUME NEW i \in Ingredients,
             \/ AddPurchase(i) \/ AddWaste(i) \/ CountStock(i) \/ RemoveIngredient(i)
             \/ \E p \in Products : SetBomLine(p, i)
      PROVE  Quiet /\ NoFold
  BY <1>6, RestockIsQuiet
<1>7. CASE \/ \E c \in Debtors : DeleteCreditCustomer(c)
           \/ \E e \in debts : DeleteCreditEntry(e)
           \/ \E d \in Days : RebookDay(d) \/ \E a \in Accounts : DeleteDayRow(d, a)
           \/ SetAccount \/ NextDay
  <2>1. UNCHANGED <<order, club, archive, shelf, stock, net>>
    BY <1>7 DEF DeleteCreditCustomer, DeleteCreditEntry, RebookDay, DeleteDayRow, SetAccount,
                NextDay, stockVars, clubVars
  <2> QED BY <2>1, RestIsQuiet
<1> QED BY <1>1, <1>2, <1>3, <1>4, <1>5, <1>6, <1>7 DEF Next

-----------------------------------------------------------------------------
(* Stock *)

UsedOf(ord, i) == [o \in Orders |-> ord[o].used[i]]
Stocked(i, ord, S, st, nt) == st[i] = nt[i] - SumFunctionOnSet(UsedOf(ord, i), S)

LEMMA UsedSum ==
  ASSUME SalesAssumption, NEW ord, NEW i, NEW S \in SUBSET Orders
  PROVE  /\ SumFunction([o \in S |-> ord[o].used[i]]) = SumFunctionOnSet(UsedOf(ord, i), S)
         /\ IsFiniteSet(S)
<1>1. IsFiniteSet(S) BY FS_Subset DEF SalesAssumption
<1> DEFINE g == [o \in S |-> ord[o].used[i]]
<1>2. DOMAIN g = S /\ \A x \in S : g[x] = UsedOf(ord, i)[x] BY DEF UsedOf
<1> HIDE DEF g
<1>3. SumFunction(g) = SumFunctionOnSet(UsedOf(ord, i), S) BY <1>1, <1>2, SumOfFunction
<1> QED BY <1>1, <1>3 DEF g

LEMMA StockAs ==
  ASSUME SalesAssumption
  PROVE  /\ StockIsSales <=> \A i \in shelf : Stocked(i, order, Sold, stock, net)
         /\ StockIsSales' <=> \A i \in shelf' : Stocked(i, order', Sold', stock', net')
<1>1. Sold \in SUBSET Orders /\ Sold' \in SUBSET Orders BY DEF Sold
<1>2. StockIsSales <=> \A i \in shelf : stock[i] = net[i] - SumFunction([o \in Sold |-> order[o].used[i]])
  BY DEF StockIsSales, Sold
<1>3. StockIsSales' <=>
        \A i \in shelf' : stock'[i] = net'[i] - SumFunction([o \in Sold' |-> order'[o].used[i]])
  BY DEF StockIsSales, Sold
<1>4. \A i : /\ SumFunction([o \in Sold |-> order[o].used[i]]) = SumFunctionOnSet(UsedOf(order, i), Sold)
             /\ SumFunction([o \in Sold' |-> order'[o].used[i]]) = SumFunctionOnSet(UsedOf(order', i), Sold')
  <2> TAKE i
  <2> DEFINE S == Sold
             T == Sold'
             b == order
             c == order'
  <2>1. S \in SUBSET Orders /\ T \in SUBSET Orders BY <1>1
  <2> HIDE DEF S, T, b, c
  <2>2. /\ SumFunction([o \in S |-> b[o].used[i]]) = SumFunctionOnSet(UsedOf(b, i), S)
        /\ SumFunction([o \in T |-> c[o].used[i]]) = SumFunctionOnSet(UsedOf(c, i), T)
    BY <2>1, UsedSum
  <2> QED BY <2>2 DEF S, T, b, c
<1>5. StockIsSales <=> \A i \in shelf : Stocked(i, order, Sold, stock, net)
  BY <1>2, <1>4 DEF Stocked
<1>6. StockIsSales' <=> \A i \in shelf' : Stocked(i, order', Sold', stock', net')
  BY <1>3, <1>4 DEF Stocked
<1> QED BY <1>5, <1>6

\* The sum over the sales when none changes, and when one comes.
LEMMA UsedSame ==
  ASSUME SalesAssumption, NEW S \in SUBSET Orders, NEW b, NEW c, NEW i,
         \A o \in S : b[o].used[i] \in Nat, \A o \in S : c[o].used[i] = b[o].used[i]
  PROVE  /\ SumFunctionOnSet(UsedOf(b, i), S) \in Nat
         /\ SumFunctionOnSet(UsedOf(c, i), S) = SumFunctionOnSet(UsedOf(b, i), S)
<1> DEFINE f == UsedOf(b, i)
           g == UsedOf(c, i)
<1>1. IsFiniteSet(S) BY FS_Subset DEF SalesAssumption
<1>2. \A o \in S : f[o] \in Nat /\ g[o] = f[o] BY DEF UsedOf
<1> HIDE DEF f, g
<1>3. SumFunctionOnSet(f, S) \in Nat BY <1>1, <1>2, SumNat
<1>4. SumFunctionOnSet(g, S) = SumFunctionOnSet(f, S) BY <1>1, <1>2, SumSame
<1> QED BY <1>3, <1>4 DEF f, g

IsMore(new, n, old) == new = n + old

LEMMA UsedMore ==
  ASSUME SalesAssumption, NEW S \in SUBSET Orders, NEW b, NEW c, NEW i, NEW x \in Orders, x \notin S,
         \A o \in S : b[o].used[i] \in Nat, \A o \in S : c[o].used[i] = b[o].used[i],
         NEW n, n \in Nat, c[x].used[i] = n
  PROVE  IsMore(SumFunctionOnSet(UsedOf(c, i), S \cup {x}), n, SumFunctionOnSet(UsedOf(b, i), S))
<1> DEFINE f == UsedOf(b, i)
           g == UsedOf(c, i)
<1>1. IsFiniteSet(S) BY FS_Subset DEF SalesAssumption
<1>2. (\A o \in S : f[o] \in Nat /\ g[o] = f[o]) /\ g[x] = n BY DEF UsedOf
<1> HIDE DEF f, g
<1>3. SumFunctionOnSet(g, S) = SumFunctionOnSet(f, S) BY <1>1, <1>2, SumSame
<1>4. \A o \in S \cup {x} : g[o] \in Int BY <1>2
<1>5. SumFunctionOnSet(g, S \cup {x}) = g[x] + SumFunctionOnSet(g, S) BY <1>1, <1>4, SumAdded
<1> QED BY <1>2, <1>3, <1>5 DEF f, g, IsMore

LEMMA StockStep ==
  ASSUME SalesAssumption, TypeOK, StockIsSales, [Next]_vars
  PROVE  StockIsSales'
<1>1. /\ \A i \in shelf : Stocked(i, order, Sold, stock, net)
      /\ shelf \subseteq Ingredients
      /\ \A i \in Ingredients : stock[i] \in Int /\ net[i] \in Int
  BY StockAs, TypeParts DEF StockType
<1>2. \A o \in Orders, i \in Ingredients : order[o].used[i] \in Nat
  BY TypeParts DEF OrderType, OrderRecord
<1>3. Sold \in SUBSET Orders BY DEF Sold
<1>4. ASSUME NEW o \in Orders, Sale(o), NEW i \in shelf' PROVE Stocked(i, order', Sold', stock', net')
  <2> DEFINE S == Sold
             b == order
             c == order'
  <2>1. /\ i \in shelf /\ i \in Ingredients /\ o \in Orders \ S /\ Sold' = S \cup {o}
        /\ c[o].used = Use(o) /\ (\A q \in Orders : q # o => c[q] = b[q])
        /\ stock'[i] = stock[i] - Use(o)[i] /\ net' = net
    BY <1>1, <1>4 DEF Sale
  <2>2. Use(o)[i] \in Nat BY <2>1, UseType, TypeParts
  <2>3. /\ S \in SUBSET Orders /\ (\A q \in S : b[q].used[i] \in Nat)
        /\ stock[i] = net[i] - SumFunctionOnSet(UsedOf(b, i), S)
    BY <1>1, <1>2, <1>3, <2>1 DEF Stocked
  <2> HIDE DEF S, b, c
  <2>4. (\A q \in S : c[q].used[i] = b[q].used[i]) /\ c[o].used[i] = Use(o)[i] BY <2>1, <2>3
  <2>5. SumFunctionOnSet(UsedOf(c, i), S \cup {o}) = Use(o)[i] + SumFunctionOnSet(UsedOf(b, i), S)
        /\ SumFunctionOnSet(UsedOf(b, i), S) \in Nat
    <3>1. SumFunctionOnSet(UsedOf(b, i), S) \in Nat BY <2>3, <2>4, UsedSame
    <3>2. c[o].used[i] = Use(o)[i] /\ Use(o)[i] \in Nat /\ o \in Orders /\ o \notin S BY <2>1, <2>2, <2>4
    <3>3. S \in SUBSET Orders /\ (\A q \in S : b[q].used[i] \in Nat) BY <2>3
    <3>4. \A q \in S : c[q].used[i] = b[q].used[i] BY <2>4
    <3>5. IsMore(SumFunctionOnSet(UsedOf(c, i), S \cup {o}), Use(o)[i], SumFunctionOnSet(UsedOf(b, i), S))
      BY <3>2, <3>3, <3>4, UsedMore
    <3> QED BY <3>1, <3>5 DEF IsMore
  <2>6. stock'[i] = net'[i] - SumFunctionOnSet(UsedOf(c, i), S \cup {o})
    BY <1>1, <2>1, <2>2, <2>3, <2>5
  <2> QED BY <2>1, <2>6 DEF Stocked, c
<1>5. ASSUME NEW o \in Orders, Undo(o), NEW i \in shelf' PROVE Stocked(i, order', Sold', stock', net')
  <2> DEFINE S == Sold
             T == Sold'
             b == order
             c == order'
  <2>1. /\ i \in shelf /\ i \in Ingredients /\ o \in Orders \ T /\ S = T \cup {o} /\ T \in SUBSET Orders
        /\ (\A q \in T : c[q] = b[q])
        /\ stock'[i] = stock[i] + GivenBack(o)[i] /\ net' = net
    BY <1>1, <1>3, <1>5 DEF Undo
  <2>2. GivenBack(o)[i] = b[o].used[i] BY <2>1 DEF GivenBack
  <2>3. (\A q \in Orders : b[q].used[i] \in Nat) /\ stock[i] = net[i] - SumFunctionOnSet(UsedOf(b, i), S)
    BY <1>1, <1>2, <2>1 DEF Stocked
  <2> HIDE DEF S, T, b, c
  <2>4. \A q \in T : c[q].used[i] = b[q].used[i] /\ b[q].used[i] \in Nat BY <2>1, <2>3
  <2>5. /\ SumFunctionOnSet(UsedOf(c, i), T) = SumFunctionOnSet(UsedOf(b, i), T)
        /\ SumFunctionOnSet(UsedOf(b, i), T) \in Nat
    BY <2>1, <2>4, UsedSame
  <2>6. SumFunctionOnSet(UsedOf(b, i), S) = b[o].used[i] + SumFunctionOnSet(UsedOf(b, i), T)
    <3>1. (\A q \in T : b[q].used[i] \in Nat) /\ (\A q \in T : b[q].used[i] = b[q].used[i]) BY <2>4
    <3>2. b[o].used[i] \in Nat /\ T \in SUBSET Orders /\ o \in Orders /\ o \notin T BY <2>1, <2>3
    <3>3. IsMore(SumFunctionOnSet(UsedOf(b, i), T \cup {o}), b[o].used[i], SumFunctionOnSet(UsedOf(b, i), T))
      BY <3>1, <3>2, UsedMore
    <3> QED BY <2>1, <3>3 DEF IsMore
  <2>7. stock'[i] = net'[i] - SumFunctionOnSet(UsedOf(c, i), T)
    BY <1>1, <2>1, <2>2, <2>3, <2>5, <2>6
  <2> QED BY <2>7 DEF Stocked, c, T
<1>6. ASSUME Quiet, NEW i \in shelf' PROVE Stocked(i, order', Sold', stock', net')
  <2> DEFINE S == Sold
             b == order
             c == order'
  <2>1. PICK n \in Int : stock'[i] = stock[i] + n /\ net'[i] = net[i] + n BY <1>6 DEF Quiet
  <2>2. i \in shelf /\ i \in Ingredients /\ Sold' = S /\ \A q \in S : c[q].used = b[q].used
    BY <1>1, <1>6 DEF Quiet
  <2>3. /\ S \in SUBSET Orders /\ (\A q \in S : b[q].used[i] \in Nat)
        /\ stock[i] = net[i] - SumFunctionOnSet(UsedOf(b, i), S)
    BY <1>1, <1>2, <1>3, <2>2 DEF Stocked
  <2> HIDE DEF S, b, c
  <2>4. /\ SumFunctionOnSet(UsedOf(c, i), S) = SumFunctionOnSet(UsedOf(b, i), S)
        /\ SumFunctionOnSet(UsedOf(b, i), S) \in Nat
    <3>1. \A q \in S : c[q].used[i] = b[q].used[i] BY <2>2
    <3> QED BY <2>3, <3>1, UsedSame
  <2>5. stock'[i] = net'[i] - SumFunctionOnSet(UsedOf(c, i), S) BY <1>1, <2>1, <2>2, <2>3, <2>4
  <2> QED BY <2>2, <2>5 DEF Stocked, c
<1>7. \A i \in shelf' : Stocked(i, order', Sold', stock', net')
  BY <1>4, <1>5, <1>6, StepKinds DEF Fold
<1> QED BY <1>7, StockAs

-----------------------------------------------------------------------------
(* Customers *)

Buys(ph) == {o \in Orders : WasSold(o) /\ PhoneOf[o] = ph}
ClubOf(S) == [orders |-> Cardinality(S), spent |-> SumOf(S), points |-> SumFunction([o \in S |-> Points(o)])]

LEMMA ClubAs == /\ ClubIsSales <=> \A ph \in Phones : club[ph] = ClubOf(Buys(ph))
                /\ ClubIsSales' <=> \A ph \in Phones : club'[ph] = ClubOf(Buys(ph)')
BY DEF ClubIsSales, ClubOf, Buys

LEMMA ClubAdds ==
  ASSUME SalesAssumption, NEW S \in SUBSET Orders, NEW o \in Orders \ S
  PROVE  /\ ClubOf(S \cup {o}).orders = ClubOf(S).orders + 1
         /\ ClubOf(S \cup {o}).spent = ClubOf(S).spent + Total(o)
         /\ ClubOf(S \cup {o}).points = ClubOf(S).points + Points(o)
         /\ ClubOf(S).orders \in Nat /\ ClubOf(S).spent \in Nat /\ ClubOf(S).points \in Nat
         /\ Total(o) \in Nat /\ Points(o) \in Nat
<1> DEFINE T == S \cup {o}
<1>1. T \in SUBSET Orders OBVIOUS
<1>2. /\ IsFiniteSet(S) /\ SumOf(S) = SumFunctionOnSet(Totals, S)
      /\ SumFunction([x \in S |-> Points(x)]) = SumFunctionOnSet(PointsFor, S)
  BY OrderSums
<1>3. /\ Cardinality(S) \in Nat /\ SumOf(S) \in Nat /\ SumFunction([x \in S |-> Points(x)]) \in Nat
  BY SumsType
<1>4. /\ SumOf(T) = SumFunctionOnSet(Totals, T)
      /\ SumFunction([x \in T |-> Points(x)]) = SumFunctionOnSet(PointsFor, T)
  <2> HIDE DEF T
  <2> QED BY <1>1, OrderSums
<1>5. Cardinality(T) = Cardinality(S) + 1 BY <1>2, FS_AddElement
<1>6. \A x \in T : /\ Totals[x] \in Int /\ Totals[x] = Total(x)
                   /\ PointsFor[x] \in Int /\ PointsFor[x] = Points(x)
  BY MoneyOf DEF Totals, PointsFor
<1>7. /\ SumFunctionOnSet(Totals, T) = Total(o) + SumFunctionOnSet(Totals, S)
      /\ SumFunctionOnSet(PointsFor, T) = Points(o) + SumFunctionOnSet(PointsFor, S)
  BY <1>2, <1>6, SumAdded
<1>8. Total(o) \in Nat /\ Points(o) \in Nat BY MoneyOf
<1>9. /\ ClubOf(S).orders = Cardinality(S) /\ ClubOf(S).spent = SumOf(S)
      /\ ClubOf(S).points = SumFunction([x \in S |-> Points(x)])
  BY DEF ClubOf
<1>10. /\ ClubOf(T).orders = Cardinality(T) /\ ClubOf(T).spent = SumOf(T)
       /\ ClubOf(T).points = SumFunction([x \in T |-> Points(x)])
  BY DEF ClubOf
<1> HIDE DEF T
<1>11. /\ ClubOf(T).orders = ClubOf(S).orders + 1
       /\ ClubOf(T).spent = ClubOf(S).spent + Total(o)
       /\ ClubOf(T).points = ClubOf(S).points + Points(o)
  BY <1>2, <1>3, <1>4, <1>5, <1>7, <1>8, <1>9, <1>10
<1> QED BY <1>3, <1>8, <1>9, <1>11 DEF T

LEMMA ClubFields ==
  ASSUME NEW S
  PROVE  ClubOf(S) = [orders |-> ClubOf(S).orders, spent |-> ClubOf(S).spent, points |-> ClubOf(S).points]
BY DEF ClubOf

\* What touchCustomer makes of a customer's record, and that it leaves the others alone.
LEMMA Touched ==
  ASSUME SalesAssumption, ClubType, NEW o \in Orders, NEW sign, TouchCustomer(o, sign)
  PROVE  /\ \A ph \in Phones : ph # PhoneOf[o] => club'[ph] = club[ph]
         /\ PhoneOf[o] \in Phones =>
              club'[PhoneOf[o]] = [orders |-> AtLeast0(club[PhoneOf[o]].orders + sign),
                                   spent  |-> AtLeast0(club[PhoneOf[o]].spent + sign * Total(o)),
                                   points |-> AtLeast0(club[PhoneOf[o]].points + sign * Points(o))]
<1> DEFINE ph == PhoneOf[o]
           new == [orders |-> AtLeast0(club[ph].orders + sign),
                   spent  |-> AtLeast0(club[ph].spent + sign * Total(o)),
                   points |-> AtLeast0(club[ph].points + sign * Points(o))]
<1>1. CASE ph = None
  <2>1. club' = club /\ ph \notin Phones BY <1>1 DEF TouchCustomer, SalesAssumption
  <2> QED BY <2>1
<1>2. CASE ph # None
  <2>1. club' = [club EXCEPT ![ph] = new] BY <1>2 DEF TouchCustomer
  <2> HIDE DEF new
  <2>2. \A q \in Phones : club'[q] = IF q = ph THEN new ELSE club[q] BY <2>1 DEF ClubType
  <2> QED BY <2>2 DEF new
<1> QED BY <1>1, <1>2

LEMMA ClubStep ==
  ASSUME SalesAssumption, TypeOK, ClubIsSales, [Next]_vars
  PROVE  ClubIsSales'
<1>0. ClubType /\ \A ph \in Phones : club[ph] = ClubOf(Buys(ph)) BY ClubAs, TypeParts
<1>1. \A ph : Buys(ph) = {q \in Sold : PhoneOf[q] = ph} /\ Buys(ph)' = {q \in Sold' : PhoneOf[q] = ph}
  BY DEF Buys, Sold
<1>2. Sold \subseteq Orders /\ Sold' \subseteq Orders BY DEF Sold
<1>3. ASSUME NEW o \in Orders, Sale(o), NEW ph \in Phones PROVE club'[ph] = ClubOf(Buys(ph)')
  <2>1. o \notin Sold /\ Sold' = Sold \cup {o} /\ TouchCustomer(o, 1) BY <1>3 DEF Sale
  <2>2. CASE ph # PhoneOf[o]
    <3>1. Buys(ph)' = Buys(ph) BY <1>1, <2>1, <2>2
    <3>2. club'[ph] = club[ph] BY <1>0, <2>1, <2>2, Touched
    <3> QED BY <1>0, <3>1, <3>2
  <2>3. CASE ph = PhoneOf[o]
    <3> DEFINE S == Buys(ph)
    <3>1. Buys(ph)' = S \cup {o} /\ S \in SUBSET Orders /\ o \in Orders \ S BY <1>1, <1>2, <2>1, <2>3
    <3>2. club[ph] = ClubOf(S) BY <1>0
    <3>3. club'[ph] = [orders |-> AtLeast0(club[ph].orders + 1),
                       spent  |-> AtLeast0(club[ph].spent + 1 * Total(o)),
                       points |-> AtLeast0(club[ph].points + 1 * Points(o))]
      BY <1>0, <2>1, <2>3, Touched
    <3> HIDE DEF S
    <3> DEFINE T == S \cup {o}
    <3>4. /\ ClubOf(T).orders = ClubOf(S).orders + 1
          /\ ClubOf(T).spent = ClubOf(S).spent + Total(o)
          /\ ClubOf(T).points = ClubOf(S).points + Points(o)
          /\ ClubOf(S).orders \in Nat /\ ClubOf(S).spent \in Nat /\ ClubOf(S).points \in Nat
          /\ Total(o) \in Nat /\ Points(o) \in Nat
      BY <3>1, ClubAdds
    <3> HIDE DEF T
    <3>5. /\ AtLeast0(club[ph].orders + 1) = ClubOf(T).orders
          /\ AtLeast0(club[ph].spent + 1 * Total(o)) = ClubOf(T).spent
          /\ AtLeast0(club[ph].points + 1 * Points(o)) = ClubOf(T).points
      BY <3>2, <3>4 DEF AtLeast0
    <3>6. club'[ph] = ClubOf(T) BY <3>3, <3>5, ClubFields
    <3> QED BY <3>1, <3>6 DEF T
  <2> QED BY <2>2, <2>3
<1>4. ASSUME NEW o \in Orders, Undo(o), NEW ph \in Phones PROVE club'[ph] = ClubOf(Buys(ph)')
  <2>1. o \in Sold /\ Sold' = Sold \ {o} /\ TouchCustomer(o, -1) BY <1>4 DEF Undo
  <2>2. CASE ph # PhoneOf[o]
    <3>1. Buys(ph)' = Buys(ph) BY <1>1, <2>1, <2>2
    <3>2. club'[ph] = club[ph] BY <1>0, <2>1, <2>2, Touched
    <3> QED BY <1>0, <3>1, <3>2
  <2>3. CASE ph = PhoneOf[o]
    <3> DEFINE S == Buys(ph) \ {o}
               T == S \cup {o}
    <3>1. Buys(ph)' = S /\ Buys(ph) = T /\ S \in SUBSET Orders /\ o \in Orders \ S
      BY <1>1, <1>2, <2>1, <2>3
    <3>2. club[ph] = ClubOf(T) BY <1>0, <3>1
    <3>3. club'[ph] = [orders |-> AtLeast0(club[ph].orders + (-1)),
                       spent  |-> AtLeast0(club[ph].spent + (-1) * Total(o)),
                       points |-> AtLeast0(club[ph].points + (-1) * Points(o))]
      BY <1>0, <2>1, <2>3, Touched
    <3> HIDE DEF S
    <3>4. /\ ClubOf(T).orders = ClubOf(S).orders + 1
          /\ ClubOf(T).spent = ClubOf(S).spent + Total(o)
          /\ ClubOf(T).points = ClubOf(S).points + Points(o)
          /\ ClubOf(S).orders \in Nat /\ ClubOf(S).spent \in Nat /\ ClubOf(S).points \in Nat
          /\ Total(o) \in Nat /\ Points(o) \in Nat
      BY <3>1, ClubAdds
    <3> HIDE DEF T
    <3>5. /\ AtLeast0(club[ph].orders + (-1)) = ClubOf(S).orders
          /\ AtLeast0(club[ph].spent + (-1) * Total(o)) = ClubOf(S).spent
          /\ AtLeast0(club[ph].points + (-1) * Points(o)) = ClubOf(S).points
      BY <3>2, <3>4 DEF AtLeast0
    <3>6. club'[ph] = ClubOf(S) BY <3>3, <3>5, ClubFields
    <3> QED BY <3>1, <3>6
  <2> QED BY <2>2, <2>3
<1>5. ASSUME Quiet, NEW ph \in Phones PROVE club'[ph] = ClubOf(Buys(ph)')
  <2>1. Sold' = Sold /\ club' = club BY <1>5 DEF Quiet
  <2>2. Buys(ph)' = Buys(ph) BY <1>1, <2>1
  <2> QED BY <1>0, <2>1, <2>2
<1>6. \A ph \in Phones : club'[ph] = ClubOf(Buys(ph)') BY <1>3, <1>4, <1>5, StepKinds DEF Fold
<1> QED BY <1>6, ClubAs

-----------------------------------------------------------------------------
(* Reports *)

ReportOf(S) == [orders |-> Cardinality(S), vat |-> SumFunction([o \in S |-> Vat(o)]),
                revenue |-> SumFunction([o \in S |-> Total(o) - Vat(o)])]

LEMMA ReportAs == /\ ReportsStand <=> \A d \in Days : archive[d] = ReportOf(FoldedOn(d))
                  /\ ReportsStand' <=> \A d \in Days : archive'[d] = ReportOf(FoldedOn(d)')
BY DEF ReportsStand, ReportOf, FoldedOn

LEMMA ReportAdds ==
  ASSUME SalesAssumption, NEW S \in SUBSET Orders, NEW T \in SUBSET Orders, S \cap T = {}
  PROVE  /\ ReportOf(S \cup T).orders = ReportOf(S).orders + Cardinality(T)
         /\ ReportOf(S \cup T).revenue
              = ReportOf(S).revenue + SumFunction([o \in T |-> Total(o) - Vat(o)])
         /\ ReportOf(S \cup T).vat = ReportOf(S).vat + SumFunction([o \in T |-> Vat(o)])
<1> DEFINE U == S \cup T
<1>1. U \in SUBSET Orders OBVIOUS
<1>2. /\ IsFiniteSet(S) /\ SumFunction([x \in S |-> Vat(x)]) = SumFunctionOnSet(Vats, S)
      /\ SumFunction([x \in S |-> Total(x) - Vat(x)]) = SumFunctionOnSet(Nets, S)
  BY OrderSums
<1>3. /\ IsFiniteSet(T) /\ SumFunction([x \in T |-> Vat(x)]) = SumFunctionOnSet(Vats, T)
      /\ SumFunction([x \in T |-> Total(x) - Vat(x)]) = SumFunctionOnSet(Nets, T)
  BY OrderSums
<1>4. /\ SumFunction([x \in U |-> Vat(x)]) = SumFunctionOnSet(Vats, U)
      /\ SumFunction([x \in U |-> Total(x) - Vat(x)]) = SumFunctionOnSet(Nets, U)
  <2> HIDE DEF U
  <2> QED BY <1>1, OrderSums
<1>5. \A x \in U : Vats[x] \in Int /\ Nets[x] \in Int BY MoneyOf DEF Vats, Nets
<1>6. /\ SumFunctionOnSet(Vats, U) = SumFunctionOnSet(Vats, S) + SumFunctionOnSet(Vats, T)
      /\ SumFunctionOnSet(Nets, U) = SumFunctionOnSet(Nets, S) + SumFunctionOnSet(Nets, T)
  <2>1. IsFiniteSet(S) /\ IsFiniteSet(T) BY <1>2, <1>3
  <2>2. \A x \in S \cup T : Vats[x] \in Int BY <1>5
  <2>3. \A x \in S \cup T : Nets[x] \in Int BY <1>5
  <2>4. SumFunctionOnSet(Vats, S \cup T) = SumFunctionOnSet(Vats, S) + SumFunctionOnSet(Vats, T)
    BY <2>1, <2>2, SumDisjoint, SMTT(60)
  <2>5. SumFunctionOnSet(Nets, S \cup T) = SumFunctionOnSet(Nets, S) + SumFunctionOnSet(Nets, T)
    BY <2>1, <2>3, SumDisjoint, SMTT(60)
  <2> QED BY <2>4, <2>5
<1>7. Cardinality(U) = Cardinality(S) + Cardinality(T)
  <2>1. Cardinality(U) = Cardinality(S) + Cardinality(T) - Cardinality(S \cap T)
    BY <1>2, <1>3, FS_Union
  <2>2. Cardinality(S \cap T) = 0 BY FS_EmptySet
  <2>3. Cardinality(S) \in Nat /\ Cardinality(T) \in Nat BY <1>2, <1>3, FS_CardinalityType
  <2> QED BY <2>1, <2>2, <2>3
<1>8. /\ ReportOf(S).orders = Cardinality(S) /\ ReportOf(S).vat = SumFunction([x \in S |-> Vat(x)])
      /\ ReportOf(S).revenue = SumFunction([x \in S |-> Total(x) - Vat(x)])
  BY DEF ReportOf
<1>9. /\ ReportOf(U).orders = Cardinality(U) /\ ReportOf(U).vat = SumFunction([x \in U |-> Vat(x)])
      /\ ReportOf(U).revenue = SumFunction([x \in U |-> Total(x) - Vat(x)])
  BY DEF ReportOf
<1> HIDE DEF U
<1>10. /\ ReportOf(U).orders = ReportOf(S).orders + Cardinality(T)
       /\ ReportOf(U).revenue = ReportOf(S).revenue + SumFunction([x \in T |-> Total(x) - Vat(x)])
       /\ ReportOf(U).vat = ReportOf(S).vat + SumFunction([x \in T |-> Vat(x)])
  BY <1>2, <1>3, <1>4, <1>6, <1>7, <1>8, <1>9
<1> QED BY <1>10 DEF U

LEMMA ReportStep ==
  ASSUME SalesAssumption, TypeOK, ReportsStand, [Next]_vars
  PROVE  ReportsStand'
<1>0. \A d \in Days : archive[d] = ReportOf(FoldedOn(d)) BY ReportAs
<1>1. ASSUME Fold, NEW d \in Days PROVE archive'[d] = ReportOf(FoldedOn(d)')
  <2> DEFINE S == FoldedOn(d)
             T == Folded(d)
  <2>1. FoldedOn(d)' = S \cup T /\ S \cap T = {} BY <1>1 DEF Fold
  <2>2. S \in SUBSET Orders /\ T \in SUBSET Orders BY DEF FoldedOn, Folded, Old
  <2>3. archive'[d] = [orders  |-> archive[d].orders + Cardinality(T),
                       revenue |-> archive[d].revenue + SumFunction([o \in T |-> Total(o) - Vat(o)]),
                       vat     |-> archive[d].vat + SumFunction([o \in T |-> Vat(o)])]
    BY <1>1 DEF Fold, CompactBiz
  <2>4. archive[d] = ReportOf(S) BY <1>0
  <2> HIDE DEF S, T
  <2> DEFINE U == S \cup T
  <2>5. /\ ReportOf(U).orders = ReportOf(S).orders + Cardinality(T)
        /\ ReportOf(U).revenue = ReportOf(S).revenue + SumFunction([o \in T |-> Total(o) - Vat(o)])
        /\ ReportOf(U).vat = ReportOf(S).vat + SumFunction([o \in T |-> Vat(o)])
    BY <2>1, <2>2, ReportAdds
  <2> HIDE DEF U
  <2>6. archive'[d] = [orders |-> ReportOf(U).orders, revenue |-> ReportOf(U).revenue, vat |-> ReportOf(U).vat]
    BY <2>3, <2>4, <2>5
  <2>7. ReportOf(U) = [orders |-> ReportOf(U).orders, revenue |-> ReportOf(U).revenue, vat |-> ReportOf(U).vat]
    BY DEF ReportOf
  <2> QED BY <2>1, <2>6, <2>7 DEF U
<1>2. ASSUME NoFold, NEW d \in Days PROVE archive'[d] = ReportOf(FoldedOn(d)')
  BY <1>0, <1>2 DEF NoFold
<1>3. \A o \in Orders : Sale(o) \/ Undo(o) => NoFold BY DEF Sale, Undo, NoFold
<1>4. \A d \in Days : archive'[d] = ReportOf(FoldedOn(d)') BY <1>1, <1>2, <1>3, StepKinds
<1> QED BY <1>4, ReportAs


-----------------------------------------------------------------------------
(* Before anything is sold the sums are empty. *)

LEMMA InitSums ==
  SalesAssumption /\ Init => StockIsSales /\ ClubIsSales /\ ReportsStand
<1> SUFFICES ASSUME SalesAssumption, Init PROVE StockIsSales /\ ClubIsSales /\ ReportsStand
  OBVIOUS
<1>1. \A o \in Orders : order[o].status = "none" BY DEF Init, NoOrder
<1>2. Sold = {} /\ (\A ph \in Phones : Buys(ph) = {}) /\ \A d \in Days : FoldedOn(d) = {}
  BY <1>1 DEF Sold, Buys, FoldedOn, WasSold, SOLD
<1>3. \A f : SumFunctionOnSet(f, {}) = 0 BY SumEmpty
<1>4. StockIsSales
  <2>1. ASSUME NEW i \in shelf PROVE Stocked(i, order, Sold, stock, net)
    <3>1. stock[i] = 0 /\ net[i] = 0 BY <2>1 DEF Init, NoUse
    <3> QED BY <1>2, <1>3, <3>1 DEF Stocked
  <2> QED BY <2>1, StockAs
<1>5. {} \in SUBSET Orders /\ Cardinality({}) = 0 BY FS_EmptySet
<1>6. ClubOf({}) = NoClub /\ ReportOf({}) = NoDay
  BY <1>3, <1>5, OrderSums DEF ClubOf, ReportOf, NoClub, NoDay
<1>7. ClubIsSales BY <1>2, <1>6, ClubAs DEF Init
<1>8. ReportsStand BY <1>2, <1>6, ReportAs DEF Init
<1> QED BY <1>4, <1>7, <1>8

-----------------------------------------------------------------------------
(* Types, the stock, the customers and the reports. *)

\* The book of the business keeps its types: what an order used, a customer's
\* totals, the rows of a day and the counts of a report are never negative,
\* whatever is sold, canceled and folded away (ops.ts:314-600, 748).
THEOREM SalesTypeCorrect == SalesAssumption => (Spec => []TypeOK)
<1> SUFFICES ASSUME SalesAssumption PROVE Spec => []TypeOK
  OBVIOUS
<1>1. Init => TypeOK BY InitTypes
<1>2. TypeOK /\ [Next]_vars => TypeOK' BY StepTypes
<1> QED BY <1>1, <1>2, PTL DEF Spec

\* "Cancel: a sale is undone exactly" (ops.ts:427): the stock of an ingredient is
\* what purchases, waste and counts make it, less what the sales that stand took
\* when they were made, also where the recipe was changed before the cancellation.
THEOREM StockStandsAsSales == SalesAssumption => (Spec => []StockIsSales)
<1> SUFFICES ASSUME SalesAssumption PROVE Spec => []StockIsSales
  OBVIOUS
<1> DEFINE Inv == TypeOK /\ StockIsSales
<1>1. Init => Inv BY InitTypes, InitSums
<1>2. Inv /\ [Next]_vars => Inv' BY StepTypes, StockStep
<1>3. Inv => StockIsSales OBVIOUS
<1> QED BY <1>1, <1>2, <1>3, PTL DEF Spec

\* A customer's orders, spending and points are those of the sales that stand:
\* touchCustomer (ops.ts:524) cuts each off at nothing, and what a cancellation
\* takes away was always there.
THEOREM ClubStandsAsSales == SalesAssumption => (Spec => []ClubIsSales)
<1> SUFFICES ASSUME SalesAssumption PROVE Spec => []ClubIsSales
  OBVIOUS
<1> DEFINE Inv == TypeOK /\ ClubIsSales
<1>1. Init => Inv BY InitTypes, InitSums
<1>2. Inv /\ [Next]_vars => Inv' BY StepTypes, ClubStep
<1>3. Inv => ClubIsSales OBVIOUS
<1> QED BY <1>1, <1>2, <1>3, PTL DEF Spec

\* Folding old orders away (ops.ts:748, compactBiz) changes no report: a day's row
\* of the archive is the number, the revenue and the VAT of the sales folded
\* into it, each counted once, however often the book is compacted.
THEOREM ReportsStay == SalesAssumption => (Spec => []ReportsStand)
<1> SUFFICES ASSUME SalesAssumption PROVE Spec => []ReportsStand
  OBVIOUS
<1> DEFINE Inv == TypeOK /\ ReportsStand
<1>1. Init => Inv BY InitTypes, InitSums
<1>2. Inv /\ [Next]_vars => Inv' BY StepTypes, ReportStep
<1>3. Inv => ReportsStand OBVIOUS
<1> QED BY <1>1, <1>2, <1>3, PTL DEF Spec

-----------------------------------------------------------------------------
(* Debts and the rows of a day *)

\* What a day without sales sums up to, and one with sales where every order costs something.
OrdersCost == \A o \in Orders : Total(o) > 0
PaidSums == SumOf({}) = 0 /\ \A S \in SUBSET Orders : S # {} => SumOf(S) > 0

LEMMA CostsSum == SalesAssumption /\ OrdersCost => PaidSums
<1> SUFFICES ASSUME SalesAssumption, OrdersCost PROVE PaidSums
  OBVIOUS
<1>1. SumOf({}) = 0 BY OrderSums, SumEmpty
<1>2. ASSUME NEW S \in SUBSET Orders, S # {} PROVE SumOf(S) > 0
  <2>1. PICK o \in S : TRUE BY <1>2
  <2>2. Total(o) > 0 /\ Total(o) \in Nat BY <2>1, MoneyOf DEF OrdersCost
  <2>3. SumOf(S) \in Nat /\ Total(o) <= SumOf(S) BY <2>1, SumsType
  <2> QED BY <2>2, <2>3
<1> QED BY <1>1, <1>2 DEF PaidSums

Fields(r) ==
  r = [status |-> r.status, day |-> r.day, pay |-> r.pay, used |-> r.used, debtor |-> r.debtor]

\* What the proofs need of the types: used amounts are sums and left open.
Shape ==
  /\ order = [o \in Orders |-> order[o]] /\ \A o \in Orders : Fields(order[o])
  /\ debts \subseteq [who : Debtors, order : Orders]
  /\ rows = [d \in Days |-> rows[d]] /\ asOf = [d \in Days |-> asOf[d]]
  /\ \A d \in Days : rows[d] = [a \in Accounts |-> rows[d][a]]
  /\ today \in Days /\ \A o \in Orders : order[o].day \in Days

-----------------------------------------------------------------------------
(* The orders an action may change, and how. *)

LEMMA FieldsOf ==
  ASSUME NEW s, NEW d, NEW p, NEW u, NEW b
  PROVE  LET r == [status |-> s, day |-> d, pay |-> p, used |-> u, debtor |-> b] IN
         Fields(r) /\ r.status = s /\ r.day = d /\ r.pay = p /\ r.used = u /\ r.debtor = b
BY DEF Fields

LEMMA StatusSet ==
  ASSUME NEW r, Fields(r), NEW s
  PROVE  LET q == [r EXCEPT !.status = s] IN
         Fields(q) /\ q.status = s /\ q.day = r.day /\ q.pay = r.pay /\ q.debtor = r.debtor
<1> DEFINE w == [status |-> r.status, day |-> r.day, pay |-> r.pay, used |-> r.used, debtor |-> r.debtor]
<1>1. r = w
  BY DEF Fields
<1>2. [w EXCEPT !.status = s] = [status |-> s, day |-> r.day, pay |-> r.pay, used |-> r.used, debtor |-> r.debtor]
  OBVIOUS
<1> QED BY <1>1, <1>2, FieldsOf

LEMMA DaySet ==
  ASSUME NEW r, Fields(r), NEW d
  PROVE  LET q == [r EXCEPT !.day = d] IN
         Fields(q) /\ q.status = r.status /\ q.day = d /\ q.pay = r.pay /\ q.debtor = r.debtor
<1> DEFINE w == [status |-> r.status, day |-> r.day, pay |-> r.pay, used |-> r.used, debtor |-> r.debtor]
<1>1. r = w
  BY DEF Fields
<1>2. [w EXCEPT !.day = d] = [status |-> r.status, day |-> d, pay |-> r.pay, used |-> r.used, debtor |-> r.debtor]
  OBVIOUS
<1> QED BY <1>1, <1>2, FieldsOf

\* One order, and no other, is replaced by a record of the same fields.
LEMMA OneOrder ==
  ASSUME Shape, NEW o \in Orders, NEW r, Fields(r), r.day \in Days, order' = [order EXCEPT ![o] = r]
  PROVE  /\ order'[o] = r /\ \A q \in Orders : q # o => order'[q] = order[q]
         /\ order' = [q \in Orders |-> order'[q]]
         /\ \A q \in Orders : Fields(order'[q]) /\ order'[q].day \in Days
<1>1. order'[o] = r /\ \A q \in Orders : q # o => order'[q] = order[q]
  BY DEF Shape
<1>2. order' = [q \in Orders |-> order'[q]]
  BY DEF Shape
<1> QED BY <1>1, <1>2 DEF Shape

LEMMA StatusOne ==
  ASSUME Shape, NEW o \in Orders, NEW s, order' = [order EXCEPT ![o].status = s]
  PROVE  /\ order'[o].status = s /\ order'[o].day = order[o].day /\ order'[o].pay = order[o].pay
         /\ order'[o].debtor = order[o].debtor
         /\ \A q \in Orders : q # o => order'[q] = order[q]
         /\ order' = [q \in Orders |-> order'[q]]
         /\ \A q \in Orders : Fields(order'[q]) /\ order'[q].day \in Days
<1> DEFINE r == [order[o] EXCEPT !.status = s]
<1>1. order' = [order EXCEPT ![o] = r]
  OBVIOUS
<1>2. Fields(r) /\ r.status = s /\ r.day = order[o].day /\ r.pay = order[o].pay /\ r.debtor = order[o].debtor
  BY StatusSet DEF Shape
<1>3. r.day \in Days
  BY <1>2 DEF Shape
<1> HIDE DEF r
<1> QED BY <1>1, <1>2, <1>3, OneOrder

\* What an action does to the rows when it books one day.
LEMMA Synced ==
  ASSUME Shape, NEW ord, NEW skip, NEW d \in Days, SyncSales(ord, skip, d)
  PROVE  /\ rows' = [e \in Days |-> rows'[e]] /\ asOf' = [e \in Days |-> asOf'[e]]
         /\ \A e \in Days : rows'[e] = [a \in Accounts |-> rows'[e][a]]
         /\ \A e \in Days : e # d => rows'[e] = rows[e] /\ asOf'[e] = asOf[e]
         /\ \A a \in Accounts : rows'[d][a] = DayRow(ord, skip, d, a)
         /\ asOf'[d].cash = cash /\ asOf'[d].card = card
<1> DEFINE new == [a \in Accounts |-> DayRow(ord, skip, d, a)]
<1>1. rows' = [rows EXCEPT ![d] = new] /\ new = [a \in Accounts |-> new[a]]
  BY DEF SyncSales
<1>2. \A a \in Accounts : new[a] = DayRow(ord, skip, d, a)
  OBVIOUS
<1>3. asOf' = [asOf EXCEPT ![d] = [cash |-> cash, card |-> card]]
  BY DEF SyncSales
<1> HIDE DEF new
<1>4. rows' = [e \in Days |-> rows'[e]] /\ rows'[d] = new
      /\ \A e \in Days : e # d => rows'[e] = rows[e]
  BY <1>1 DEF Shape
<1>5. /\ asOf' = [e \in Days |-> asOf'[e]] /\ asOf'[d] = [cash |-> cash, card |-> card]
      /\ \A e \in Days : e # d => asOf'[e] = asOf[e]
  BY <1>3 DEF Shape
<1>6. \A e \in Days : rows'[e] = [a \in Accounts |-> rows'[e][a]]
  BY <1>1, <1>4 DEF Shape
<1> QED BY <1>2, <1>4, <1>5, <1>6

\* The shape of the next state, part by part.
OrderShape ==
  order = [o \in Orders |-> order[o]] /\ \A o \in Orders : Fields(order[o]) /\ order[o].day \in Days
RowShape ==
  /\ rows = [d \in Days |-> rows[d]] /\ asOf = [d \in Days |-> asOf[d]]
  /\ \A d \in Days : rows[d] = [a \in Accounts |-> rows[d][a]]

LEMMA ShapeParts ==
  Shape <=> /\ OrderShape /\ RowShape
            /\ debts \subseteq [who : Debtors, order : Orders] /\ today \in Days
BY DEF Shape, OrderShape, RowShape

LEMMA ShapeNext ==
  ASSUME OrderShape', RowShape', debts' \subseteq [who : Debtors, order : Orders], today' \in Days
  PROVE  Shape'
BY DEF Shape, OrderShape, RowShape

-----------------------------------------------------------------------------
(* What stays of a debt and of a day. *)

Owed(e) ==
  /\ WasSold(e.order) /\ order[e.order].pay = "credit"
  /\ order[e.order].debtor = e.who /\ e.who \in credit

DayBooked(d) ==
  ~HasFolded(d) =>
    \A a \in Accounts :
      rows[d][a] = IF <<d, a>> \in skipBook THEN 0
                   ELSE SumOf(SalesInto(order, d, a, asOf[d].cash, asOf[d].card))

LEMMA OwedParts == NoDebtWithoutSale <=> \A e \in debts : Owed(e)
BY DEF NoDebtWithoutSale, Owed

LEMMA DayParts == DayIsBooked <=> \A d \in Days : DayBooked(d)
BY DEF DayIsBooked, DayBooked

\* A debt stays right while its sale is paid for by the same debtor.
LEMMA OwedKept ==
  ASSUME NEW e, Owed(e), e.who \in credit', WasSold(e.order)',
         order'[e.order].pay = order[e.order].pay, order'[e.order].debtor = order[e.order].debtor
  PROVE  Owed(e)'
BY DEF Owed

\* A day stays right while its rows, its sales and what they were paid with stay.
LEMMA DayKept ==
  ASSUME NEW d \in Days, DayBooked(d), rows'[d] = rows[d], asOf'[d] = asOf[d],
         \A a \in Accounts : <<d, a>> \in skipBook' <=> <<d, a>> \in skipBook,
         HasFolded(d) => HasFolded(d)',
         \A o \in Orders :
           ~HasFolded(d)' =>
             /\ (order'[o].status \in SOLD /\ order'[o].day = d)
                  <=> (order[o].status \in SOLD /\ order[o].day = d)
             /\ order[o].status \in SOLD /\ order[o].day = d => order'[o].pay = order[o].pay
  PROVE  DayBooked(d)'
<1> SUFFICES ASSUME ~HasFolded(d)', NEW a \in Accounts
             PROVE  rows'[d][a] = IF <<d, a>> \in skipBook' THEN 0
                                  ELSE SumOf(SalesInto(order', d, a, asOf'[d].cash, asOf'[d].card))
  BY DEF DayBooked
<1>1. SalesInto(order', d, a, asOf[d].cash, asOf[d].card) = SalesInto(order, d, a, asOf[d].cash, asOf[d].card)
  BY DEF SalesInto
<1>2. rows[d][a] = IF <<d, a>> \in skipBook THEN 0
                   ELSE SumOf(SalesInto(order, d, a, asOf[d].cash, asOf[d].card))
  BY DEF DayBooked
<1> QED BY <1>1, <1>2

\* A day that was just booked is right.
LEMMA DaySynced ==
  ASSUME PaidSums, Shape, NEW d \in Days, SyncSales(order', skipBook', d)
  PROVE  DayBooked(d)'
<1> SUFFICES ASSUME NEW a \in Accounts
             PROVE  rows'[d][a] = IF <<d, a>> \in skipBook' THEN 0
                                  ELSE SumOf(SalesInto(order', d, a, asOf'[d].cash, asOf'[d].card))
  BY DEF DayBooked
<1> DEFINE S == SalesInto(order', d, a, cash, card)
<1>1. rows'[d][a] = DayRow(order', skipBook', d, a) /\ asOf'[d].cash = cash /\ asOf'[d].card = card
  BY Synced
<1>2. S \in SUBSET Orders
  BY DEF SalesInto
<1>3. DayRow(order', skipBook', d, a)
        = IF <<d, a>> \in skipBook' \/ S = {} THEN 0
          ELSE IF SumOf(S) > 0 THEN SumOf(S) ELSE rows[d][a]
  BY DEF DayRow
<1> HIDE DEF S
<1>4. S = {} => SumOf(S) = 0
  BY DEF PaidSums
<1>5. S # {} => SumOf(S) > 0
  BY <1>2 DEF PaidSums
<1> QED BY <1>1, <1>3, <1>4, <1>5 DEF S

\* What each action keeps.
Keeps == /\ Shape' /\ (NoDebtWithoutSale => NoDebtWithoutSale')
         /\ (PaidSums /\ DayIsBooked => DayIsBooked')

-----------------------------------------------------------------------------
(* One step per action *)

LEMMA SellStep ==
  ASSUME SalesAssumption, Shape, NEW o \in Orders, order[o].status \in {"none", "pending"},
         NEW pay, NEW c \in Debtor(pay), NEW st \in SOLD, Sell(o, pay, c, st)
  PROVE  Keeps
<1> DEFINE r == [status |-> st, day |-> today, pay |-> pay, used |-> Use(o), debtor |-> c]
<1>1. order' = [order EXCEPT ![o] = r] /\ SyncSales(order', skipBook', today)
  BY DEF Sell
<1>2. Fields(r) /\ r.status = st /\ r.day = today /\ r.pay = pay /\ r.debtor = c
  BY FieldsOf
<1>3. today \in Days
  BY DEF Shape
<1> HIDE DEF r
<1>4. /\ order'[o] = r /\ \A q \in Orders : q # o => order'[q] = order[q]
      /\ OrderShape'
  BY <1>1, <1>2, <1>3, OneOrder DEF OrderShape
<1>5. /\ RowShape' /\ \A e \in Days : e # today => rows'[e] = rows[e] /\ asOf'[e] = asOf[e]
  BY <1>1, <1>3, Synced DEF RowShape
<1>6. /\ debts' = IF pay = "credit" /\ Total(o) > 0
                  THEN debts \cup {[who |-> c, order |-> o]} ELSE debts
      /\ credit' = credit \cup ({c} \ {None}) /\ skipBook' = skipBook /\ today' = today
  BY DEF Sell
<1>7. pay = "credit" => c \in Debtors /\ c # None
  BY DEF Debtor, SalesAssumption
<1>8. Shape'
  BY <1>3, <1>4, <1>5, <1>6, <1>7, ShapeParts, ShapeNext
<1>9. ASSUME NoDebtWithoutSale PROVE NoDebtWithoutSale'
  <2>1. ASSUME NEW e \in debts PROVE Owed(e)'
    <3>1. Owed(e) /\ e.order \in Orders
      BY <1>9, <2>1, OwedParts, ShapeParts
    <3>2. e.order # o
      BY <3>1 DEF Owed, WasSold, SOLD
    <3> QED BY <1>4, <1>6, <3>1, <3>2, OwedKept DEF Owed, WasSold
  <2>2. ASSUME NEW e \in debts', e \notin debts PROVE Owed(e)'
    <3>1. pay = "credit" /\ e.who = c /\ e.order = o
      BY <1>6, <2>2
    <3> QED BY <1>2, <1>4, <1>6, <1>7, <3>1 DEF Owed, WasSold
  <2>3. \A e \in debts' : Owed(e)'
    BY <2>1, <2>2
  <2> QED BY <2>3 DEF NoDebtWithoutSale, Owed
<1>10. ASSUME PaidSums, DayIsBooked PROVE DayIsBooked'
  <2>1. ASSUME NEW d \in Days, d = today PROVE DayBooked(d)'
    BY <1>1, <1>10, <2>1, DaySynced
  <2>2. ASSUME NEW d \in Days, d # today PROVE DayBooked(d)'
    <3>1. DayBooked(d)
      BY <1>10, DayParts
    <3>2. HasFolded(d) => HasFolded(d)'
      <4>1. \A q \in Orders : order[q].status = "folded" => q # o
        OBVIOUS
      <4> QED BY <1>4, <4>1 DEF HasFolded
    <3>3. \A q \in Orders :
            /\ (order'[q].status \in SOLD /\ order'[q].day = d)
                 <=> (order[q].status \in SOLD /\ order[q].day = d)
            /\ order[q].status \in SOLD /\ order[q].day = d => order'[q].pay = order[q].pay
      <4>1. order[o].status \notin SOLD /\ order'[o].day # d
        BY <1>2, <1>4, <2>2 DEF SOLD
      <4> QED BY <1>4, <4>1
    <3> QED BY <1>5, <1>6, <2>2, <3>1, <3>2, <3>3, DayKept
  <2> QED BY <2>1, <2>2 DEF DayIsBooked, DayBooked
<1> QED BY <1>8, <1>9, <1>10 DEF Keeps

\* An order that is no sale, before and after.
LEMMA NoSaleStep ==
  ASSUME Shape, NEW o \in Orders, order[o].status \in {"none", "pending"},
         NEW st \in {"pending", "canceled"}, NEW r, Fields(r), r.status = st, r.day \in Days,
         order' = [order EXCEPT ![o] = r],
         UNCHANGED <<debts, credit, today, rows, asOf, skipBook>>
  PROVE  Keeps
<1>1. /\ order'[o] = r /\ \A q \in Orders : q # o => order'[q] = order[q]
      /\ OrderShape'
  BY OneOrder DEF OrderShape
<1>2. Shape'
  BY <1>1, ShapeParts, ShapeNext DEF RowShape
<1>3. ASSUME NoDebtWithoutSale PROVE NoDebtWithoutSale'
  <2>1. ASSUME NEW e \in debts PROVE Owed(e)'
    <3>1. Owed(e) /\ e.order \in Orders
      BY <1>3, <2>1, OwedParts, ShapeParts
    <3>2. e.order # o
      BY <3>1 DEF Owed, WasSold, SOLD
    <3> QED BY <1>1, <3>1, <3>2, OwedKept DEF Owed, WasSold
  <2> QED BY <2>1 DEF NoDebtWithoutSale, Owed
<1>4. ASSUME PaidSums, DayIsBooked PROVE DayIsBooked'
  <2>1. ASSUME NEW d \in Days PROVE DayBooked(d)'
    <3>1. DayBooked(d)
      BY <1>4, DayParts
    <3>2. HasFolded(d) => HasFolded(d)'
      <4>1. \A q \in Orders : order[q].status = "folded" => q # o
        OBVIOUS
      <4> QED BY <1>1, <4>1 DEF HasFolded
    <3>3. order[o].status \notin SOLD /\ order'[o].status \notin SOLD
      BY <1>1 DEF SOLD
    <3> QED BY <1>1, <3>1, <3>2, <3>3, DayKept
  <2> QED BY <2>1 DEF DayIsBooked, DayBooked
<1> QED BY <1>2, <1>3, <1>4 DEF Keeps

LEMMA CreateStep ==
  ASSUME Shape, NEW o \in Orders, CreateOrder(o)
  PROVE  Keeps
<1> DEFINE p == [order[o] EXCEPT !.status = "pending"]
           r == [p EXCEPT !.day = today]
<1>1. order' = [order EXCEPT ![o] = r]
  <2>1. order' = [[order EXCEPT ![o].status = "pending"] EXCEPT ![o].day = today]
    BY DEF CreateOrder
  <2> QED BY <2>1 DEF Shape
<1>2. Fields(p) /\ p.status = "pending"
  <2>1. Fields(order[o])
    BY DEF Shape
  <2> QED BY <2>1, StatusSet
<1> HIDE DEF p
<1>3. Fields(r) /\ r.status = "pending" /\ r.day = today
  BY <1>2, DaySet
<1> HIDE DEF r
<1>4. order[o].status = "none" /\ UNCHANGED <<debts, credit, rows, asOf, skipBook>> /\ today' = today
  BY DEF CreateOrder, clubVars, bookVars
<1> QED BY <1>1, <1>3, <1>4, NoSaleStep DEF Shape

LEMMA SetStatusStep ==
  ASSUME SalesAssumption, Shape, NEW o \in Orders, SetOrderStatus(o)
  PROVE  Keeps
<1>1. PICK st \in SOLD : order' = [order EXCEPT ![o].status = st]
  BY DEF SetOrderStatus, SalesAssumption
<1>2. order[o].status \in SOLD /\ UNCHANGED <<debts, credit, rows, asOf, skipBook, today>>
  BY DEF SetOrderStatus, clubVars, bookVars
<1>3. /\ order'[o].status = st /\ order'[o].day = order[o].day /\ order'[o].pay = order[o].pay
      /\ order'[o].debtor = order[o].debtor
      /\ \A q \in Orders : q # o => order'[q] = order[q]
      /\ OrderShape'
  BY <1>1, StatusOne DEF OrderShape
<1>4. Shape'
  BY <1>2, <1>3, ShapeParts, ShapeNext DEF RowShape
<1>5. ASSUME NoDebtWithoutSale PROVE NoDebtWithoutSale'
  <2>1. ASSUME NEW e \in debts PROVE Owed(e)'
    <3>1. Owed(e) /\ e.order \in Orders
      BY <1>5, <2>1, OwedParts, ShapeParts
    <3> QED BY <1>1, <1>2, <1>3, <3>1, OwedKept DEF Owed, WasSold
  <2> QED BY <1>2, <2>1 DEF NoDebtWithoutSale, Owed
<1>6. ASSUME PaidSums, DayIsBooked PROVE DayIsBooked'
  <2>1. ASSUME NEW d \in Days PROVE DayBooked(d)'
    <3>1. DayBooked(d)
      BY <1>6, DayParts
    <3>2. HasFolded(d) => HasFolded(d)'
      <4>1. \A q \in Orders : order[q].status = "folded" => q # o
        BY <1>2 DEF SOLD
      <4> QED BY <1>3, <4>1 DEF HasFolded
    <3> QED BY <1>1, <1>2, <1>3, <3>1, <3>2, DayKept
  <2> QED BY <2>1 DEF DayIsBooked, DayBooked
<1> QED BY <1>4, <1>5, <1>6 DEF Keeps

LEMMA CancelStep ==
  ASSUME Shape, NEW o \in Orders, CancelOrder(o)
  PROVE  Keeps
<1> DEFINE r == [status |-> "canceled", day |-> order[o].day, pay |-> NoOrder.pay,
                 used |-> NoOrder.used, debtor |-> NoOrder.debtor]
<1>1. order' = [order EXCEPT ![o] = r]
  <2>1. \A d : [NoOrder EXCEPT !.status = "canceled", !.day = d]
                = [status |-> "canceled", day |-> d, pay |-> NoOrder.pay,
                   used |-> NoOrder.used, debtor |-> NoOrder.debtor]
    <3> DEFINE u == NoUse
    <3>1. NoOrder = [status |-> "none", day |-> 0, pay |-> None, used |-> u, debtor |-> None]
      BY DEF NoOrder
    <3> HIDE DEF u
    <3>2. NoOrder.pay = None /\ NoOrder.used = u /\ NoOrder.debtor = None
      BY <3>1
    <3>3. ASSUME NEW d
          PROVE  [NoOrder EXCEPT !.status = "canceled", !.day = d]
                   = [status |-> "canceled", day |-> d, pay |-> None, used |-> u, debtor |-> None]
      <4> DEFINE x == [NoOrder EXCEPT !.status = "canceled"]
      <4>1. x = [status |-> "canceled", day |-> 0, pay |-> None, used |-> u, debtor |-> None]
        BY <3>1
      <4> HIDE DEF x
      <4>2. [x EXCEPT !.day = d]
              = [status |-> "canceled", day |-> d, pay |-> None, used |-> u, debtor |-> None]
        BY <4>1
      <4> QED BY <4>2 DEF x
    <3> QED BY <3>2, <3>3
  <2> QED BY <2>1 DEF CancelOrder
<1>2. Fields(r) /\ r.status = "canceled" /\ r.day = order[o].day /\ order[o].day \in Days
  BY FieldsOf DEF Shape
<1> HIDE DEF r
<1>3. /\ order'[o] = r /\ \A q \in Orders : q # o => order'[q] = order[q]
      /\ OrderShape'
  BY <1>1, <1>2, OneOrder DEF OrderShape
<1>4. UNCHANGED <<today, credit, skipBook>>
  BY DEF CancelOrder
<1>5. CASE order[o].status = "pending"
  <2>1. UNCHANGED <<debts, rows, asOf>>
    BY <1>5 DEF CancelOrder, SOLD
  <2> QED BY <1>1, <1>2, <1>4, <1>5, <2>1, NoSaleStep
<1>6. CASE order[o].status \in SOLD
  <2> DEFINE day == order[o].day
  <2>1. debts' = DebtDropped(o) /\ SyncSales(order', skipBook', day)
    BY <1>4, <1>6 DEF CancelOrder, SOLD
  <2>2. PICK dd \in Days : dd = day
    BY <1>2
  <2>3. SyncSales(order', skipBook', dd) /\ order[o].day = dd
    BY <2>1, <2>2
  <2>4. RowShape' /\ \A e \in Days : e # dd => rows'[e] = rows[e] /\ asOf'[e] = asOf[e]
    BY <2>3, Synced DEF RowShape
  <2>5. debts' \subseteq debts
    BY <2>1 DEF DebtDropped
  <2>6. Shape'
    BY <1>3, <1>4, <2>4, <2>5, ShapeParts, ShapeNext
  <2>7. ASSUME NoDebtWithoutSale PROVE NoDebtWithoutSale'
    <3>1. ASSUME NEW e \in debts' PROVE Owed(e)'
      <4>1. Owed(e) /\ e.order \in Orders /\ e = [who |-> e.who, order |-> e.order]
        BY <2>5, <2>7, <3>1, OwedParts, ShapeParts
      <4>2. e.order # o
        BY <2>1, <3>1, <4>1 DEF Owed, DebtDropped
      <4> QED BY <1>3, <1>4, <4>1, <4>2, OwedKept DEF Owed, WasSold
    <3> QED BY <3>1 DEF NoDebtWithoutSale, Owed
  <2>8. ASSUME PaidSums, DayIsBooked PROVE DayIsBooked'
    <3>1. ASSUME NEW d \in Days, d = dd PROVE DayBooked(d)'
      BY <2>3, <2>8, <3>1, DaySynced
    <3>2. ASSUME NEW d \in Days, d # dd PROVE DayBooked(d)'
      <4>1. DayBooked(d)
        BY <2>8, DayParts
      <4>2. HasFolded(d) => HasFolded(d)'
        <5>1. \A q \in Orders : order[q].status = "folded" => q # o
          BY <1>6 DEF SOLD
        <5> QED BY <1>3, <5>1 DEF HasFolded
      <4>3. \A q \in Orders :
              /\ (order'[q].status \in SOLD /\ order'[q].day = d)
                   <=> (order[q].status \in SOLD /\ order[q].day = d)
              /\ order[q].status \in SOLD /\ order[q].day = d => order'[q].pay = order[q].pay
        <5>1. order[o].day # d /\ order'[o].day # d
          BY <1>2, <1>3, <2>3, <3>2
        <5> QED BY <1>3, <5>1
      <4> QED BY <1>4, <2>4, <3>2, <4>1, <4>2, <4>3, DayKept
    <3> QED BY <3>1, <3>2 DEF DayIsBooked, DayBooked
  <2> QED BY <2>6, <2>7, <2>8 DEF Keeps
<1> QED BY <1>5, <1>6 DEF CancelOrder

\* What leaves the orders and the rows alone: stock, recipes, settings, the
\* days, and entries or persons taken off the credit book.
LEMMA OrdersStay ==
  ASSUME Shape, UNCHANGED <<order, rows, asOf, skipBook>>, today' \in Days,
         debts' \subseteq debts, \A e \in debts' : e.who \in credit => e.who \in credit'
  PROVE  Keeps
<1>1. Shape'
  BY ShapeParts, ShapeNext DEF OrderShape, RowShape
<1>2. ASSUME NoDebtWithoutSale PROVE NoDebtWithoutSale'
  BY <1>2 DEF NoDebtWithoutSale, WasSold
<1>3. ASSUME DayIsBooked PROVE DayIsBooked'
  <2>1. ASSUME NEW d \in Days PROVE DayBooked(d)'
    BY <1>3, <2>1, DayParts DEF DayBooked, HasFolded
  <2> QED BY <2>1 DEF DayIsBooked, DayBooked
<1> QED BY <1>1, <1>2, <1>3 DEF Keeps

LEMMA OtherSteps ==
  ASSUME SalesAssumption, Shape,
         \/ \E i \in Ingredients : \/ AddPurchase(i) \/ AddWaste(i) \/ CountStock(i)
                                   \/ RemoveIngredient(i)
                                   \/ \E p \in Products : SetBomLine(p, i)
         \/ \E c \in Debtors : DeleteCreditCustomer(c)
         \/ \E e \in debts : DeleteCreditEntry(e)
         \/ SetAccount \/ NextDay
  PROVE  Keeps
<1>0. today \in Days
  BY DEF Shape
<1>1. CASE \E i \in Ingredients : AddPurchase(i) \/ AddWaste(i) \/ CountStock(i)
  <2>1. UNCHANGED <<order, rows, asOf, skipBook, today, debts, credit>>
    BY <1>1 DEF AddPurchase, AddWaste, CountStock, Restock, clubVars, bookVars
  <2> QED BY <1>0, <2>1, OrdersStay
<1>2. CASE \E i \in Ingredients : RemoveIngredient(i) \/ \E p \in Products : SetBomLine(p, i)
  <2>1. UNCHANGED <<order, rows, asOf, skipBook, today, debts, credit>>
    BY <1>2 DEF RemoveIngredient, SetBomLine, clubVars, bookVars
  <2> QED BY <1>0, <2>1, OrdersStay
<1>3. ASSUME NEW c \in Debtors, DeleteCreditCustomer(c) PROVE Keeps
  <2>1. UNCHANGED <<order, rows, asOf, skipBook, today>> /\ credit' = credit \ {c}
        /\ debts' = {e \in debts : e.who # c}
    BY <1>3 DEF DeleteCreditCustomer, bookVars
  <2> QED BY <1>0, <2>1, OrdersStay
<1>4. ASSUME NEW e \in debts, DeleteCreditEntry(e) PROVE Keeps
  <2>1. UNCHANGED <<order, rows, asOf, skipBook, today, credit>> /\ debts' = debts \ {e}
    BY <1>4 DEF DeleteCreditEntry, bookVars
  <2> QED BY <1>0, <2>1, OrdersStay
<1>5. CASE SetAccount
  <2>1. UNCHANGED <<order, rows, asOf, skipBook, today, debts, credit>>
    BY <1>5 DEF SetAccount, clubVars, bookVars
  <2> QED BY <1>0, <2>1, OrdersStay
<1>6. CASE NextDay
  <2>1. UNCHANGED <<order, rows, asOf, skipBook, debts, credit>> /\ today' = today + 1 /\ today < LastDay
    BY <1>6 DEF NextDay, clubVars, bookVars
  <2>2. today' \in Days
    BY <1>0, <2>1 DEF Days, SalesAssumption
  <2> QED BY <2>1, <2>2, OrdersStay
<1> QED BY <1>1, <1>2, <1>3, <1>4, <1>5, <1>6

\* A row the user takes out of the book is noted, so it is not missed.
LEMMA DeleteRowStep ==
  ASSUME Shape, NEW d \in Days, NEW a \in Accounts, DeleteDayRow(d, a)
  PROVE  Keeps
<1>1. /\ rows' = [rows EXCEPT ![d][a] = 0] /\ skipBook' = skipBook \cup {<<d, a>>}
      /\ UNCHANGED <<today, order, debts, credit, asOf>>
  BY DEF DeleteDayRow, clubVars
<1> DEFINE new == [rows[d] EXCEPT ![a] = 0]
<1>2. rows' = [rows EXCEPT ![d] = new]
  BY <1>1
<1>3. new[a] = 0 /\ \A b \in Accounts : b # a => new[b] = rows[d][b]
  BY DEF Shape
<1>4. new = [b \in Accounts |-> new[b]]
  BY DEF Shape
<1> HIDE DEF new
<1>5. rows'[d] = new /\ \A e \in Days : e # d => rows'[e] = rows[e]
  BY <1>2 DEF Shape
<1>6. RowShape'
  <2>1. rows' = [e \in Days |-> rows'[e]] /\ asOf' = asOf
    BY <1>1, <1>2 DEF Shape
  <2>2. asOf = [e \in Days |-> asOf[e]]
    BY DEF Shape
  <2>3. ASSUME NEW e \in Days PROVE rows'[e] = [b \in Accounts |-> rows'[e][b]]
    <3>1. CASE e = d
      BY <1>4, <1>5, <3>1
    <3>2. CASE e # d
      BY <1>5, <3>2 DEF Shape
    <3> QED BY <3>1, <3>2
  <2> QED BY <2>1, <2>2, <2>3 DEF RowShape
<1>7. Shape'
  BY <1>1, <1>6, ShapeParts, ShapeNext DEF OrderShape
<1>8. ASSUME NoDebtWithoutSale PROVE NoDebtWithoutSale'
  BY <1>1, <1>8 DEF NoDebtWithoutSale, WasSold
<1>9. ASSUME DayIsBooked PROVE DayIsBooked'
  <2>1. ASSUME NEW e \in Days PROVE DayBooked(e)'
    <3>1. DayBooked(e)
      BY <1>9, DayParts
    <3>2. CASE e = d
      <4>1. HasFolded(e)' <=> HasFolded(e)
        BY <1>1 DEF HasFolded
      <4>2. \A b \in Accounts :
              SalesInto(order', e, b, asOf'[e].cash, asOf'[e].card)
                = SalesInto(order, e, b, asOf[e].cash, asOf[e].card)
        BY <1>1
      <4>3. \A b \in Accounts : b # a => (<<e, b>> \in skipBook' <=> <<e, b>> \in skipBook)
        BY <1>1
      <4>4. <<e, a>> \in skipBook'
        BY <1>1, <3>2
      <4> QED BY <1>3, <1>5, <3>1, <3>2, <4>1, <4>2, <4>3, <4>4 DEF DayBooked
    <3>3. CASE e # d
      <4>1. \A b \in Accounts : <<e, b>> \in skipBook' <=> <<e, b>> \in skipBook
        BY <1>1, <3>3
      <4>2. HasFolded(e) => HasFolded(e)'
        BY <1>1 DEF HasFolded
      <4> QED BY <1>1, <1>5, <3>1, <3>3, <4>1, <4>2, DayKept
    <3> QED BY <3>2, <3>3
  <2> QED BY <2>1 DEF DayIsBooked, DayBooked
<1> QED BY <1>7, <1>8, <1>9 DEF Keeps

LEMMA RebookStep ==
  ASSUME Shape, NEW d \in Days, RebookDay(d)
  PROVE  Keeps
<1>1. /\ skipBook' = {k \in skipBook : k[1] # d} /\ SyncSales(order', skipBook', d)
      /\ UNCHANGED <<today, order, debts, credit>>
  BY DEF RebookDay, clubVars
<1>2. RowShape' /\ \A e \in Days : e # d => rows'[e] = rows[e] /\ asOf'[e] = asOf[e]
  BY <1>1, Synced DEF RowShape
<1>3. Shape'
  BY <1>1, <1>2, ShapeParts, ShapeNext DEF OrderShape
<1>4. ASSUME NoDebtWithoutSale PROVE NoDebtWithoutSale'
  BY <1>1, <1>4 DEF NoDebtWithoutSale, WasSold
<1>5. ASSUME PaidSums, DayIsBooked PROVE DayIsBooked'
  <2>1. DayBooked(d)'
    BY <1>1, <1>5, DaySynced
  <2>2. ASSUME NEW e \in Days, e # d PROVE DayBooked(e)'
    <3>1. DayBooked(e)
      BY <1>5, DayParts
    <3>2. HasFolded(e) => HasFolded(e)'
      BY <1>1 DEF HasFolded
    <3>3. \A a \in Accounts : <<e, a>> \in skipBook' <=> <<e, a>> \in skipBook
      BY <1>1, <2>2
    <3> QED BY <1>1, <1>2, <2>2, <3>1, <3>2, <3>3, DayKept
  <2> QED BY <2>1, <2>2 DEF DayIsBooked, DayBooked
<1> QED BY <1>3, <1>4, <1>5 DEF Keeps

\* A day keeps its row when its orders are folded away, and its debts name a
\* sale that was folded.
LEMMA CompactStep ==
  ASSUME SalesAssumption, Shape, CompactBiz
  PROVE  Keeps
<1>1. UNCHANGED <<today, debts, credit, rows, asOf, skipBook>>
  BY DEF CompactBiz, clubVars, bookVars
<1>2. order' = [o \in Orders |->
         IF o \notin Old THEN order[o]
         ELSE IF order[o].status = "canceled" THEN [NoOrder EXCEPT !.status = "dropped"]
         ELSE [order[o] EXCEPT !.status = "folded"]]
  BY DEF CompactBiz
<1>3. \A o \in Orders : o \notin Old => order'[o] = order[o]
  BY <1>2
<1>4. ASSUME NEW o \in Old, order[o].status = "canceled"
      PROVE  Fields(order'[o]) /\ order'[o].status = "dropped" /\ order'[o].day = 0
  <2>1. order'[o] = [NoOrder EXCEPT !.status = "dropped"]
    BY <1>2, <1>4 DEF Old
  <2>2. Fields(NoOrder) /\ NoOrder.day = 0
    BY FieldsOf DEF NoOrder
  <2> DEFINE q == [NoOrder EXCEPT !.status = "dropped"]
  <2>3. Fields(q) /\ q.status = "dropped" /\ q.day = NoOrder.day
    BY <2>2, StatusSet
  <2> HIDE DEF q
  <2>4. order'[o] = q
    BY <2>1 DEF q
  <2> QED BY <2>2, <2>3, <2>4
<1>5. ASSUME NEW o \in Old, order[o].status # "canceled"
      PROVE  /\ Fields(order'[o]) /\ order'[o].status = "folded" /\ order'[o].day = order[o].day
             /\ order'[o].pay = order[o].pay /\ order'[o].debtor = order[o].debtor
             /\ order[o].status \in SOLD
  <2>1. order'[o] = [order[o] EXCEPT !.status = "folded"] /\ order[o].status \in SOLD
    BY <1>2, <1>5 DEF Old
  <2>2. Fields(order[o])
    BY DEF Shape, Old
  <2> DEFINE q == [order[o] EXCEPT !.status = "folded"]
  <2>3. /\ Fields(q) /\ q.status = "folded" /\ q.day = order[o].day
        /\ q.pay = order[o].pay /\ q.debtor = order[o].debtor
    BY <2>2, StatusSet
  <2> HIDE DEF q
  <2>4. order'[o] = q
    BY <2>1 DEF q
  <2> QED BY <2>1, <2>3, <2>4
<1>6. 0 \in Days
  BY DEF Days, SalesAssumption
<1>7. OrderShape'
  <2>1. order' = [o \in Orders |-> order'[o]]
    BY <1>2
  <2>2. ASSUME NEW o \in Orders PROVE Fields(order'[o]) /\ order'[o].day \in Days
    BY <1>3, <1>4, <1>5, <1>6 DEF Shape
  <2> QED BY <2>1, <2>2 DEF OrderShape
<1>8. Shape'
  BY <1>1, <1>7, ShapeParts, ShapeNext DEF RowShape
<1>9. ASSUME NoDebtWithoutSale PROVE NoDebtWithoutSale'
  <2>1. ASSUME NEW e \in debts PROVE Owed(e)'
    <3>1. Owed(e) /\ e.order \in Orders /\ order[e.order].status # "canceled"
      BY <1>9, <2>1, OwedParts, ShapeParts DEF Owed, WasSold, SOLD
    <3>2. CASE e.order \notin Old
      BY <1>1, <1>3, <3>1, <3>2, OwedKept DEF Owed, WasSold
    <3>3. CASE e.order \in Old
      BY <1>1, <1>5, <3>1, <3>3, OwedKept DEF Owed, WasSold
    <3> QED BY <3>2, <3>3
  <2> QED BY <1>1, <2>1 DEF NoDebtWithoutSale, Owed
<1>10. ASSUME DayIsBooked PROVE DayIsBooked'
  <2>1. ASSUME NEW d \in Days PROVE DayBooked(d)'
    <3>1. DayBooked(d)
      BY <1>10, DayParts
    <3>2. HasFolded(d) => HasFolded(d)'
      <4>1. \A o \in Orders : order[o].status = "folded" => o \notin Old
        BY DEF Old, SOLD
      <4> QED BY <1>3, <4>1 DEF HasFolded
    <3>3. ASSUME ~HasFolded(d)', NEW o \in Orders
          PROVE  /\ (order'[o].status \in SOLD /\ order'[o].day = d)
                      <=> (order[o].status \in SOLD /\ order[o].day = d)
                 /\ order[o].status \in SOLD /\ order[o].day = d => order'[o].pay = order[o].pay
      <4>1. CASE o \notin Old
        BY <1>3, <4>1
      <4>2. CASE o \in Old /\ order[o].status = "canceled"
        BY <1>4, <4>2 DEF SOLD
      <4>3. CASE o \in Old /\ order[o].status # "canceled"
        BY <1>5, <3>3, <4>3 DEF HasFolded, SOLD
      <4> QED BY <4>1, <4>2, <4>3
    <3> QED BY <1>1, <3>1, <3>2, <3>3, DayKept
  <2> QED BY <2>1 DEF DayIsBooked, DayBooked
<1> QED BY <1>8, <1>9, <1>10 DEF Keeps

-----------------------------------------------------------------------------
(* The invariants *)

LEMMA InitShape == SalesAssumption /\ Init => Shape /\ NoDebtWithoutSale
<1> SUFFICES ASSUME SalesAssumption, Init PROVE Shape /\ NoDebtWithoutSale
  OBVIOUS
<1>1. 0 \in Days
  BY DEF Days, SalesAssumption
<1>2. Fields(NoOrder) /\ NoOrder.day = 0
  BY FieldsOf DEF NoOrder
<1>3. OrderShape
  BY <1>1, <1>2 DEF Init, OrderShape
<1>4. RowShape
  BY DEF Init, RowShape
<1> QED BY <1>1, <1>3, <1>4, ShapeParts DEF Init, NoDebtWithoutSale

LEMMA InitDays == PaidSums /\ Init => DayIsBooked
<1> SUFFICES ASSUME PaidSums, Init, NEW d \in Days, NEW a \in Accounts
             PROVE  rows[d][a] = IF <<d, a>> \in skipBook THEN 0
                                 ELSE SumOf(SalesInto(order, d, a, asOf[d].cash, asOf[d].card))
  BY DEF DayIsBooked
<1>1. \A o \in Orders : order[o].status = "none"
  BY DEF Init, NoOrder
<1>2. SalesInto(order, d, a, asOf[d].cash, asOf[d].card) = {}
  BY <1>1 DEF SalesInto, SOLD
<1> QED BY <1>2 DEF PaidSums, Init

LEMMA StepKeeps == SalesAssumption /\ Shape /\ [Next]_vars => Keeps
<1> SUFFICES ASSUME SalesAssumption, Shape, [Next]_vars PROVE Keeps
  OBVIOUS
<1>1. CASE UNCHANGED vars
  <2>1. UNCHANGED <<order, rows, asOf, skipBook, today, debts, credit>>
    BY <1>1 DEF vars
  <2> QED BY <2>1, OrdersStay DEF Shape
<1>2. ASSUME NEW o \in Orders, ConfirmOrder(o) PROVE Keeps
  BY <1>2, SellStep DEF ConfirmOrder, SOLD
<1>3. ASSUME NEW o \in Orders, QuickSale(o) PROVE Keeps
  BY <1>3, SellStep DEF QuickSale, SOLD
<1>4. ASSUME NEW o \in Orders, CreateOrder(o) \/ SetOrderStatus(o) \/ CancelOrder(o) PROVE Keeps
  BY <1>4, CreateStep, SetStatusStep, CancelStep
<1>5. ASSUME NEW d \in Days, RebookDay(d) \/ \E a \in Accounts : DeleteDayRow(d, a) PROVE Keeps
  BY <1>5, RebookStep, DeleteRowStep
<1>6. CASE CompactBiz
  BY <1>6, CompactStep
<1> QED BY <1>1, <1>2, <1>3, <1>4, <1>5, <1>6, OtherSteps DEF Next

\* Nobody owes for an order that is not a sale on credit to that very debtor,
\* whatever is sold, canceled, folded away or taken off the credit book, in any
\* order (ops.ts:402-444, 748).
THEOREM DebtsAreSales == SalesAssumption => (Spec => []NoDebtWithoutSale)
<1> SUFFICES ASSUME SalesAssumption PROVE Spec => []NoDebtWithoutSale
  OBVIOUS
<1> DEFINE Inv == Shape /\ NoDebtWithoutSale
<1>1. Init => Inv
  BY InitShape
<1>2. Inv /\ [Next]_vars => Inv'
  BY StepKeeps DEF Keeps
<1>3. Inv => NoDebtWithoutSale
  OBVIOUS
<1> QED BY <1>1, <1>2, <1>3, PTL DEF Spec

\* Where every order costs something (a discount of 100 % may make one free, and
\* then an old row stays), the rows of a day are its sales, account by account as
\* they stood when the day was booked, but for rows the user took out and days
\* that were folded (ops.ts:471-510, syncSales).
THEOREM DaysAreBooked == SalesAssumption /\ OrdersCost => (Spec => []DayIsBooked)
<1> SUFFICES ASSUME SalesAssumption, OrdersCost PROVE Spec => []DayIsBooked
  OBVIOUS
<1>0. PaidSums BY CostsSum
<1> DEFINE Inv == Shape /\ DayIsBooked
<1>1. Init => Inv
  BY <1>0, InitShape, InitDays
<1>2. Inv /\ [Next]_vars => Inv'
  BY <1>0, StepKeeps DEF Keeps
<1>3. Inv => DayIsBooked
  OBVIOUS
<1> QED BY <1>1, <1>2, <1>3, PTL DEF Spec
=============================================================================
