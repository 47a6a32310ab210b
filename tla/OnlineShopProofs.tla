-------------------------- MODULE OnlineShopProofs --------------------------
(***************************************************************************)
(* Theorems about OnlineShop, for every number of customers, walk-ins,     *)
(* calls and limits: overlaps are flagged, nothing accepted is lost and    *)
(* nothing is applied twice.  What is applied is applied item by item:     *)
(* Upto carries a property of the book from one item to the next.          *)
(***************************************************************************)
EXTENDS OnlineShop, FiniteSetTheorems, WellFoundedInduction, TLAPS

---------------------------------------------------------------------------
(* Item after item: what holds of the book before the first one and goes on    *)
(* holding with each of them holds at the end.                                 *)

LEMMA LessIsWellFounded == IsWellFoundedOn({ss \in Nat \X Nat : ss[1] < ss[2]}, Nat)
BY NatLessThanWellFounded DEF OpToRel

LEMMA Upto ==
  ASSUME NEW N \in Nat, NEW T, 0 \in T, \A n \in 0..N : n \in T /\ n < N => n + 1 \in T
  PROVE  \A n \in 0..N : n \in T
<1> DEFINE R == {ss \in Nat \X Nat : ss[1] < ss[2]}
           Bad == {n \in 0..N : n \notin T}
<1>1. SUFFICES ASSUME Bad # {} PROVE FALSE OBVIOUS
<1>2. PICK n \in Bad : \A m \in Bad : ~(<<m, n>> \in R)
  <2>1. Bad \subseteq Nat OBVIOUS
  <2>2. IsWellFoundedOn(R, Nat) BY LessIsWellFounded
  <2> HIDE DEF R, Bad
  <2> QED BY <1>1, <2>1, <2>2, WFMin
<1>3. n \in 1..N OBVIOUS
<1>4. n - 1 \in 0..N /\ n - 1 < N /\ (n - 1) + 1 = n BY <1>3
<1>5. n - 1 \notin T BY <1>4
<1>6. n - 1 \in Bad BY <1>4, <1>5
<1>7. <<n - 1, n>> \in R
  <2>1. <<n - 1, n>> \in Nat \X Nat BY <1>3
  <2>2. <<n - 1, n>>[1] < <<n - 1, n>>[2] BY <1>3
  <2> QED BY <2>1, <2>2
<1> QED BY <1>2, <1>6, <1>7

\* g is the book after each item.
Applies(g, b, items) ==
  g = [n \in 0..Len(items) |-> IF n = 0 THEN b ELSE ApplyItem(g[n - 1], items[n])]
ItemByItem(g, b, items) ==
  /\ DOMAIN g = 0..Len(items)
  /\ g[0] = b
  /\ \A n \in 0..Len(items) : n < Len(items) => g[n + 1] = ApplyItem(g[n], items[n + 1])
  /\ ApplyInbox(b, items) = [g[Len(items)] EXCEPT !.seen = LastSeen(@)]

LEMMA ApplyInboxSteps ==
  ASSUME NEW b, NEW items \in Seq(Requests)
  PROVE  \E g : ItemByItem(g, b, items)
<1> DEFINE L == Len(items)
           To(g, m) == g = [n \in 0..m |-> IF n = 0 THEN b ELSE ApplyItem(g[n - 1], items[n])]
           T == {m \in 0..L : \E g : To(g, m)}
<1>0. L \in Nat /\ 0..0 = {0} OBVIOUS
<1>1. 0 \in T
  <2> DEFINE g == [n \in 0..0 |-> b]
  <2>1. \A n \in 0..0 : g[n] = IF n = 0 THEN b ELSE ApplyItem(g[n - 1], items[n]) OBVIOUS
  <2>2. To(g, 0)
    <3>1. g = [n \in 0..0 |-> g[n]] OBVIOUS
    <3> HIDE DEF g
    <3> QED BY <3>1, <2>1
  <2>3. 0 \in 0..L BY <1>0
  <2> HIDE DEF To, g
  <2> QED BY <2>2, <2>3
<1>2. ASSUME NEW m \in 0..L, m \in T, m < L PROVE m + 1 \in T
  <2>1. PICK g : To(g, m) BY <1>2
  <2> DEFINE h == [n \in 0..m + 1 |-> IF n <= m THEN g[n] ELSE ApplyItem(g[m], items[m + 1])]
  <2>2. \A n \in 0..m + 1 : h[n] = IF n = 0 THEN b ELSE ApplyItem(h[n - 1], items[n])
    <3> TAKE n \in 0..m + 1
    <3>1. CASE n = 0 BY <3>1, <2>1
    <3>2. CASE n \in 1..m
      <4>1. h[n] = g[n] /\ h[n - 1] = g[n - 1] BY <3>2
      <4>2. g[n] = ApplyItem(g[n - 1], items[n]) BY <2>1, <3>2
      <4> QED BY <4>1, <4>2, <3>2
    <3>3. CASE n = m + 1
      <4>1. h[n] = ApplyItem(g[m], items[n]) /\ h[n - 1] = g[m] /\ n # 0 BY <3>3
      <4> QED BY <4>1
    <3> QED BY <3>1, <3>2, <3>3
  <2>3. To(h, m + 1)
    <3>1. h = [n \in 0..m + 1 |-> h[n]] OBVIOUS
    <3> HIDE DEF h
    <3> QED BY <3>1, <2>2
  <2>4. m + 1 \in 0..L BY <1>2, <1>0
  <2> HIDE DEF To, h
  <2> QED BY <2>3, <2>4
<1>3. L \in T
  <2> HIDE DEF T, L
  <2>1. \A n \in 0..L : n \in T BY <1>0, <1>1, <1>2, Upto
  <2> QED BY <2>1, <1>0
<1>4. \E g : Applies(g, b, items) BY <1>3 DEF Applies
<1> DEFINE A == CHOOSE g : Applies(g, b, items)
<1>5. Applies(A, b, items) BY <1>4
<1>6. ApplyInbox(b, items) = [A[L] EXCEPT !.seen = LastSeen(@)] BY DEF ApplyInbox, Applies
<1>7. DOMAIN A = 0..L /\ A[0] = b
  <2>1. 0 \in 0..L BY <1>0
  <2> HIDE DEF A
  <2> QED BY <1>5, <2>1 DEF Applies
<1>8. \A n \in 0..L : n < L => A[n + 1] = ApplyItem(A[n], items[n + 1])
  <2> TAKE n \in 0..L
  <2> HAVE n < L
  <2>1. n + 1 \in 0..L /\ n + 1 # 0 /\ (n + 1) - 1 = n BY <1>0
  <2> HIDE DEF A, L
  <2> QED BY <1>5, <2>1 DEF Applies, L
<1>9. ItemByItem(A, b, items)
  <2> HIDE DEF A
  <2> QED BY <1>6, <1>7, <1>8 DEF ItemByItem
<1> QED BY <1>9

LEMMA RowOfItem ==
  ASSUME NEW b \in Book, NEW r \in Requests
  PROVE  /\ r \in Deleted => AddRow(b, r) = b.rows
         /\ r \notin Deleted =>
              AddRow(b, r) = [b.rows EXCEPT ![r] =
                [n |-> b.rows[r].n + 1, live |-> TRUE,
                 flagged |-> r \in Bookings /\ ~IsFree(r, BusyOf(b))]]
BY DEF AddRow

\* What one item does to the book.
LEMMA ItemEffect ==
  ASSUME NEW b \in Book, NEW r \in Requests
  PROVE  LET c == ApplyItem(b, r)
         IN /\ c \in Book /\ c.hash = b.hash
            /\ ToSet(c.seen) = ToSet(b.seen) \cup {r}
            /\ r \in ToSet(b.seen) => c = b
            /\ r \notin ToSet(b.seen) => c.seen = Append(b.seen, r) /\ c.rows = AddRow(b, r)
<1> DEFINE c == ApplyItem(b, r)
<1>1. b.rows \in [Requests \cup Walkins -> Row] /\ b.seen \in Seq(Requests) /\ b.hash \in SUBSET Times
      /\ b = [rows |-> b.rows, seen |-> b.seen, hash |-> b.hash]
  BY DEF Book
<1>2. CASE r \in ToSet(b.seen)
  <2>1. c = b BY <1>2 DEF ApplyItem
  <2> QED BY <2>1, <1>2
<1>3. CASE r \notin ToSet(b.seen)
  <2>1. c = [rows |-> AddRow(b, r), seen |-> Append(b.seen, r), hash |-> b.hash]
    BY <1>1, <1>3 DEF ApplyItem
  <2>2. AddRow(b, r) \in [Requests \cup Walkins -> Row]
    <3>1. CASE r \in Deleted BY <3>1, <1>1, RowOfItem
    <3>2. CASE r \notin Deleted
      <4>1. b.rows[r] \in Row BY <1>1
      <4>2. [n |-> b.rows[r].n + 1, live |-> TRUE,
             flagged |-> r \in Bookings /\ ~IsFree(r, BusyOf(b))] \in Row
        <5> DEFINE fl == r \in Bookings /\ ~IsFree(r, BusyOf(b))
        <5>1. fl \in BOOLEAN OBVIOUS
        <5>2. b.rows[r].n + 1 \in Nat BY <4>1 DEF Row
        <5> HIDE DEF fl
        <5> QED BY <5>1, <5>2 DEF Row
      <4> QED BY <4>2, <3>2, <1>1, RowOfItem
    <3> QED BY <3>1, <3>2
  <2>3. Append(b.seen, r) \in Seq(Requests) BY <1>1
  <2>4. c \in Book BY <1>1, <2>1, <2>2, <2>3 DEF Book
  <2>5. ToSet(Append(b.seen, r)) = ToSet(b.seen) \cup {r}
    BY <1>1, SMTT(60) DEF ToSet
  <2> QED BY <2>1, <2>4, <2>5, <1>3
<1> QED BY <1>2, <1>3

LEMMA LastSeenIs ==
  ASSUME NEW s \in Seq(Requests), SeenMax \in Nat \ {0}
  PROVE  /\ LastSeen(s) \in Seq(Requests)
         /\ ToSet(LastSeen(s)) \subseteq ToSet(s)
         /\ Len(LastSeen(s)) = IF Len(s) > SeenMax THEN SeenMax ELSE Len(s)
         /\ \A i \in 1..Len(LastSeen(s)) :
              LastSeen(s)[i] = s[Len(s) - Len(LastSeen(s)) + i]
<1> DEFINE m == IF Len(s) > SeenMax THEN Len(s) - SeenMax + 1 ELSE 1
           t == SubSeq(s, m, Len(s))
<1>1. m \in Nat /\ m >= 1 /\ m <= Len(s) + 1 /\ Len(s) \in Nat OBVIOUS
<1>2. t \in Seq(Requests) /\ Len(t) = Len(s) - m + 1
      /\ \A i \in 1..Len(t) : t[i] = s[m + i - 1]
  <2> HIDE DEF m
  <2> QED BY <1>1
<1>3. t = LastSeen(s) BY DEF LastSeen
<1>4. Len(t) = IF Len(s) > SeenMax THEN SeenMax ELSE Len(s)
  <2>1. m = IF Len(s) > SeenMax THEN Len(s) - SeenMax + 1 ELSE 1 OBVIOUS
  <2> HIDE DEF m, t
  <2>2. CASE Len(s) > SeenMax BY <1>1, <1>2, <2>1, <2>2
  <2>3. CASE ~(Len(s) > SeenMax) BY <1>1, <1>2, <2>1, <2>3
  <2> QED BY <2>2, <2>3
<1>5. \A i \in 1..Len(t) : t[i] = s[Len(s) - Len(t) + i]
  <2> TAKE i \in 1..Len(t)
  <2>1. Len(s) - Len(t) + i = m + i - 1
    <3> HIDE DEF m, t
    <3> QED BY <1>1, <1>2
  <2> HIDE DEF m, t
  <2> QED BY <1>2, <2>1
<1>6. ToSet(t) \subseteq ToSet(s)
  <2> HIDE DEF m, t
  <2>0. DOMAIN t = 1..Len(t) BY <1>2
  <2> SUFFICES ASSUME NEW i \in 1..Len(t) PROVE t[i] \in ToSet(s)
    BY <2>0 DEF ToSet
  <2>1. m + i - 1 \in 1..Len(s)
    <3> HIDE DEF m, t
    <3> QED BY <1>1, <1>2
  <2> HIDE DEF m, t
  <2> QED BY <1>2, <2>1 DEF ToSet
<1> HIDE DEF m, t
<1> QED BY <1>2, <1>3, <1>4, <1>5, <1>6

LEMMA ApplyInboxType ==
  ASSUME NEW b \in Book, NEW items \in Seq(Requests), SeenMax \in Nat \ {0}
  PROVE  ApplyInbox(b, items) \in Book /\ ApplyInbox(b, items).hash = b.hash
<1> DEFINE L == Len(items)
<1>1. L \in Nat OBVIOUS
<1>0. PICK g : ItemByItem(g, b, items) BY ApplyInboxSteps
<1>2. /\ DOMAIN g = 0..L /\ g[0] = b
      /\ \A n \in 0..L : n < L => g[n + 1] = ApplyItem(g[n], items[n + 1])
      /\ ApplyInbox(b, items) = [g[L] EXCEPT !.seen = LastSeen(@)]
  BY <1>0 DEF ItemByItem
<1> DEFINE T == {n \in 0..L : g[n] \in Book /\ g[n].hash = b.hash}
<1>3. 0 \in T BY <1>1, <1>2
<1>4. ASSUME NEW n \in 0..L, n \in T, n < L PROVE n + 1 \in T
  <2>1. n + 1 \in 0..L /\ items[n + 1] \in Requests BY <1>1, <1>4
  <2>2. g[n] \in Book /\ g[n].hash = b.hash BY <1>4
  <2>3. g[n + 1] = ApplyItem(g[n], items[n + 1]) BY <1>2, <1>4
  <2> QED BY <2>1, <2>2, <2>3, ItemEffect
<1>5. L \in T
  <2> HIDE DEF T, L
  <2>1. \A n \in 0..L : n \in T BY <1>1, <1>3, <1>4, Upto
  <2> QED BY <2>1, <1>1
<1>6. g[L] \in Book /\ g[L].hash = b.hash BY <1>5
<1>7. LastSeen(g[L].seen) \in Seq(Requests) BY <1>6, LastSeenIs DEF Book
<1> HIDE DEF T, L
<1> QED BY <1>2, <1>6, <1>7 DEF Book

---------------------------------------------------------------------------
(* Types *)

LEMMA SaveKeepsTypes ==
  ASSUME TypeOK, NEW b \in Book, Save(b)
  PROVE  mem' = b /\ disk' \in {b, disk} /\ armed' \in BOOLEAN
BY DEF Save, Persist, Rearm, TypeOK

LEMMA PostsWithout ==
  ASSUME TypeOK, NEW i \in DOMAIN posts
  PROVE  /\ RemoveAt(posts, i) \in Seq([busy : SUBSET Times, landed : BOOLEAN])
         /\ Len(RemoveAt(posts, i)) <= MaxPosts
<1> DEFINE P == [busy : SUBSET Times, landed : BOOLEAN]
           x == SubSeq(posts, 1, i - 1)
           y == SubSeq(posts, i + 1, Len(posts))
<1>1. posts \in Seq(P) /\ Len(posts) <= MaxPosts /\ Len(posts) \in Nat /\ i \in 1..Len(posts)
  BY DEF TypeOK
<1>1a. MaxPosts \in Nat BY OnlineAssumption
<1> HIDE DEF P
<1>2. x \in Seq(P) /\ Len(x) = i - 1 BY <1>1
<1>3. y \in Seq(P) /\ Len(y) = Len(posts) - i BY <1>1
<1>4. RemoveAt(posts, i) = x \o y BY DEF RemoveAt
<1> HIDE DEF x, y
<1>5. x \o y \in Seq(P) /\ Len(x \o y) = Len(x) + Len(y) BY <1>2, <1>3
<1>6. Len(x \o y) <= MaxPosts BY <1>1, <1>1a, <1>2, <1>3, <1>5
<1> QED BY <1>4, <1>5, <1>6 DEF P

LEMMA PostsType == ASSUME TypeOK, NEW i \in DOMAIN posts PROVE posts[i] \in [busy : SUBSET Times, landed : BOOLEAN]
<1> DEFINE P == [busy : SUBSET Times, landed : BOOLEAN]
<1>1. posts \in Seq(P) BY DEF TypeOK
<1> HIDE DEF P
<1>2. posts[i] \in P BY <1>1
<1> QED BY <1>2 DEF P

PullType == [at : {"idle", "answered", "acking"}, items : Seq(Requests), problems : SUBSET Deleted]

LEMMA PullsType == TypeOK => pull \in [Pullers -> PullType]
BY DEF TypeOK, PullType

LEMMA TypeInit == Init => TypeOK
<1> SUFFICES ASSUME Init PROVE TypeOK OBVIOUS
<1>1. mem \in Book /\ disk \in Book BY DEF Init, Book, Row, Absent
<1>2. <<>> \in Seq(Requests) /\ <<>> \in Seq([busy : SUBSET Times, landed : BOOLEAN])
      /\ Len(<<>>) = 0 OBVIOUS
<1>3. MaxPosts \in Nat BY OnlineAssumption
<1>4. /\ busy = {} /\ acks = {} /\ told = {} /\ inbox = <<>> /\ posts = <<>> /\ armed = FALSE
      /\ pull = [p \in Pullers |-> [at |-> "idle", items |-> <<>>, problems |-> {}]]
  BY DEF Init, Idle
<1>5. stage \in [Requests -> {"new", "asked", "accepted", "refused"}] /\ cat \in [Requests -> SUBSET Times]
  BY DEF Init
<1>6. pull \in [Pullers -> PullType]
  BY <1>2, <1>4 DEF PullType
<1>7. posts \in Seq([busy : SUBSET Times, landed : BOOLEAN]) /\ Len(posts) <= MaxPosts
  BY <1>2, <1>3, <1>4
<1>8. inbox \in Seq(Requests) /\ armed \in BOOLEAN BY <1>2, <1>4
<1>9. busy \subseteq Times /\ acks \subseteq Requests /\ told \subseteq Deleted BY <1>4
<1> QED BY <1>1, <1>5, <1>6, <1>7, <1>8, <1>9 DEF TypeOK, PullType

LEMMA TypeServer ==
  ASSUME TypeOK, (\E r \in Requests : Ask(r) \/ Decide(r)) \/ RemoveAcked \/ AcksLost
  PROVE  TypeOK'
<1>1. ASSUME NEW r \in Requests, Ask(r) PROVE TypeOK'
  BY <1>1 DEF Ask, TypeOK, phoneVars
<1>2. ASSUME NEW r \in Requests, Decide(r) PROVE TypeOK'
  <2>1. inbox' \in Seq(Requests)
    <3>1. inbox \in Seq(Requests) BY DEF TypeOK
    <3>2. Append(inbox, r) \in Seq(Requests) BY <3>1
    <3>3. inbox' = Append(inbox, r) \/ inbox' = inbox BY <1>2 DEF Decide
    <3> QED BY <3>1, <3>2, <3>3
  <2>2. stage' \in [Requests -> {"new", "asked", "accepted", "refused"}]
    BY <1>2 DEF Decide, TypeOK
  <2>3. cat' \in [Requests -> SUBSET Times] BY <1>2 DEF Decide, TypeOK
  <2> QED BY <1>2, <2>1, <2>2, <2>3 DEF Decide, TypeOK, phoneVars
<1>3. CASE RemoveAcked
  <2>1. inbox' \in Seq(Requests) BY <1>3 DEF RemoveAcked, TypeOK
  <2> QED BY <1>3, <2>1 DEF RemoveAcked, TypeOK, phoneVars
<1>4. CASE AcksLost
  BY <1>4 DEF AcksLost, TypeOK, phoneVars, serverVars
<1> QED BY <1>1, <1>2, <1>3, <1>4

LEMMA TypePull ==
  ASSUME TypeOK, NEW p \in Pullers, StartPull(p) \/ PullFails(p) \/ Collect(p) \/ PullEnds(p)
  PROVE  TypeOK'
<1>0. pull \in [Pullers -> PullType] /\ pull[p] \in PullType BY PullsType
<1>1. Idle \in PullType
  <2>1. <<>> \in Seq(Requests) OBVIOUS
  <2> QED BY <2>1 DEF PullType, Idle
<1>2. ASSUME NEW x \in PullType, pull' = [pull EXCEPT ![p] = x] PROVE pull' \in [Pullers -> PullType]
  BY <1>0, <1>2
<1>3. CASE StartPull(p)
  <2>1. inbox \in Seq(Requests) BY DEF TypeOK
  <2>2. [Idle EXCEPT !.at = "answered", !.items = inbox] \in PullType
    BY <1>1, <2>1 DEF PullType, Idle
  <2>3. pull' \in [Pullers -> PullType] BY <1>2, <1>3, <2>2 DEF StartPull
  <2> QED BY <1>3, <2>3 DEF StartPull, TypeOK, PullType, phoneVars, serverVars
<1>4. CASE PullFails(p)
  <2>1. pull' \in [Pullers -> PullType] BY <1>1, <1>2, <1>4 DEF PullFails
  <2> QED BY <1>4, <2>1 DEF PullFails, TypeOK, PullType, phoneVars, serverVars
<1>5. CASE Collect(p)
  <2>1. pull[p].items \in Seq(Requests) /\ mem \in Book BY <1>0 DEF TypeOK, PullType
  <2>2. ApplyInbox(mem, pull[p].items) \in Book
    BY <2>1, ApplyInboxType, OnlineAssumption
  <2>3. mem' \in Book /\ disk' \in Book /\ armed' \in BOOLEAN
    BY <1>5, <2>2, SaveKeepsTypes DEF Collect, TypeOK
  <2>4. acks' \subseteq Requests
    <3>1. ToSet(inbox) \subseteq Requests BY DEF TypeOK, ToSet
    <3> QED BY <1>5, <3>1 DEF Collect
  <2>5. Acking(p) \in PullType
    <3>1. Problems(mem, pull[p].items) \in SUBSET Deleted BY DEF Problems
    <3> HIDE DEF Problems
    <3> QED BY <1>1, <3>1 DEF Acking, PullType, Idle
  <2>6. pull' \in [Pullers -> PullType]
    <3>1. pull' = [pull EXCEPT ![p] = Idle] \/ pull' = [pull EXCEPT ![p] = Acking(p)]
      BY <1>5 DEF Collect
    <3> QED BY <1>1, <1>2, <2>5, <3>1
  <2> QED BY <1>5, <2>3, <2>4, <2>6 DEF Collect, TypeOK, PullType, serverVars
<1>6. CASE PullEnds(p)
  <2>1. pull' \in [Pullers -> PullType] BY <1>1, <1>2, <1>6 DEF PullEnds
  <2>2. told' \subseteq Deleted BY <1>0, <1>6 DEF PullEnds, TypeOK, PullType
  <2> QED BY <1>6, <2>1, <2>2 DEF PullEnds, TypeOK, PullType, phoneVars, serverVars
<1> QED BY <1>3, <1>4, <1>5, <1>6

LEMMA TypePublish ==
  ASSUME TypeOK,
         Republish \/ \E i \in DOMAIN posts : Land(i) \/ Published(i) \/ PublishFails(i)
  PROVE  TypeOK'
<1> DEFINE P == [busy : SUBSET Times, landed : BOOLEAN]
<1>0. MaxPosts \in Nat /\ posts \in Seq(P) /\ Len(posts) \in Nat /\ mem \in Book
  BY OnlineAssumption DEF TypeOK
<1>1. CASE Republish
  <2>1. [busy |-> BusyOf(mem), landed |-> FALSE] \in P BY DEF BusyOf
  <2>2. posts' \in Seq(P) /\ Len(posts') = Len(posts) + 1
    <3> HIDE DEF P
    <3> QED BY <1>0, <1>1, <2>1 DEF Republish
  <2>3. Len(posts') <= MaxPosts BY <1>0, <1>1, <2>2 DEF Republish
  <2> QED BY <1>1, <2>2, <2>3 DEF Republish, TypeOK, serverVars
<1>2. ASSUME NEW i \in DOMAIN posts, Land(i) PROVE TypeOK'
  <2>1. posts[i] \in P BY PostsType
  <2>2. [posts[i] EXCEPT !.landed = TRUE] \in P BY <2>1
  <2>3. posts' = [posts EXCEPT ![i] = [posts[i] EXCEPT !.landed = TRUE]] BY <1>2 DEF Land
  <2>4. posts' \in Seq(P) /\ Len(posts') = Len(posts)
    <3> HIDE DEF P
    <3> QED BY <1>0, <2>2, <2>3
  <2>5. busy' \subseteq Times BY <1>2, <2>1 DEF Land
  <2> QED BY <1>2, <2>4, <2>5 DEF Land, TypeOK, phoneVars
<1>3. ASSUME NEW i \in DOMAIN posts, Published(i) PROVE TypeOK'
  <2>1. posts[i] \in P BY PostsType
  <2>2. [mem EXCEPT !.hash = posts[i].busy] \in Book BY <1>0, <2>1 DEF Book
  <2>3. mem' \in Book /\ disk' \in Book /\ armed' \in BOOLEAN
    BY <1>3, <2>2, SaveKeepsTypes DEF Published, TypeOK
  <2> QED BY <1>3, <2>3, PostsWithout DEF Published, TypeOK, serverVars
<1>4. ASSUME NEW i \in DOMAIN posts, PublishFails(i) PROVE TypeOK'
  <2>1. mem' \in Book /\ disk' \in Book /\ armed' \in BOOLEAN
    BY <1>0, <1>4, SaveKeepsTypes DEF PublishFails, TypeOK
  <2> QED BY <1>4, <2>1, PostsWithout DEF PublishFails, TypeOK, serverVars
<1> QED BY <1>1, <1>2, <1>3, <1>4

LEMMA TypeOwner ==
  ASSUME TypeOK, (\E w \in Walkins : TakeByHand(w)) \/ (\E k \in Times : Cancel(k)) \/ Restart
  PROVE  TypeOK'
<1>0. mem \in Book /\ disk \in Book /\ mem.rows \in [Requests \cup Walkins -> Row]
  BY DEF TypeOK, Book
<1>1. ASSUME NEW w \in Walkins, TakeByHand(w) PROVE TypeOK'
  <2>1. [mem EXCEPT !.rows[w] = [n |-> 1, live |-> TRUE, flagged |-> FALSE]] \in Book
    BY <1>0 DEF Book, Row
  <2>2. mem' \in Book /\ disk' \in Book /\ armed' \in BOOLEAN
    BY <1>0, <1>1, <2>1, SaveKeepsTypes DEF TakeByHand, TypeOK
  <2> QED BY <1>1, <2>2 DEF TakeByHand, TypeOK, serverVars
<1>2. ASSUME NEW k \in Times, Cancel(k) PROVE TypeOK'
  <2>1. k \in Requests \cup Walkins BY OnlineAssumption DEF Times
  <2>2. [mem EXCEPT !.rows[k].live = FALSE] \in Book
    BY <1>0, <2>1 DEF Book, Row
  <2>3. mem' \in Book /\ disk' \in Book /\ armed' \in BOOLEAN
    BY <1>0, <1>2, <2>2, SaveKeepsTypes DEF Cancel, TypeOK
  <2> QED BY <1>2, <2>3 DEF Cancel, TypeOK, serverVars
<1>3. CASE Restart
  <2>1. \A i \in DOMAIN posts : posts[i].busy \subseteq Times BY PostsType
  <2>2. busy' \subseteq Times
    <3>1. busy \subseteq Times BY DEF TypeOK
    <3>2. busy' \in {busy} \cup {posts[i].busy : i \in {j \in DOMAIN posts : ~posts[j].landed}}
      BY <1>3 DEF Restart
    <3> QED BY <2>1, <3>1, <3>2
  <2>3. <<>> \in Seq(Requests) /\ <<>> \in Seq([busy : SUBSET Times, landed : BOOLEAN])
        /\ Len(<<>>) = 0 /\ MaxPosts \in Nat
    BY OnlineAssumption
  <2>4. mem' \in Book /\ disk' \in Book /\ armed' \in BOOLEAN BY <1>0, <1>3 DEF Restart
  <2>5. pull' = [p \in Pullers |-> Idle] /\ posts' = <<>> /\ UNCHANGED <<inbox, stage, cat, acks, told>>
    BY <1>3 DEF Restart
  <2> QED BY <2>2, <2>3, <2>4, <2>5 DEF TypeOK, Idle
<1> QED BY <1>1, <1>2, <1>3

\* What every variable holds: the book in memory and the one in storage are books, at most
\* MaxPosts publishes are under way, what is told is of deleted products.
THEOREM OnlineTypeCorrect == Spec => []TypeOK
<1>1. TypeOK /\ [Next]_vars => TypeOK'
  <2> SUFFICES ASSUME TypeOK, [Next]_vars PROVE TypeOK' OBVIOUS
  <2>1. CASE UNCHANGED vars
    BY <2>1 DEF TypeOK, vars, serverVars, phoneVars
  <2>2. CASE Next
    BY <2>2, TypeServer, TypePull, TypePublish, TypeOwner DEF Next
  <2> QED BY <2>1, <2>2
<1> QED BY <1>1, TypeInit, PTL DEF Spec

---------------------------------------------------------------------------
(* Times that meet *)

\* Two times of the book that meet: one of them has a warning.
Warned(b) ==
  \A j, k \in BusyOf(b) :
    j # k /\ Clash(Slot[j], Slot[k]) => b.rows[j].flagged \/ b.rows[k].flagged

LEMMA MeetBoth == ASSUME NEW a, NEW b PROVE Clash(a, b) <=> Clash(b, a)
BY DEF Clash

LEMMA FreeIsApart ==
  ASSUME NEW k, NEW taken, IsFree(k, taken)
  PROVE  \A x \in taken : ~Clash(Slot[k], Slot[x])
<1> DEFINE at == [x \in taken |-> Slot[x]]
<1>1. Over(at, Slot[k]) = {} BY DEF IsFree, Fits
<1>2. \A x \in taken : at[x] = Slot[x] /\ x \in DOMAIN at OBVIOUS
<1> HIDE DEF at
<1> QED BY <1>1, <1>2 DEF Over

LEMMA TimeMeetsItself == ASSUME NEW k \in Times PROVE Clash(Slot[k], Slot[k])
BY OnlineAssumption DEF Times, Clash

LEMMA ItemWarned ==
  ASSUME NEW b \in Book, NEW r \in Requests, Warned(b)
  PROVE  Warned(ApplyItem(b, r))
<1> DEFINE c == ApplyItem(b, r)
<1>1. CASE r \in ToSet(b.seen) BY <1>1, ItemEffect
<1>2. CASE r \notin ToSet(b.seen) /\ r \in Deleted
  <2>1. c.rows = b.rows BY <1>2, ItemEffect, RowOfItem
  <2> HIDE DEF c
  <2>2. Warned(c) BY <2>1 DEF Warned, BusyOf
  <2> QED BY <2>2 DEF c
<1>3. CASE r \notin ToSet(b.seen) /\ r \notin Deleted
  <2> DEFINE flag == r \in Bookings /\ ~IsFree(r, BusyOf(b))
  <2>1. c.rows = [b.rows EXCEPT ![r] = [n |-> b.rows[r].n + 1, live |-> TRUE, flagged |-> flag]]
    <3>1. c.rows = AddRow(b, r) BY <1>3, ItemEffect
    <3>2. AddRow(b, r) = [b.rows EXCEPT ![r] = [n |-> b.rows[r].n + 1, live |-> TRUE, flagged |-> flag]]
      BY <1>3, RowOfItem
    <3> HIDE DEF c, flag
    <3> QED BY <3>1, <3>2
  <2>2. b.rows \in [Requests \cup Walkins -> Row] BY DEF Book
  <2>3. c.rows[r].flagged = flag
        /\ \A k \in (Requests \cup Walkins) \ {r} : c.rows[k] = b.rows[k]
    BY <2>1, <2>2
  <2>4. Times \subseteq Requests \cup Walkins /\ (r \in Times => r \in Bookings)
    BY OnlineAssumption DEF Times
  <2>5. BusyOf(c) \subseteq BusyOf(b) \cup ({r} \cap Bookings)
    BY <2>3, <2>4 DEF BusyOf
  <2>6. ASSUME NEW k \in BusyOf(b), r \in Bookings, k # r, Clash(Slot[r], Slot[k])
        PROVE  flag
    BY <2>6, FreeIsApart
  <2>7. ASSUME NEW j \in BusyOf(c), NEW k \in BusyOf(c), j # k, Clash(Slot[j], Slot[k])
        PROVE  c.rows[j].flagged \/ c.rows[k].flagged
    <3> HIDE DEF c, flag
    <3>1. CASE j = r
      <4>1. k \in BusyOf(b) /\ r \in Bookings BY <3>1, <2>5, <2>7, <2>4 DEF BusyOf
      <4> QED BY <3>1, <4>1, <2>3, <2>6, <2>7
    <3>2. CASE k = r
      <4>1. j \in BusyOf(b) /\ r \in Bookings BY <3>2, <2>5, <2>7, <2>4 DEF BusyOf
      <4>2. Clash(Slot[r], Slot[j]) BY <3>2, <2>7, MeetBoth
      <4> QED BY <3>2, <4>1, <4>2, <2>3, <2>6, <2>7
    <3>3. CASE j # r /\ k # r
      <4>1. j \in BusyOf(b) /\ k \in BusyOf(b) BY <3>3, <2>5
      <4>2. b.rows[j].flagged \/ b.rows[k].flagged BY <4>1, <2>7 DEF Warned
      <4>3. c.rows[j] = b.rows[j] /\ c.rows[k] = b.rows[k] BY <3>3, <4>1, <2>3, <2>4 DEF BusyOf
      <4> QED BY <4>2, <4>3
    <3> QED BY <3>1, <3>2, <3>3
  <2> QED BY <2>7 DEF Warned
<1> QED BY <1>1, <1>2, <1>3

LEMMA InboxWarned ==
  ASSUME NEW b \in Book, NEW items \in Seq(Requests), Warned(b)
  PROVE  Warned(ApplyInbox(b, items))
<1> DEFINE L == Len(items)
<1>1. L \in Nat OBVIOUS
<1>0. PICK g : ItemByItem(g, b, items) BY ApplyInboxSteps
<1>2. /\ g[0] = b
      /\ \A n \in 0..L : n < L => g[n + 1] = ApplyItem(g[n], items[n + 1])
      /\ ApplyInbox(b, items) = [g[L] EXCEPT !.seen = LastSeen(@)]
  BY <1>0 DEF ItemByItem
<1> DEFINE T == {n \in 0..L : g[n] \in Book /\ Warned(g[n])}
<1>3. 0 \in T BY <1>1, <1>2
<1>4. ASSUME NEW n \in 0..L, n \in T, n < L PROVE n + 1 \in T
  <2>1. n + 1 \in 0..L /\ items[n + 1] \in Requests BY <1>1, <1>4
  <2>2. g[n] \in Book /\ Warned(g[n]) BY <1>4
  <2>3. g[n + 1] = ApplyItem(g[n], items[n + 1]) BY <1>2, <1>4
  <2> QED BY <2>1, <2>2, <2>3, ItemEffect, ItemWarned
<1>5. L \in T
  <2> HIDE DEF T, L
  <2>1. \A n \in 0..L : n \in T BY <1>1, <1>3, <1>4, Upto
  <2> QED BY <2>1, <1>1
<1>6. g[L] \in Book /\ Warned(g[L]) BY <1>5
<1>7. [g[L] EXCEPT !.seen = LastSeen(@)].rows = g[L].rows BY <1>6 DEF Book
<1> HIDE DEF T, L
<1> QED BY <1>2, <1>6, <1>7 DEF Warned, BusyOf

WarnInv == TypeOK /\ Warned(mem) /\ Warned(disk)

\* A save of a book in which those that meet are warned of keeps it so, in storage too.
LEMMA SaveWarned ==
  ASSUME WarnInv, NEW b \in Book, Warned(b), Save(b)
  PROVE  Warned(mem') /\ Warned(disk')
<1>1. mem' = b /\ disk' \in {b, disk} BY SaveKeepsTypes DEF WarnInv
<1>2. CASE disk' = b BY <1>1, <1>2
<1>3. CASE disk' = disk BY <1>1, <1>3 DEF WarnInv
<1> QED BY <1>1, <1>2, <1>3

LEMMA WarnStep == WarnInv /\ [Next]_vars => Warned(mem') /\ Warned(disk')
<1> SUFFICES ASSUME WarnInv, [Next]_vars PROVE Warned(mem') /\ Warned(disk') OBVIOUS
<1>0. TypeOK /\ mem \in Book /\ disk \in Book /\ Warned(mem) /\ Warned(disk)
      /\ mem.rows \in [Requests \cup Walkins -> Row]
  BY DEF WarnInv, TypeOK, Book
<1>1. CASE UNCHANGED <<mem, disk>> BY <1>0, <1>1
<1>2. ASSUME NEW p \in Pullers, Collect(p) PROVE Warned(mem') /\ Warned(disk')
  <2>1. pull[p].items \in Seq(Requests) BY <1>0 DEF TypeOK
  <2>2. Save(ApplyInbox(mem, pull[p].items)) BY <1>2 DEF Collect
  <2>3. ApplyInbox(mem, pull[p].items) \in Book BY <1>0, <2>1, ApplyInboxType, OnlineAssumption
  <2>4. Warned(ApplyInbox(mem, pull[p].items)) BY <1>0, <2>1, InboxWarned
  <2> QED BY <2>2, <2>3, <2>4, SaveWarned
<1>3. ASSUME NEW i \in DOMAIN posts, Published(i) PROVE Warned(mem') /\ Warned(disk')
  <2> DEFINE c == [mem EXCEPT !.hash = posts[i].busy]
  <2>1. c \in Book /\ c.rows = mem.rows BY <1>0, PostsType DEF Book
  <2>2. Save(c) BY <1>3 DEF Published
  <2> HIDE DEF c
  <2>3. Warned(c) BY <1>0, <2>1 DEF Warned, BusyOf
  <2> QED BY <2>1, <2>2, <2>3, SaveWarned
<1>4. ASSUME NEW i \in DOMAIN posts, PublishFails(i) PROVE Warned(mem') /\ Warned(disk')
  BY <1>0, <1>4, SaveWarned DEF PublishFails
<1>5. ASSUME NEW w \in Walkins, TakeByHand(w) PROVE Warned(mem') /\ Warned(disk')
  <2> DEFINE c == [mem EXCEPT !.rows[w] = [n |-> 1, live |-> TRUE, flagged |-> FALSE]]
  <2>1. c \in Book BY <1>0 DEF Book, Row
  <2>2. Save(c) /\ IsFree(w, BusyOf(mem)) BY <1>5 DEF TakeByHand
  <2>3. c.rows = [mem.rows EXCEPT ![w] = [n |-> 1, live |-> TRUE, flagged |-> FALSE]] BY <1>0 DEF Book
  <2> HIDE DEF c
  <2>4. BusyOf(c) \subseteq BusyOf(mem) \cup {w}
        /\ \A k \in Times \ {w} : c.rows[k] = mem.rows[k]
    BY <1>0, <2>3, OnlineAssumption DEF BusyOf, Times
  <2>5. \A k \in BusyOf(mem) : ~Clash(Slot[w], Slot[k]) /\ ~Clash(Slot[k], Slot[w])
    BY <2>2, FreeIsApart, MeetBoth
  <2>6. Warned(c)
    <3> SUFFICES ASSUME NEW j \in BusyOf(c), NEW k \in BusyOf(c), j # k, Clash(Slot[j], Slot[k])
                 PROVE  c.rows[j].flagged \/ c.rows[k].flagged
      BY DEF Warned
    <3>1. j # w /\ k # w BY <2>4, <2>5
    <3>2. j \in BusyOf(mem) /\ k \in BusyOf(mem) BY <3>1, <2>4
    <3>3. c.rows[j] = mem.rows[j] /\ c.rows[k] = mem.rows[k] BY <3>1, <3>2, <2>4 DEF BusyOf
    <3> QED BY <1>0, <3>2, <3>3 DEF Warned
  <2> QED BY <2>1, <2>2, <2>6, SaveWarned
<1>6. ASSUME NEW k \in Times, Cancel(k) PROVE Warned(mem') /\ Warned(disk')
  <2> DEFINE c == [mem EXCEPT !.rows[k].live = FALSE]
  <2>0. k \in Requests \cup Walkins BY OnlineAssumption DEF Times
  <2>1. c \in Book BY <1>0, <2>0 DEF Book, Row
  <2>2. Save(c) BY <1>6 DEF Cancel
  <2>3. \A x \in Requests \cup Walkins : c.rows[x].flagged = mem.rows[x].flagged
                                        /\ (c.rows[x].live => mem.rows[x].live)
    BY <1>0, <2>0 DEF Book, Row
  <2> HIDE DEF c
  <2>4. Times \subseteq Requests \cup Walkins BY OnlineAssumption DEF Times
  <2>5. Warned(c) BY <1>0, <2>3, <2>4 DEF Warned, BusyOf
  <2> QED BY <2>1, <2>2, <2>5, SaveWarned
<1>7. CASE Restart BY <1>0, <1>7 DEF Restart
<1>8. QED
  <2>1. CASE UNCHANGED vars BY <2>1, <1>1 DEF vars, phoneVars
  <2>2. CASE Next
    <3>1. ASSUME NEW r \in Requests, Ask(r) \/ Decide(r) PROVE UNCHANGED <<mem, disk>>
      BY <3>1 DEF Ask, Decide, phoneVars
    <3>2. ASSUME RemoveAcked \/ AcksLost \/ Republish
                 \/ \E p \in Pullers : StartPull(p) \/ PullFails(p) \/ PullEnds(p)
          PROVE  UNCHANGED <<mem, disk>>
      BY <3>2 DEF RemoveAcked, AcksLost, StartPull, PullFails, PullEnds, Republish, phoneVars
    <3>3. ASSUME NEW i \in DOMAIN posts, Land(i) PROVE UNCHANGED <<mem, disk>>
      BY <3>3 DEF Land, phoneVars
    <3> QED BY <2>2, <3>1, <3>2, <3>3, <1>1, <1>2, <1>3, <1>4, <1>5, <1>6, <1>7 DEF Next
  <2> QED BY <2>1, <2>2

\* "keep the request, flagged, for the owner to sort out" (lib/biz/online.ts:72): however many
\* customers, walk-ins, restarts and lost calls there are, and whatever storage keeps, two times
\* of the book that meet never stand there without a warning.
THEOREM OverlapsAreFlagged == Spec => []OverlapIsFlagged
<1>1. Init => Warned(mem) /\ Warned(disk)
  BY OnlineAssumption DEF Init, Warned, BusyOf, Absent, Times
<1>2. WarnInv => OverlapIsFlagged BY DEF WarnInv, Warned, OverlapIsFlagged
<1>3. Spec => []TypeOK BY OnlineTypeCorrect
<1>4. TypeOK /\ TypeOK' /\ Warned(mem) /\ Warned(disk) /\ [Next]_vars => Warned(mem') /\ Warned(disk')
  BY WarnStep DEF WarnInv
<1>5. TypeOK /\ Warned(mem) /\ Warned(disk) => OverlapIsFlagged BY <1>2 DEF WarnInv
<1> DEFINE W == Warned(mem) /\ Warned(disk)
<1>6. Init => W BY <1>1
<1>7. TypeOK /\ TypeOK' /\ W /\ [Next]_vars => W' BY <1>4
<1>8. TypeOK /\ W => OverlapIsFlagged BY <1>5
<1> HIDE DEF W
<1> QED BY <1>3, <1>6, <1>7, <1>8, PTL DEF Spec

---------------------------------------------------------------------------
(* Nothing accepted is lost, while storage takes what is written to it *)

\* What was done with a request: a row of the book, or none because its products were deleted.
Kept(b, r) == r \in Deleted \/ b.rows[r].n > 0
SeenKept(b) == \A r \in ToSet(b.seen) : Kept(b, r)
Grows(b, c) == \A r \in Requests : Kept(b, r) => Kept(c, r)

LEMMA ItemKept ==
  ASSUME NEW b \in Book, NEW r \in Requests, SeenKept(b)
  PROVE  LET c == ApplyItem(b, r) IN SeenKept(c) /\ Kept(c, r) /\ Grows(b, c)
<1> DEFINE c == ApplyItem(b, r)
<1>1. CASE r \in ToSet(b.seen)
  <2>1. c = b BY <1>1, ItemEffect
  <2> QED BY <2>1, <1>1 DEF SeenKept, Grows
<1>2. CASE r \notin ToSet(b.seen)
  <2>1. c.rows = AddRow(b, r) /\ ToSet(c.seen) = ToSet(b.seen) \cup {r} BY <1>2, ItemEffect
  <2>2. b.rows \in [Requests \cup Walkins -> Row] /\ \A x \in Requests : b.rows[x].n \in Nat
    BY DEF Book, Row
  <2>3. ToSet(b.seen) \subseteq Requests BY DEF Book, ToSet
  <2>4. Kept(c, r) /\ \A x \in Requests \ {r} : c.rows[x] = b.rows[x]
    <3>1. CASE r \in Deleted BY <3>1, <2>1, RowOfItem DEF Kept
    <3>2. CASE r \notin Deleted
      <4> DEFINE flag == r \in Bookings /\ ~IsFree(r, BusyOf(b))
                 new == [n |-> b.rows[r].n + 1, live |-> TRUE, flagged |-> flag]
      <4>1. c.rows = [b.rows EXCEPT ![r] = new]
        <5>1. AddRow(b, r) = [b.rows EXCEPT ![r] = new] BY <3>2, RowOfItem
        <5> HIDE DEF c, new
        <5> QED BY <5>1, <2>1
      <4>2. new.n = b.rows[r].n + 1 OBVIOUS
      <4> HIDE DEF c, new
      <4> QED BY <4>1, <4>2, <2>2 DEF Kept
    <3> QED BY <3>1, <3>2
  <2> HIDE DEF c
  <2>5. Grows(b, c) BY <2>4 DEF Grows, Kept
  <2>6. SeenKept(c) BY <2>1, <2>3, <2>4, <2>5 DEF SeenKept, Grows
  <2> QED BY <2>4, <2>5, <2>6 DEF c
<1> QED BY <1>1, <1>2

LEMMA InboxKept ==
  ASSUME NEW b \in Book, NEW items \in Seq(Requests), SeenKept(b)
  PROVE  LET c == ApplyInbox(b, items)
         IN SeenKept(c) /\ Grows(b, c) /\ \A i \in 1..Len(items) : Kept(c, items[i])
<1> DEFINE L == Len(items)
<1>1. L \in Nat OBVIOUS
<1>0. PICK g : ItemByItem(g, b, items) BY ApplyInboxSteps
<1>2. /\ g[0] = b
      /\ \A n \in 0..L : n < L => g[n + 1] = ApplyItem(g[n], items[n + 1])
      /\ ApplyInbox(b, items) = [g[L] EXCEPT !.seen = LastSeen(@)]
  BY <1>0 DEF ItemByItem
<1> DEFINE Done(n) == \A i \in 1..n : Kept(g[n], items[i])
           T == {n \in 0..L : g[n] \in Book /\ SeenKept(g[n]) /\ Grows(b, g[n]) /\ Done(n)}
<1>3. 0 \in T
  <2>1. Grows(b, g[0]) /\ Done(0) BY <1>2 DEF Grows
  <2> QED BY <2>1, <1>1, <1>2
<1>4. ASSUME NEW n \in 0..L, n \in T, n < L PROVE n + 1 \in T
  <2>1. n + 1 \in 0..L /\ items[n + 1] \in Requests BY <1>1, <1>4
  <2>2. g[n] \in Book /\ SeenKept(g[n]) /\ Grows(b, g[n]) /\ Done(n) BY <1>4
  <2>3. g[n + 1] = ApplyItem(g[n], items[n + 1]) BY <1>2, <1>4
  <2>4. g[n + 1] \in Book BY <2>1, <2>2, <2>3, ItemEffect
  <2>5. SeenKept(g[n + 1]) /\ Kept(g[n + 1], items[n + 1]) /\ Grows(g[n], g[n + 1])
    BY <2>1, <2>2, <2>3, ItemKept
  <2>6. Grows(b, g[n + 1]) BY <2>2, <2>5 DEF Grows
  <2>7. Done(n + 1)
    <3> SUFFICES ASSUME NEW i \in 1..n + 1 PROVE Kept(g[n + 1], items[i]) OBVIOUS
    <3>1. items[i] \in Requests BY <1>1, <1>4
    <3>2. CASE i = n + 1 BY <3>2, <2>5
    <3>3. CASE i \in 1..n
      <4>1. Kept(g[n], items[i]) BY <2>2, <3>3
      <4> QED BY <4>1, <3>1, <2>5 DEF Grows
    <3> QED BY <3>2, <3>3
  <2> HIDE DEF Done
  <2> QED BY <2>1, <2>4, <2>5, <2>6, <2>7
<1>5. L \in T
  <2> HIDE DEF T, L
  <2>1. \A n \in 0..L : n \in T BY <1>1, <1>3, <1>4, Upto
  <2> QED BY <2>1, <1>1
<1>6. g[L] \in Book /\ SeenKept(g[L]) /\ Grows(b, g[L]) /\ Done(L) BY <1>5
<1> DEFINE c == [g[L] EXCEPT !.seen = LastSeen(@)]
<1>7. c.rows = g[L].rows /\ c.seen = LastSeen(g[L].seen) BY <1>6 DEF Book
<1>8. ToSet(c.seen) \subseteq ToSet(g[L].seen) BY <1>6, <1>7, LastSeenIs, OnlineAssumption DEF Book
<1> HIDE DEF T, c
<1>9. SeenKept(c) BY <1>6, <1>7, <1>8 DEF SeenKept, Kept
<1>10. Grows(b, c) /\ \A i \in 1..L : Kept(c, items[i]) BY <1>6, <1>7 DEF Grows, Kept
<1> QED BY <1>2, <1>9, <1>10 DEF c

\* Storage has the book, all that is acknowledged is in it, and all that is accepted is in it
\* or still waits.
KeptInv ==
  /\ disk = mem
  /\ SeenKept(mem)
  /\ \A r \in acks : Kept(mem, r)
  /\ \A r \in Requests : stage[r] = "accepted" => r \in ToSet(inbox) \/ Kept(mem, r)

\* A save of a book that has lost no row.
LEMMA SaveKept ==
  ASSUME TypeOK, KeptInv, ~StorageFails, NEW b \in Book, Save(b), SeenKept(b), Grows(mem, b),
         UNCHANGED <<stage, inbox>>, acks' \subseteq Requests, \A r \in acks' : Kept(b, r) \/ r \in acks
  PROVE  KeptInv'
<1>1. mem' = b /\ disk' = b BY DEF Save, Persist
<1>2. \A r \in acks' : Kept(b, r)
  <2> TAKE r \in acks'
  <2> QED BY DEF KeptInv, Grows
<1>3. \A r \in Requests : stage'[r] = "accepted" => r \in ToSet(inbox') \/ Kept(b, r)
  BY DEF KeptInv, Grows
<1> QED BY <1>1, <1>2, <1>3 DEF KeptInv

LEMMA KeptStep == TypeOK /\ KeptInv /\ ~StorageFails /\ [Next]_vars => KeptInv'
<1> SUFFICES ASSUME TypeOK, KeptInv, ~StorageFails, [Next]_vars PROVE KeptInv' OBVIOUS
<1>0. mem \in Book /\ mem.rows \in [Requests \cup Walkins -> Row] /\ acks \subseteq Requests
      /\ inbox \in Seq(Requests) /\ ToSet(inbox) \subseteq Requests
  BY DEF TypeOK, Book, ToSet
<1>1. CASE UNCHANGED <<mem, disk, stage, inbox>> /\ acks' \subseteq acks
  BY <1>1 DEF KeptInv
<1>2. ASSUME NEW r \in Requests, Ask(r) PROVE KeptInv'
  <2>1. \A x \in Requests : stage'[x] = "accepted" => stage[x] = "accepted"
    BY <1>2 DEF Ask, TypeOK
  <2> QED BY <1>2, <2>1 DEF Ask, KeptInv, phoneVars
<1>3. ASSUME NEW r \in Requests, Decide(r) PROVE KeptInv'
  <2>1. UNCHANGED <<mem, disk, acks>> BY <1>3 DEF Decide, phoneVars
  <2>2. \A x \in Requests : stage'[x] = "accepted" => x \in ToSet(inbox') \/ Kept(mem, x)
    <3>1. CASE inbox' = Append(inbox, r) /\ stage' = [stage EXCEPT ![r] = "accepted"]
      <4>1. ToSet(inbox') = ToSet(inbox) \cup {r} BY <1>0, <3>1 DEF ToSet
      <4> QED BY <3>1, <4>1 DEF KeptInv, TypeOK
    <3>2. CASE inbox' = inbox /\ stage' = [stage EXCEPT ![r] = "refused"]
      BY <3>2 DEF KeptInv, TypeOK
    <3> QED BY <1>3, <3>1, <3>2 DEF Decide
  <2> QED BY <2>1, <2>2 DEF KeptInv
<1>4. CASE RemoveAcked
  <2>1. UNCHANGED <<mem, disk, stage>> /\ acks' \subseteq acks /\ inbox # <<>>
        /\ inbox' = Tail(inbox) /\ Head(inbox) \in acks
    BY <1>4 DEF RemoveAcked, phoneVars
  <2>2. ToSet(inbox) \subseteq ToSet(inbox') \cup {Head(inbox)}
    <3> SUFFICES ASSUME NEW i \in 1..Len(inbox) PROVE inbox[i] \in ToSet(Tail(inbox)) \cup {inbox[1]}
      BY <1>0, <2>1 DEF ToSet
    <3>1. CASE i = 1 BY <3>1
    <3>2. CASE i # 1
      <4> DEFINE t == Tail(inbox)
      <4>1. t[i - 1] = inbox[i] /\ i - 1 \in 1..Len(t) BY <1>0, <2>1, <3>2
      <4>2. t \in Seq(Requests) BY <1>0, <2>1
      <4> HIDE DEF t
      <4>3. t[i - 1] \in ToSet(t) BY <4>1, <4>2 DEF ToSet
      <4> QED BY <4>1, <4>3 DEF t
    <3> QED BY <3>1, <3>2
  <2> QED BY <2>1, <2>2 DEF KeptInv
<1>5. ASSUME NEW p \in Pullers, Collect(p) PROVE KeptInv'
  <2> DEFINE c == ApplyInbox(mem, pull[p].items)
             n == IF Len(pull[p].items) > MaxInbox THEN MaxInbox ELSE Len(pull[p].items)
  <2>1. pull[p].items \in Seq(Requests) /\ Len(pull[p].items) \in Nat BY DEF TypeOK
  <2>2. c \in Book BY <1>0, <2>1, ApplyInboxType, OnlineAssumption
  <2>3. SeenKept(c) /\ Grows(mem, c) /\ \A i \in 1..Len(pull[p].items) : Kept(c, pull[p].items[i])
    BY <1>0, <2>1, InboxKept DEF KeptInv
  <2>4. n \in 0..Len(pull[p].items) BY <2>1, OnlineAssumption
  <2>5. \A r \in ToSet(SubSeq(pull[p].items, 1, n)) : Kept(c, r)
    <3> HIDE DEF c, n
    <3> DEFINE t == SubSeq(pull[p].items, 1, n)
    <3>1. Len(t) = n /\ t \in Seq(Requests) /\ \A i \in 1..n : t[i] = pull[p].items[i]
      BY <2>1, <2>4
    <3> HIDE DEF t
    <3>2. \A r \in ToSet(t) : \E i \in 1..n : r = pull[p].items[i]
      <4>1. DOMAIN t = 1..n BY <3>1
      <4> QED BY <3>1, <4>1 DEF ToSet
    <3>3. 1..n \subseteq 1..Len(pull[p].items) BY <2>1, <2>4
    <3> QED BY <2>3, <3>2, <3>3 DEF t
  <2>6. acks' = (acks \cup ToSet(SubSeq(pull[p].items, 1, n))) \cap ToSet(inbox) BY <1>5 DEF Collect
  <2>7. Save(c) /\ UNCHANGED <<stage, inbox>> BY <1>5 DEF Collect, serverVars
  <2> HIDE DEF c, n
  <2>8. acks' \subseteq Requests /\ \A r \in acks' : Kept(c, r) \/ r \in acks BY <1>0, <2>5, <2>6
  <2> QED BY <2>2, <2>3, <2>7, <2>8, SaveKept
<1>6. ASSUME NEW i \in DOMAIN posts, Published(i) PROVE KeptInv'
  <2> DEFINE c == [mem EXCEPT !.hash = posts[i].busy]
  <2>1. c \in Book /\ c.rows = mem.rows /\ c.seen = mem.seen BY <1>0, PostsType DEF Book
  <2>2. Save(c) /\ UNCHANGED <<stage, inbox, acks>> BY <1>6 DEF Published, serverVars
  <2> HIDE DEF c
  <2>3. SeenKept(c) /\ Grows(mem, c) BY <2>1 DEF KeptInv, SeenKept, Grows, Kept
  <2> QED BY <1>0, <2>1, <2>2, <2>3, SaveKept
<1>7. ASSUME NEW i \in DOMAIN posts, PublishFails(i) PROVE KeptInv'
  <2>1. Save(mem) /\ UNCHANGED <<stage, inbox, acks>> BY <1>7 DEF PublishFails, serverVars
  <2>2. SeenKept(mem) /\ Grows(mem, mem) BY DEF KeptInv, Grows
  <2> QED BY <1>0, <2>1, <2>2, SaveKept
<1>8. ASSUME NEW w \in Walkins, TakeByHand(w) PROVE KeptInv'
  <2> DEFINE c == [mem EXCEPT !.rows[w] = [n |-> 1, live |-> TRUE, flagged |-> FALSE]]
  <2>1. c \in Book /\ c.seen = mem.seen BY <1>0 DEF Book, Row
  <2>2. \A r \in Requests : c.rows[r] = mem.rows[r] BY <1>0, OnlineAssumption DEF Book
  <2>3. Save(c) /\ UNCHANGED <<stage, inbox, acks>> BY <1>8 DEF TakeByHand, serverVars
  <2>4. ToSet(mem.seen) \subseteq Requests BY <1>0 DEF Book, ToSet
  <2> HIDE DEF c
  <2>5. SeenKept(c) /\ Grows(mem, c) BY <2>1, <2>2, <2>4 DEF KeptInv, SeenKept, Grows, Kept
  <2> QED BY <1>0, <2>1, <2>3, <2>5, SaveKept
<1>9. ASSUME NEW k \in Times, Cancel(k) PROVE KeptInv'
  <2> DEFINE c == [mem EXCEPT !.rows[k].live = FALSE]
  <2>0. k \in Requests \cup Walkins BY OnlineAssumption DEF Times
  <2>1. c \in Book /\ c.seen = mem.seen BY <1>0, <2>0 DEF Book, Row
  <2>2. \A r \in Requests : c.rows[r].n = mem.rows[r].n BY <1>0, <2>0 DEF Book, Row
  <2>3. Save(c) /\ UNCHANGED <<stage, inbox, acks>> BY <1>9 DEF Cancel, serverVars
  <2>4. ToSet(mem.seen) \subseteq Requests BY <1>0 DEF Book, ToSet
  <2> HIDE DEF c
  <2>5. SeenKept(c) /\ Grows(mem, c) BY <2>1, <2>2, <2>4 DEF KeptInv, SeenKept, Grows, Kept
  <2> QED BY <1>0, <2>1, <2>3, <2>5, SaveKept
<1>10. CASE Restart
  BY <1>10 DEF Restart, KeptInv
<1>11. QED
  <2>1. CASE UNCHANGED vars BY <2>1, <1>1 DEF vars, phoneVars, serverVars
  <2>2. CASE Next
    <3>1. ASSUME \/ AcksLost \/ Republish
                 \/ \E p \in Pullers : StartPull(p) \/ PullFails(p) \/ PullEnds(p)
          PROVE  UNCHANGED <<mem, disk, stage, inbox>> /\ acks' \subseteq acks
      BY <3>1 DEF AcksLost, StartPull, PullFails, PullEnds, Republish, phoneVars, serverVars
    <3>2. ASSUME NEW i \in DOMAIN posts, Land(i)
          PROVE  UNCHANGED <<mem, disk, stage, inbox>> /\ acks' \subseteq acks
      BY <3>2 DEF Land, phoneVars
    <3> QED BY <2>2, <3>1, <3>2, <1>1, <1>2, <1>3, <1>4, <1>5, <1>6, <1>7, <1>8, <1>9, <1>10 DEF Next
  <2> QED BY <2>1, <2>2

LEMMA KeptAlways == ASSUME ~StorageFails PROVE Spec => []KeptInv
<1>1. Init => KeptInv
  <2> SUFFICES ASSUME Init PROVE KeptInv OBVIOUS
  <2>1. ToSet(mem.seen) = {} BY DEF Init, ToSet
  <2> QED BY <2>1 DEF Init, KeptInv, SeenKept
<1>2. TypeOK /\ KeptInv /\ [Next]_vars => KeptInv' BY KeptStep
<1> QED BY <1>1, <1>2, OnlineTypeCorrect, PTL DEF Spec

\* "only after the book holds them are they deleted on the server"
\* (components/biz/BizSync.tsx:69): while localStorage takes what is written and no product of
\* a waiting order is deleted, an accepted request waits on the server or is in the book a
\* restart would find, whatever answers and acknowledgements the network loses.
THEOREM AcceptedIsNotLost == ASSUME ~StorageFails, Deleted = {} PROVE Spec => []NothingLost
<1>1. KeptInv => NothingLost BY DEF KeptInv, NothingLost, Kept
<1> QED BY <1>1, KeptAlways, PTL

---------------------------------------------------------------------------
(* Nothing is applied twice *)

\* The book remembers as its last ids the first k of q, and knows nothing of the others.
Applied(b, r)      == r \in ToSet(b.seen) \/ b.rows[r].n > 0
EndsWith(s, q, k)  == k <= Len(s) /\ \A i \in 1..k : s[Len(s) - k + i] = q[i]
Begun(b, q, k)     == EndsWith(b.seen, q, k) /\ \A i \in k + 1 .. Len(q) : ~Applied(b, q[i])
Once(b)            == \A r \in Requests : b.rows[r].n <= 1
Distinct(q)        == \A i, j \in 1..Len(q) : q[i] = q[j] => i = j

LEMMA SeenSet ==
  ASSUME NEW s \in Seq(Requests)
  PROVE  /\ \A i \in 1..Len(s) : s[i] \in ToSet(s)
         /\ ToSet(s) \subseteq Requests
<1>1. DOMAIN s = 1..Len(s) /\ \A i \in 1..Len(s) : s[i] \in Requests OBVIOUS
<1> QED BY <1>1 DEF ToSet

\* An item the book has not applied.
LEMMA NewItem ==
  ASSUME NEW b \in Book, NEW r \in Requests, ~Applied(b, r), Once(b)
  PROVE  LET c == ApplyItem(b, r)
         IN /\ c \in Book /\ Once(c) /\ c.seen = Append(b.seen, r)
            /\ \A x \in Requests \ {r} : Applied(c, x) => Applied(b, x)
<1> DEFINE c == ApplyItem(b, r)
           flag == r \in Bookings /\ ~IsFree(r, BusyOf(b))
           new == [n |-> b.rows[r].n + 1, live |-> TRUE, flagged |-> flag]
<1>1. r \notin ToSet(b.seen) /\ ~(b.rows[r].n > 0) BY DEF Applied
<1>2. c \in Book /\ c.rows = AddRow(b, r) /\ c.seen = Append(b.seen, r)
      /\ ToSet(c.seen) = ToSet(b.seen) \cup {r}
  BY <1>1, ItemEffect
<1>3. b.rows \in [Requests \cup Walkins -> Row] /\ b.rows[r].n \in Nat BY DEF Book, Row
<1>4. b.rows[r].n = 0 BY <1>1, <1>3
<1>5. c.rows = b.rows \/ c.rows = [b.rows EXCEPT ![r] = new]
  <2>1. AddRow(b, r) = b.rows \/ AddRow(b, r) = [b.rows EXCEPT ![r] = new] BY RowOfItem
  <2> HIDE DEF c, new
  <2> QED BY <1>2, <2>1
<1>6. new.n = 1 BY <1>4
<1> HIDE DEF c, new
<1>7. \A x \in Requests \ {r} : c.rows[x] = b.rows[x] BY <1>3, <1>5
<1>8. c.rows[r].n <= 1 BY <1>3, <1>4, <1>5, <1>6
<1>9. Once(c) BY <1>7, <1>8 DEF Once
<1>10. \A x \in Requests \ {r} : Applied(c, x) => Applied(b, x) BY <1>2, <1>7 DEF Applied
<1> QED BY <1>2, <1>9, <1>10 DEF c

\* The end of a sequence after one more.
LEMMA OneMore ==
  ASSUME NEW s \in Seq(Requests), NEW q \in Seq(Requests), NEW n \in 0..Len(q), n < Len(q),
         EndsWith(s, q, n)
  PROVE  EndsWith(Append(s, q[n + 1]), q, n + 1)
<1> DEFINE t == Append(s, q[n + 1])
<1>1. q[n + 1] \in Requests /\ n \in Nat /\ Len(s) \in Nat OBVIOUS
<1>2. Len(t) = Len(s) + 1 /\ t[Len(s) + 1] = q[n + 1] /\ \A i \in 1..Len(s) : t[i] = s[i] BY <1>1
<1> HIDE DEF t
<1>3. n <= Len(s) BY DEF EndsWith
<1>4. ASSUME NEW i \in 1..n + 1 PROVE t[Len(t) - (n + 1) + i] = q[i]
  <2>1. Len(t) - (n + 1) + i = Len(s) - n + i BY <1>1, <1>2
  <2>2. CASE i = n + 1 BY <2>1, <2>2, <1>1, <1>2
  <2>3. CASE i \in 1..n
    <3>1. Len(s) - n + i \in 1..Len(s) BY <1>1, <1>3, <2>3
    <3>2. s[Len(s) - n + i] = q[i] BY <2>3 DEF EndsWith
    <3> QED BY <2>1, <3>1, <3>2, <1>2
  <2> QED BY <2>2, <2>3, <1>1
<1>5. n + 1 <= Len(t) BY <1>1, <1>2, <1>3
<1> QED BY <1>4, <1>5 DEF EndsWith, t

\* A list of which the book remembers the beginning: what it remembers is skipped, the rest is
\* applied once, and all of it is remembered if it is not longer than what a book remembers.
LEMMA InboxOnce ==
  ASSUME NEW b \in Book, NEW items \in Seq(Requests), Distinct(items), Len(items) <= SeenMax,
         NEW k \in 0..Len(items), Begun(b, items, k), Once(b)
  PROVE  LET c == ApplyInbox(b, items)
         IN /\ c \in Book /\ Once(c) /\ EndsWith(c.seen, items, Len(items))
            /\ \A x \in Requests : (\A i \in 1..Len(items) : x # items[i]) =>
                 (Applied(c, x) => Applied(b, x))
<1> DEFINE L == Len(items)
<1>1. L \in Nat /\ k \in Nat OBVIOUS
<1>0. PICK g : ItemByItem(g, b, items) BY ApplyInboxSteps
<1>2. /\ g[0] = b
      /\ \A n \in 0..L : n < L => g[n + 1] = ApplyItem(g[n], items[n + 1])
      /\ ApplyInbox(b, items) = [g[L] EXCEPT !.seen = LastSeen(@)]
  BY <1>0 DEF ItemByItem
<1> DEFINE Other(x) == x \in Requests /\ \A i \in 1..L : x # items[i]
           Rest(n) == \A x \in Requests : Other(x) /\ Applied(g[n], x) => Applied(b, x)
           Good(n) == /\ g[n] \in Book /\ Once(g[n]) /\ Rest(n)
                      /\ n <= k => g[n] = b
                      /\ n >= k => Begun(g[n], items, n)
           T == {n \in 0..L : Good(n)}
<1>3. 0 \in T
  <2>1. 0 >= k => k = 0 BY <1>1
  <2>2. Good(0) BY <1>2, <2>1
  <2> QED BY <2>2, <1>1
<1>4. ASSUME NEW n \in 0..L, n \in T, n < L PROVE n + 1 \in T
  <2>1. n + 1 \in 0..L /\ n + 1 \in 1..L /\ items[n + 1] \in Requests /\ n \in Nat BY <1>1, <1>4
  <2>2. Good(n) BY <1>4
  <2>3. g[n + 1] = ApplyItem(g[n], items[n + 1]) BY <1>2, <1>4
  <2>4. CASE n < k
    <3>1. b.seen \in Seq(Requests) /\ Len(b.seen) \in Nat BY DEF Book
    <3>2. k <= Len(b.seen) /\ b.seen[Len(b.seen) - k + (n + 1)] = items[n + 1]
      <4>1. n + 1 \in 1..k BY <2>1, <2>4, <1>1
      <4> QED BY <4>1 DEF Begun, EndsWith
    <3>3. Len(b.seen) - k + (n + 1) \in 1..Len(b.seen)
      <4> DEFINE m == Len(b.seen)
      <4>1. m \in Nat /\ k <= m BY <3>1, <3>2
      <4> HIDE DEF m
      <4>2. m - k + (n + 1) \in 1..m BY <4>1, <2>4, <2>1, <1>1
      <4> QED BY <4>2 DEF m
    <3>4. items[n + 1] \in ToSet(b.seen) BY <3>1, <3>2, <3>3, SeenSet
    <3>5. g[n + 1] = b BY <2>1, <2>2, <2>3, <2>4, <3>4, <1>1, ItemEffect
    <3>6. n + 1 >= k => n + 1 = k BY <2>1, <2>4, <1>1
    <3>7. Good(n + 1) BY <3>5, <3>6
    <3> QED BY <3>7, <2>1
  <2>5. CASE n >= k
    <3> DEFINE r == items[n + 1]
               c == g[n + 1]
    <3>1. g[n] \in Book /\ Once(g[n]) /\ Rest(n) /\ Begun(g[n], items, n) BY <2>2, <2>5
    <3>2. ~Applied(g[n], r)
      <4>1. n + 1 \in n + 1 .. Len(items) BY <2>1
      <4> QED BY <4>1, <3>1 DEF Begun
    <3>3. c \in Book /\ Once(c) /\ c.seen = Append(g[n].seen, r)
          /\ \A x \in Requests \ {r} : Applied(c, x) => Applied(g[n], x)
      <4> HIDE DEF Good, T, Rest
      <4> QED BY <2>1, <2>3, <3>1, <3>2, NewItem
    <3>4. EndsWith(c.seen, items, n + 1)
      <4>1. g[n].seen \in Seq(Requests) BY <3>1 DEF Book
      <4>2. EndsWith(g[n].seen, items, n) BY <3>1 DEF Begun
      <4> HIDE DEF c, Good, T, Rest
      <4> QED BY <3>3, <4>1, <4>2, <1>4, OneMore
    <3> HIDE DEF c
    <3>5. ASSUME NEW i \in n + 2 .. L PROVE ~Applied(c, items[i])
      <4>1. i \in 1..L /\ i # n + 1 /\ i \in n + 1 .. Len(items) BY <2>1, <1>1
      <4>2. items[i] \in Requests \ {r} BY <4>1, <2>1 DEF Distinct
      <4>3. ~Applied(g[n], items[i]) BY <4>1, <3>1 DEF Begun
      <4> QED BY <4>2, <4>3, <3>3
    <3>6. Begun(c, items, n + 1)
      <4>1. (n + 1) + 1 = n + 2 BY <2>1
      <4> QED BY <3>4, <3>5, <4>1 DEF Begun
    <3>7. Rest(n + 1)
      <4> SUFFICES ASSUME NEW x \in Requests, Other(x), Applied(c, x) PROVE Applied(b, x) BY DEF c
      <4>1. x \in Requests \ {r} BY <2>1
      <4> QED BY <4>1, <3>1, <3>3
    <3>8. n + 1 <= k => FALSE BY <2>1, <2>5, <1>1
    <3>9. Good(n + 1) BY <3>3, <3>6, <3>7, <3>8 DEF c
    <3> QED BY <3>9, <2>1
  <2> QED BY <2>4, <2>5, <2>1, <1>1
<1>5. L \in T
  <2> HIDE DEF T, L
  <2>1. \A n \in 0..L : n \in T BY <1>1, <1>3, <1>4, Upto
  <2> QED BY <2>1, <1>1
<1>6. Good(L) /\ L >= k BY <1>5
<1>7. g[L] \in Book /\ Once(g[L]) /\ Rest(L) /\ EndsWith(g[L].seen, items, L) BY <1>6 DEF Begun
<1> DEFINE c == ApplyInbox(b, items)
           s == g[L].seen
           t == LastSeen(s)
<1>8. c \in Book BY ApplyInboxType, OnlineAssumption
<1>9. c.rows = g[L].rows /\ c.seen = t BY <1>2, <1>7 DEF Book
<1>10. s \in Seq(Requests) /\ Len(s) \in Nat BY <1>7 DEF Book
<1>11. /\ t \in Seq(Requests) /\ ToSet(t) \subseteq ToSet(s)
       /\ Len(t) = IF Len(s) > SeenMax THEN SeenMax ELSE Len(s)
       /\ \A i \in 1..Len(t) : t[i] = s[Len(s) - Len(t) + i]
  <2> HIDE DEF s, Good, T
  <2> QED BY <1>10, LastSeenIs, OnlineAssumption
<1>12. SeenMax \in Nat BY OnlineAssumption
<1> HIDE DEF c, s, t, Good, T, L
<1>13. EndsWith(t, items, L)
  <2>1. L <= Len(s) /\ \A i \in 1..L : s[Len(s) - L + i] = items[i] BY <1>7 DEF EndsWith, s
  <2>2. L <= Len(t) /\ Len(t) <= Len(s) /\ Len(t) \in Nat BY <2>1, <1>1, <1>10, <1>11, <1>12 DEF L
  <2>3. ASSUME NEW i \in 1..L PROVE t[Len(t) - L + i] = items[i]
    <3>1. Len(t) - L + i \in 1..Len(t) BY <2>2, <1>1
    <3>2. Len(s) - Len(t) + (Len(t) - L + i) = Len(s) - L + i BY <2>2, <1>1, <1>10
    <3>3. t[Len(t) - L + i] = s[Len(s) - L + i] BY <3>1, <3>2, <1>11
    <3> QED BY <3>3, <2>1
  <2> QED BY <2>2, <2>3 DEF EndsWith
<1>14. Once(c) BY <1>7, <1>9 DEF Once
<1>15. \A x \in Requests : (\A i \in 1..Len(items) : x # items[i]) => (Applied(c, x) => Applied(b, x))
  <2> SUFFICES ASSUME NEW x \in Requests, \A i \in 1..Len(items) : x # items[i], Applied(c, x)
               PROVE  Applied(b, x) OBVIOUS
  <2>1. Applied(g[L], x) BY <1>9, <1>11 DEF Applied, s
  <2>2. Other(x) BY DEF L
  <2> QED BY <2>1, <2>2, <1>7
<1> QED BY <1>8, <1>9, <1>13, <1>14, <1>15 DEF c, L

\* The inbox is the end of one line of accepted requests, each of which joined it once; what the
\* phone holds as an answer is the line's beginning, and short enough to be remembered; each of
\* the two books has applied a beginning of the line, not longer than the answer, and remembers
\* it as the last it applied.
Alone == Pullers # {} /\ \A x, y \in Pullers : x = y

Pull     == pull[CHOOSE x \in Pullers : TRUE]
Answered == Pull.at = "answered"
Reach(q) == IF Answered THEN Len(Pull.items) ELSE Len(q)
Begins(b, q, m) == \E k \in 0..m : Begun(b, q, k)

InLine(q, d) ==
  /\ Distinct(q) /\ \A i \in 1..Len(q) : stage[q[i]] = "accepted"
  /\ Len(inbox) = Len(q) - d /\ \A i \in 1..Len(inbox) : inbox[i] = q[d + i]
  /\ Answered => /\ Len(Pull.items) <= Len(q) /\ Len(Pull.items) <= SeenMax
                 /\ \A i \in 1..Len(Pull.items) : Pull.items[i] = q[i]
  /\ Begins(mem, q, Reach(q)) /\ Begins(disk, q, Reach(q))

LineInv == \E q \in Seq(Requests) : \E d \in 0..Len(q) : InLine(q, d)

\* What is not accepted no book has heard of.
Unheard(b) == \A r \in Requests : stage[r] # "accepted" => ~Applied(b, r)

\* Each submit that waits for the lock counted fewer than MaxInbox items.
Counting == {r \in Requests : stage[r] = "asked"}
Room == /\ IsFiniteSet(Counting) /\ Cardinality(Counting) <= Racers
        /\ Len(inbox) + Cardinality(Counting) <= MaxInbox + Racers - 1

OnceInv == /\ Alone /\ LineInv /\ Room
           /\ Unheard(mem) /\ Unheard(disk) /\ Once(mem) /\ Once(disk)

\* What the calls of the server do to the number that wait.
LEMMA RoomStep == TypeOK /\ Room /\ [Next]_vars => Room'
<1> SUFFICES ASSUME TypeOK, Room, [Next]_vars PROVE Room' OBVIOUS
<1> DEFINE C == Counting
<1>0. /\ inbox \in Seq(Requests) /\ Len(inbox) \in Nat /\ IsFiniteSet(C) /\ Cardinality(C) \in Nat
      /\ MaxInbox \in Nat \ {0} /\ Racers \in Nat \ {0}
  BY OnlineAssumption, FS_CardinalityType DEF TypeOK, Room
<1>1. CASE UNCHANGED <<inbox, stage>> BY <1>1 DEF Room, Counting
<1>2. ASSUME NEW r \in Requests, Ask(r) PROVE Room'
  <2>1. inbox' = inbox /\ stage[r] = "new" /\ Cardinality(C) < Racers BY <1>2 DEF Ask, Counting
  <2>2. CASE Len(inbox) >= MaxInbox
    <3>1. Counting' = Counting BY <1>2, <2>1, <2>2 DEF Ask, Counting, TypeOK
    <3> QED BY <2>1, <3>1 DEF Room
  <2>3. CASE ~(Len(inbox) >= MaxInbox)
    <3>1. Counting' = C \cup {r} /\ r \notin C BY <1>2, <2>1, <2>3 DEF Ask, Counting, TypeOK
    <3>2. IsFiniteSet(Counting') /\ Cardinality(Counting') = Cardinality(C) + 1
      BY <1>0, <3>1, FS_AddElement
    <3> QED BY <1>0, <2>1, <2>3, <3>2 DEF Room
  <2> QED BY <2>2, <2>3
<1>3. ASSUME NEW r \in Requests, Decide(r) PROVE Room'
  <2>1. Counting' = C \ {r} /\ r \in C BY <1>3 DEF Decide, Counting, TypeOK
  <2>2. IsFiniteSet(Counting') /\ Cardinality(Counting') = Cardinality(C) - 1
    BY <1>0, <2>1, FS_RemoveElement
  <2>3. Len(inbox') <= Len(inbox) + 1 /\ Len(inbox') \in Nat
    <3>1. inbox' = inbox \/ inbox' = Append(inbox, r) BY <1>3 DEF Decide
    <3> QED BY <3>1, <1>0
  <2> HIDE DEF C
  <2> QED BY <1>0, <2>2, <2>3 DEF Room, C
<1>4. CASE RemoveAcked
  <2>1. inbox # <<>> /\ inbox' = Tail(inbox) /\ stage' = stage BY <1>4 DEF RemoveAcked
  <2>2. Len(inbox') = Len(inbox) - 1 BY <1>0, <2>1
  <2> QED BY <1>0, <2>1, <2>2 DEF Room, Counting
<1> QED
  <2>1. ASSUME AcksLost \/ Republish
               \/ (\E p \in Pullers : StartPull(p) \/ PullFails(p) \/ Collect(p) \/ PullEnds(p))
               \/ Restart \/ (\E w \in Walkins : TakeByHand(w)) \/ (\E k \in Times : Cancel(k))
               \/ (\E i \in DOMAIN posts : Land(i) \/ Published(i) \/ PublishFails(i)) \/ UNCHANGED vars
        PROVE  UNCHANGED <<inbox, stage>>
    BY <2>1 DEF AcksLost, StartPull, PullFails, Collect, PullEnds, Republish, Restart,
       TakeByHand, Cancel, Land, Published, PublishFails, vars, serverVars
  <2> QED BY <2>1, <1>1, <1>2, <1>3, <1>4 DEF Next

\* What the one collecting call waits for.
LEMMA ThePull ==
  ASSUME Alone, NEW p \in Pullers
  PROVE  /\ Pull = pull[p]
         /\ TypeOK => Pull \in PullType
         /\ \A x : TypeOK /\ pull' = [pull EXCEPT ![p] = x] => Pull' = x
<1>1. (CHOOSE x \in Pullers : TRUE) = p BY DEF Alone
<1>2. Pull = pull[p] /\ Pull' = pull'[p] BY <1>1 DEF Pull
<1>3. TypeOK => pull \in [Pullers -> PullType] BY PullsType
<1> QED BY <1>2, <1>3

LEMMA PullIs ==
  ASSUME TypeOK, OnceInv
  PROVE  /\ Pull.at \in {"idle", "answered", "acking"}
         /\ Pull.items \in Seq(Requests) /\ Len(Pull.items) \in Nat
<1>1. PICK p \in Pullers : TRUE BY DEF OnceInv, Alone
<1>2. Alone BY DEF OnceInv
<1>3. Pull \in PullType BY <1>1, <1>2, ThePull
<1> QED BY <1>3 DEF PullType

\* What the book knows of the requests: nothing else counts here.
Alike(b, c) == c.seen = b.seen /\ \A r \in Requests : c.rows[r].n = b.rows[r].n

LEMMA AlikeBooks ==
  ASSUME NEW b, NEW c, Alike(b, c)
  PROVE  /\ Once(b) => Once(c)
         /\ Unheard(b) => Unheard(c)
         /\ \A q \in Seq(Requests), m \in Nat : Begins(b, q, m) => Begins(c, q, m)
<1>1. Once(b) => Once(c) BY DEF Alike, Once
<1>2. \A r \in Requests : Applied(c, r) <=> Applied(b, r) BY DEF Alike, Applied
<1>3. Unheard(b) => Unheard(c) BY <1>2 DEF Unheard
<1>4. ASSUME NEW q \in Seq(Requests), NEW k \in Nat, Begun(b, q, k) PROVE Begun(c, q, k)
  <2>1. EndsWith(c.seen, q, k) BY <1>4 DEF Begun, Alike
  <2>2. \A i \in k + 1 .. Len(q) : q[i] \in Requests
    <3>1. \A i \in k + 1 .. Len(q) : i \in 1..Len(q) OBVIOUS
    <3> QED BY <3>1
  <2> QED BY <1>4, <1>2, <2>1, <2>2 DEF Begun
<1>5. ASSUME NEW q \in Seq(Requests), NEW m \in Nat, Begins(b, q, m) PROVE Begins(c, q, m)
  BY <1>4, <1>5 DEF Begins
<1> QED BY <1>1, <1>3, <1>5

\* A save that changes nothing the line is about.
LEMMA AlikeSaved ==
  ASSUME TypeOK, OnceInv, Room', UNCHANGED <<inbox, stage, pull>>,
         NEW b \in Book, Save(b), Alike(mem, b)
  PROVE  OnceInv'
<1>1. mem' = b /\ disk' \in {b, disk} BY SaveKeepsTypes
<1>a. PICK q \in Seq(Requests) : \E d \in 0..Len(q) : InLine(q, d) BY DEF OnceInv, LineInv
<1>2. PICK d \in 0..Len(q) : InLine(q, d) BY <1>a
<1>3. Reach(q)' = Reach(q) /\ Reach(q) \in Nat
  BY PullIs DEF Reach, Answered, Pull
<1>4. Begins(mem', q, Reach(q)) /\ Begins(disk', q, Reach(q))
  <2>1. Begins(b, q, Reach(q)) BY <1>2, <1>3, AlikeBooks DEF InLine
  <2> QED BY <1>1, <1>2, <2>1 DEF InLine
<1>5. InLine(q, d)'
  <2>1. Begins(mem, q, Reach(q))' /\ Begins(disk, q, Reach(q))' BY <1>3, <1>4 DEF Begins
  <2> QED BY <1>2, <2>1 DEF InLine, Answered, Pull
<1>6. LineInv' BY <1>5 DEF LineInv
<1>7. Once(mem)' /\ Once(disk)'
  <2>1. Once(b) /\ Once(disk) BY AlikeBooks DEF OnceInv
  <2> QED BY <1>1, <2>1 DEF Once
<1>8. Unheard(mem)' /\ Unheard(disk)'
  <2>1. Unheard(b) /\ Unheard(disk) BY AlikeBooks DEF OnceInv
  <2> QED BY <1>1, <2>1 DEF Unheard, Applied
<1> QED BY <1>6, <1>7, <1>8 DEF OnceInv

LEMMA ReachType ==
  ASSUME TypeOK, OnceInv, NEW q \in Seq(Requests), NEW d \in 0..Len(q), InLine(q, d)
  PROVE  /\ Len(q) \in Nat /\ Len(Pull.items) \in Nat /\ inbox \in Seq(Requests) /\ Len(inbox) \in Nat
         /\ Reach(q) \in 0..Len(q)
BY PullIs DEF Reach, TypeOK, InLine

LEMMA BeginsWider ==
  ASSUME NEW b, NEW q, NEW m \in Nat, NEW n \in Nat, m <= n, Begins(b, q, m)
  PROVE  Begins(b, q, n)
<1>1. 0..m \subseteq 0..n OBVIOUS
<1> QED BY <1>1 DEF Begins

\* Neither a book nor the line changes.
LEMMA OnceElsewhere ==
  ASSUME TypeOK, OnceInv, Room', UNCHANGED <<mem, disk, inbox>>,
         \A r \in Requests : stage'[r] = "accepted" <=> stage[r] = "accepted",
         Answered' => Answered /\ Pull'.items = Pull.items
  PROVE  OnceInv'
<1>1. PICK q \in Seq(Requests) : \E d \in 0..Len(q) : InLine(q, d) BY DEF OnceInv, LineInv
<1>2. PICK d \in 0..Len(q) : InLine(q, d) BY <1>1
<1>3. Reach(q) \in 0..Len(q) /\ Len(q) \in Nat BY <1>2, ReachType
<1>4. Reach(q)' \in Nat /\ Reach(q) <= Reach(q)'
  <2>1. CASE Answered' BY <2>1, <1>3 DEF Reach
  <2>2. CASE ~Answered' BY <2>2, <1>3 DEF Reach
  <2> QED BY <2>1, <2>2
<1>5. Begins(mem, q, Reach(q)') /\ Begins(disk, q, Reach(q)')
  <2>1. Reach(q) \in Nat BY <1>3
  <2> QED BY <2>1, <1>2, <1>4, BeginsWider DEF InLine
<1>6. Begins(mem, q, Reach(q))' /\ Begins(disk, q, Reach(q))' BY <1>5 DEF Begins, Begun, EndsWith, Applied
<1>7. \A i \in 1..Len(q) : stage'[q[i]] = "accepted" BY <1>2 DEF InLine
<1>8. InLine(q, d)' BY <1>2, <1>6, <1>7 DEF InLine
<1>9. LineInv' BY <1>8 DEF LineInv
<1> QED BY <1>9 DEF OnceInv, Once, Unheard, Applied

\* A request joins the line, unheard of.
LEMMA OnceDecide ==
  ASSUME TypeOK, OnceInv, Room', NEW r \in Requests, Decide(r)
  PROVE  OnceInv'
<1>0. stage[r] = "asked" /\ UNCHANGED <<mem, disk, pull>> /\ stage \in [Requests -> {"new", "asked", "accepted", "refused"}]
  BY DEF Decide, phoneVars, TypeOK
<1>1. CASE stage' = [stage EXCEPT ![r] = "refused"] /\ inbox' = inbox
  <2>1. \A x \in Requests : stage'[x] = "accepted" <=> stage[x] = "accepted" BY <1>0, <1>1
  <2> QED BY <1>0, <1>1, <2>1, OnceElsewhere DEF Answered, Pull
<1>2. CASE stage' = [stage EXCEPT ![r] = "accepted"] /\ inbox' = Append(inbox, r)
  <2>1. PICK q \in Seq(Requests) : \E d \in 0..Len(q) : InLine(q, d) BY DEF OnceInv, LineInv
  <2>2. PICK d \in 0..Len(q) : InLine(q, d) BY <2>1
  <2>3. /\ Reach(q) \in 0..Len(q) /\ Len(q) \in Nat /\ inbox \in Seq(Requests) /\ Len(inbox) \in Nat
        /\ Len(inbox) = Len(q) - d
    BY <2>2, ReachType DEF InLine
  <2> DEFINE p == Append(q, r)
  <2>4. p \in Seq(Requests) /\ Len(p) = Len(q) + 1 /\ p[Len(q) + 1] = r
        /\ \A i \in 1..Len(q) : p[i] = q[i]
    BY <2>3
  <2> HIDE DEF p
  <2>5. \A i \in 1..Len(q) : q[i] # r /\ q[i] \in Requests /\ stage[q[i]] = "accepted"
    BY <1>0, <2>2 DEF InLine
  <2>6. Distinct(p)
    <3> SUFFICES ASSUME NEW i \in 1..Len(p), NEW j \in 1..Len(p), p[i] = p[j] PROVE i = j BY DEF Distinct
    <3>1. i \in 1..Len(q) \/ i = Len(q) + 1 BY <2>3, <2>4
    <3>2. j \in 1..Len(q) \/ j = Len(q) + 1 BY <2>3, <2>4
    <3>3. Distinct(q) BY <2>2 DEF InLine
    <3> QED BY <3>1, <3>2, <3>3, <2>4, <2>5 DEF Distinct
  <2>7. \A i \in 1..Len(p) : stage'[p[i]] = "accepted"
    <3> SUFFICES ASSUME NEW i \in 1..Len(p) PROVE stage'[p[i]] = "accepted" OBVIOUS
    <3>1. i \in 1..Len(q) \/ i = Len(q) + 1 BY <2>3, <2>4
    <3> QED BY <3>1, <1>0, <1>2, <2>4, <2>5
  <2>8. d \in 0..Len(p) /\ Len(inbox') = Len(p) - d /\ \A i \in 1..Len(inbox') : inbox'[i] = p[d + i]
    <3>1. Len(inbox') = Len(inbox) + 1 /\ inbox'[Len(inbox) + 1] = r
          /\ \A i \in 1..Len(inbox) : inbox'[i] = inbox[i]
      BY <1>2, <2>3
    <3>2. ASSUME NEW i \in 1..Len(inbox') PROVE inbox'[i] = p[d + i]
      <4>1. CASE i \in 1..Len(inbox)
        <5>1. inbox[i] = q[d + i] /\ d + i \in 1..Len(q) BY <4>1, <2>2, <2>3 DEF InLine
        <5> QED BY <5>1, <4>1, <3>1, <2>4
      <4>2. CASE i = Len(inbox) + 1
        <5>1. d + i = Len(q) + 1 BY <4>2, <2>3
        <5> QED BY <5>1, <4>2, <3>1, <2>4
      <4> QED BY <4>1, <4>2, <3>1, <2>3
    <3> QED BY <3>1, <3>2, <2>3, <2>4
  <2>9. ASSUME NEW b, ~Applied(b, r), NEW k \in 0..Len(q), Begun(b, q, k) PROVE Begun(b, p, k)
    <3>1. EndsWith(b.seen, p, k)
      <4>1. \A i \in 1..k : i \in 1..Len(q) BY <2>3
      <4> QED BY <4>1, <2>4, <2>9 DEF Begun, EndsWith
    <3>2. ASSUME NEW i \in k + 1 .. Len(p) PROVE ~Applied(b, p[i])
      <4>1. CASE i \in k + 1 .. Len(q)
        <5>1. i \in 1..Len(q) BY <4>1, <2>3
        <5> QED BY <4>1, <5>1, <2>4, <2>9 DEF Begun
      <4>2. CASE i = Len(q) + 1 BY <4>2, <2>4, <2>9
      <4> QED BY <4>1, <4>2, <2>3, <2>4
    <3> QED BY <3>1, <3>2 DEF Begun
  <2>10. Reach(p)' \in Nat /\ Reach(q) <= Reach(p)'
    BY <1>0, <2>3, <2>4, PullIs DEF Reach, Answered, Pull
  <2>11. ~Applied(mem, r) /\ ~Applied(disk, r) BY <1>0 DEF OnceInv, Unheard
  <2>12. Begins(mem, p, Reach(q)) /\ Begins(disk, p, Reach(q))
    <3>1. \A k \in 0..Reach(q) : k \in 0..Len(q) BY <2>3
    <3>2. Begins(mem, p, Reach(q)) BY <3>1, <2>2, <2>9, <2>11 DEF InLine, Begins
    <3>3. Begins(disk, p, Reach(q)) BY <3>1, <2>2, <2>9, <2>11 DEF InLine, Begins
    <3> QED BY <3>2, <3>3
  <2>13. Begins(mem, p, Reach(p)') /\ Begins(disk, p, Reach(p)')
    <3>1. Reach(q) \in Nat BY <2>3
    <3> QED BY <3>1, <2>10, <2>12, BeginsWider
  <2>14. Begins(mem, p, Reach(p))' /\ Begins(disk, p, Reach(p))'
    BY <1>0, <2>13 DEF Begins, Begun, EndsWith, Applied
  <2>15. Answered' => /\ Len(Pull'.items) <= Len(p) /\ Len(Pull'.items) <= SeenMax
                      /\ \A i \in 1..Len(Pull'.items) : Pull'.items[i] = p[i]
    <3> SUFFICES ASSUME Answered
                 PROVE /\ Len(Pull.items) <= Len(p) /\ Len(Pull.items) <= SeenMax
                       /\ \A i \in 1..Len(Pull.items) : Pull.items[i] = p[i]
      BY <1>0 DEF Answered, Pull
    <3>1. Len(Pull.items) <= Len(q) /\ Len(Pull.items) <= SeenMax /\ Len(Pull.items) \in Nat
          /\ \A i \in 1..Len(Pull.items) : Pull.items[i] = q[i]
      BY <2>2, PullIs DEF InLine
    <3>2. \A i \in 1..Len(Pull.items) : i \in 1..Len(q) BY <3>1, <2>3
    <3> QED BY <3>1, <3>2, <2>3, <2>4
  <2>16. InLine(p, d)' BY <2>6, <2>7, <2>8, <2>14, <2>15 DEF InLine
  <2>17. LineInv' BY <2>4, <2>8, <2>16 DEF LineInv
  <2>18. \A x \in Requests : stage'[x] # "accepted" => stage[x] # "accepted" BY <1>0, <1>2
  <2> QED BY <1>0, <2>17, <2>18 DEF OnceInv, Once, Unheard, Applied
<1> QED BY <1>1, <1>2 DEF Decide

\* The head of the inbox is deleted.
LEMMA OnceRemove ==
  ASSUME TypeOK, OnceInv, Room', RemoveAcked
  PROVE  OnceInv'
<1>0. UNCHANGED <<mem, disk, pull, stage>> /\ inbox # <<>> /\ inbox' = Tail(inbox)
  BY DEF RemoveAcked, phoneVars
<1>1. PICK q \in Seq(Requests) : \E d \in 0..Len(q) : InLine(q, d) BY DEF OnceInv, LineInv
<1>2. PICK d \in 0..Len(q) : InLine(q, d) BY <1>1
<1>3. Len(q) \in Nat /\ inbox \in Seq(Requests) /\ Len(inbox) = Len(q) - d /\ Len(inbox) \in Nat
  BY <1>2, ReachType DEF InLine
<1>4. Len(inbox) >= 1 /\ Len(inbox') = Len(inbox) - 1 /\ \A i \in 1..Len(inbox') : inbox'[i] = inbox[i + 1]
  BY <1>0, <1>3
<1>5. d + 1 \in 0..Len(q) /\ Len(inbox') = Len(q) - (d + 1) BY <1>3, <1>4
<1>6. ASSUME NEW i \in 1..Len(inbox') PROVE inbox'[i] = q[(d + 1) + i]
  <2>1. i + 1 \in 1..Len(inbox) /\ d + (i + 1) = (d + 1) + i BY <1>3, <1>4
  <2>2. inbox[i + 1] = q[d + (i + 1)] BY <2>1, <1>2 DEF InLine
  <2> QED BY <2>1, <2>2, <1>4
<1>7. InLine(q, d + 1)'
  BY <1>0, <1>2, <1>5, <1>6, ZenonT(60) DEF InLine, Answered, Pull, Reach, Begins, Begun, EndsWith, Applied
<1>8. LineInv' BY <1>5, <1>7 DEF LineInv
<1> QED BY <1>0, <1>8 DEF OnceInv, Once, Unheard, Applied

\* The answer shows what waits now: that is the line from here on.
LEMMA OnceAnswer ==
  ASSUME TypeOK, OnceInv, Room', MaxInbox + Racers <= SeenMax + 1, NEW p \in Pullers, StartPull(p)
  PROVE  OnceInv'
<1>0. UNCHANGED <<mem, disk, inbox, stage>> /\ ~Answered /\ Answered' /\ Pull'.items = inbox
  <2>1. Alone BY DEF OnceInv
  <2>2. Pull = pull[p] /\ Pull' = [Idle EXCEPT !.at = "answered", !.items = inbox]
    BY <2>1, ThePull DEF StartPull
  <2> QED BY <2>2 DEF StartPull, phoneVars, serverVars, Answered, Idle
<1>1. PICK q \in Seq(Requests) : \E d \in 0..Len(q) : InLine(q, d) BY DEF OnceInv, LineInv
<1>2. PICK d \in 0..Len(q) : InLine(q, d) BY <1>1
<1>3. Len(q) \in Nat /\ inbox \in Seq(Requests) /\ Len(inbox) = Len(q) - d /\ Len(inbox) \in Nat
      /\ Reach(q) = Len(q) /\ \A i \in 1..Len(inbox) : inbox[i] = q[d + i] /\ d + i \in 1..Len(q)
  BY <1>0, <1>2, ReachType DEF InLine, Reach
<1>4. Distinct(inbox)
  <2>1. Distinct(q) BY <1>2 DEF InLine
  <2>2. ASSUME NEW i \in 1..Len(inbox), NEW j \in 1..Len(inbox), inbox[i] = inbox[j] PROVE i = j
    <3>1. q[d + i] = q[d + j] /\ d + i \in 1..Len(q) /\ d + j \in 1..Len(q) BY <2>2, <1>3
    <3>2. d + i = d + j BY <3>1, <2>1 DEF Distinct
    <3> QED BY <3>2, <1>3
  <2> QED BY <2>2 DEF Distinct
<1>5. \A i \in 1..Len(inbox) : stage[inbox[i]] = "accepted" BY <1>2, <1>3 DEF InLine
<1>6. Len(inbox) <= SeenMax
  <2>1. IsFiniteSet(Counting) /\ Len(inbox) + Cardinality(Counting) <= MaxInbox + Racers - 1
    BY DEF OnceInv, Room
  <2>2. Cardinality(Counting) \in Nat BY <2>1, FS_CardinalityType
  <2>3. MaxInbox \in Nat /\ Racers \in Nat /\ SeenMax \in Nat BY OnlineAssumption
  <2> QED BY <2>1, <2>2, <2>3, <1>3
<1>7. ASSUME NEW b, NEW k \in 0..Len(q), Begun(b, q, k), b.seen \in Seq(Requests)
      PROVE  \E j \in 0..Len(inbox) : Begun(b, inbox, j)
  <2> DEFINE m == Len(b.seen)
  <2>0. m \in Nat /\ k <= m BY <1>7 DEF Begun, EndsWith
  <2>1. CASE k <= d
    <3>1. EndsWith(b.seen, inbox, 0) BY <2>0 DEF EndsWith
    <3>2. ASSUME NEW i \in 1..Len(inbox) PROVE ~Applied(b, inbox[i])
      <4>1. inbox[i] = q[d + i] /\ d + i \in k + 1 .. Len(q) BY <1>3, <2>1
      <4> QED BY <4>1, <1>7 DEF Begun
    <3>3. Begun(b, inbox, 0) BY <3>1, <3>2 DEF Begun
    <3> QED BY <3>3, <1>3
  <2>2. CASE k > d
    <3> DEFINE j == k - d
    <3>1. j \in 1..Len(inbox) /\ j <= m BY <2>0, <2>2, <1>3
    <3>2. ASSUME NEW i \in 1..j PROVE b.seen[m - j + i] = inbox[i]
      <4>1. i \in 1..Len(inbox) /\ d + i \in 1..k /\ m - j + i = m - k + (d + i)
        <5>1. i \in 1..Len(inbox) BY <3>1, <1>3
        <5>2. d + i \in 1..k BY <3>1, <1>3, <2>2
        <5> HIDE DEF m
        <5> QED BY <5>1, <5>2, <2>0, <1>3
      <4>2. b.seen[m - k + (d + i)] = q[d + i] BY <4>1, <1>7 DEF Begun, EndsWith
      <4> HIDE DEF j, m
      <4> QED BY <4>1, <4>2, <1>3
    <3>3. EndsWith(b.seen, inbox, j) BY <3>1, <3>2 DEF EndsWith
    <3>4. ASSUME NEW i \in j + 1 .. Len(inbox) PROVE ~Applied(b, inbox[i])
      <4>1. i \in 1..Len(inbox) /\ d + i \in k + 1 .. Len(q) BY <3>1, <1>3
      <4>2. inbox[i] = q[d + i] BY <4>1, <1>3
      <4> QED BY <4>1, <4>2, <1>7 DEF Begun
    <3>5. Begun(b, inbox, j) BY <3>3, <3>4 DEF Begun
    <3> QED BY <3>5, <3>1
  <2> QED BY <2>1, <2>2, <1>3
<1>8. mem.seen \in Seq(Requests) /\ disk.seen \in Seq(Requests) BY DEF TypeOK, Book
<1>9. Begins(mem, inbox, Len(inbox)) /\ Begins(disk, inbox, Len(inbox))
  <2>1. Begins(mem, q, Len(q)) /\ Begins(disk, q, Len(q)) BY <1>2, <1>3 DEF InLine
  <2>2. Begins(mem, inbox, Len(inbox)) BY <2>1, <1>7, <1>8 DEF Begins
  <2>3. Begins(disk, inbox, Len(inbox)) BY <2>1, <1>7, <1>8 DEF Begins
  <2> QED BY <2>2, <2>3
<1>10. (\E x \in Seq(Requests) : \E y \in 0..Len(x) : InLine(x, y)')
  <2>1. Len(inbox') = Len(inbox) - 0 /\ \A i \in 1..Len(inbox') : inbox'[i] = inbox[0 + i]
    BY <1>0, <1>3
  <2>2. \A x \in Seq(Requests) : x = inbox => InLine(x, 0)'
    <3> SUFFICES ASSUME NEW x \in Seq(Requests), x = inbox PROVE InLine(x, 0)' OBVIOUS
    <3>1. Reach(x)' = Len(x) BY <1>0 DEF Reach
    <3>2. Begins(mem, x, Len(x)) /\ Begins(disk, x, Len(x)) BY <1>9
    <3>3. Begins(mem, x, Reach(x))' /\ Begins(disk, x, Reach(x))'
      <4>1. Begins(mem', x, Len(x)) /\ Begins(disk', x, Len(x)) BY <1>0, <3>2
      <4> QED BY <3>1, <4>1 DEF Begins
    <3>4. Distinct(x) /\ \A i \in 1..Len(x) : stage'[x[i]] = "accepted" BY <1>0, <1>4, <1>5
    <3>5. Len(inbox') = Len(x) - 0 /\ \A i \in 1..Len(inbox') : inbox'[i] = x[0 + i] BY <2>1
    <3>6. Len(Pull'.items) <= Len(x) /\ Len(Pull'.items) <= SeenMax
          /\ \A i \in 1..Len(Pull'.items) : Pull'.items[i] = x[i]
      BY <1>0, <1>3, <1>6
    <3> QED BY <3>3, <3>4, <3>5, <3>6 DEF InLine
  <2>3. 0 \in 0..Len(inbox) BY <1>3
  <2> QED BY <2>2, <2>3, <1>3
<1>11. LineInv' BY <1>10 DEF LineInv
<1> QED BY <1>0, <1>11 DEF OnceInv, Once, Unheard, Applied

\* The answer goes into the book.
LEMMA OnceCollect ==
  ASSUME TypeOK, OnceInv, Room', NEW p \in Pullers, Collect(p)
  PROVE  OnceInv'
<1> DEFINE items == Pull.items
           c == ApplyInbox(mem, items)
<1>0. UNCHANGED <<inbox, stage>> /\ Answered /\ ~Answered' /\ Save(c)
  <2>1. Alone BY DEF OnceInv
  <2>2. Pull = pull[p] /\ Pull' \in {Idle, Acking(p)} BY <2>1, ThePull DEF Collect
  <2>3. Pull'.at # "answered"
    <3>1. Idle.at = "idle" /\ Acking(p).at \in {"idle", "acking"} BY DEF Acking, Idle
    <3> QED BY <2>2, <3>1
  <2>4. Answered /\ ~Answered' BY <2>2, <2>3 DEF Answered, Collect
  <2>5. Save(ApplyInbox(mem, pull[p].items)) /\ UNCHANGED <<inbox, stage>> BY DEF Collect, serverVars
  <2> QED BY <2>2, <2>4, <2>5
<1>1. PICK q \in Seq(Requests) : \E d \in 0..Len(q) : InLine(q, d) BY DEF OnceInv, LineInv
<1>2. PICK d \in 0..Len(q) : InLine(q, d) BY <1>1
<1>3. Len(q) \in Nat /\ items \in Seq(Requests) /\ Len(items) \in Nat /\ mem \in Book
  BY <1>2, ReachType, PullIs DEF TypeOK
<1>4. Len(items) <= Len(q) /\ Len(items) <= SeenMax /\ \A i \in 1..Len(items) : items[i] = q[i]
  BY <1>0, <1>2 DEF InLine
<1>5. Distinct(q) /\ (\A i \in 1..Len(q) : stage[q[i]] = "accepted")
      /\ Begins(mem, q, Len(items)) /\ Begins(disk, q, Len(items))
  BY <1>0, <1>2 DEF InLine, Reach
<1> HIDE DEF items, c
<1>6. \A i \in 1..Len(items) : i \in 1..Len(q) BY <1>3, <1>4
<1>7. Distinct(items) BY <1>4, <1>5, <1>6 DEF Distinct
<1>8. PICK k \in 0..Len(items) : Begun(mem, q, k) BY <1>5 DEF Begins
<1>9. Begun(mem, items, k)
  <2>1. EndsWith(mem.seen, items, k)
    <3>1. \A i \in 1..k : i \in 1..Len(items) BY <1>3
    <3> QED BY <1>4, <1>8, <3>1 DEF Begun, EndsWith
  <2>2. \A i \in k + 1 .. Len(items) : i \in k + 1 .. Len(q) /\ i \in 1..Len(items) BY <1>3, <1>4
  <2> QED BY <1>4, <1>8, <2>1, <2>2 DEF Begun
<1>10. Once(mem) /\ Unheard(mem) /\ Once(disk) /\ Unheard(disk) BY DEF OnceInv
<1>11. /\ c \in Book /\ Once(c) /\ EndsWith(c.seen, items, Len(items))
       /\ \A x \in Requests : (\A i \in 1..Len(items) : x # items[i]) => (Applied(c, x) => Applied(mem, x))
  BY <1>3, <1>4, <1>7, <1>9, <1>10, InboxOnce DEF c
<1>12. mem' = c /\ disk' \in {c, disk} BY <1>0, <1>11, SaveKeepsTypes
<1>13. Begun(c, q, Len(items))
  <2>1. EndsWith(c.seen, q, Len(items)) BY <1>4, <1>11 DEF EndsWith
  <2>2. ASSUME NEW i \in Len(items) + 1 .. Len(q) PROVE ~Applied(c, q[i])
    <3>1. i \in 1..Len(q) /\ i \in k + 1 .. Len(q) /\ q[i] \in Requests BY <1>3, <1>4
    <3>2. ASSUME NEW j \in 1..Len(items) PROVE q[i] # items[j]
      <4>1. items[j] = q[j] /\ j \in 1..Len(q) /\ i # j BY <1>3, <1>4, <1>6
      <4> QED BY <4>1, <3>1, <1>5 DEF Distinct
    <3>3. ~Applied(mem, q[i]) BY <3>1, <1>8 DEF Begun
    <3> QED BY <3>1, <3>2, <3>3, <1>11
  <2> QED BY <2>1, <2>2 DEF Begun
<1>14. Unheard(c)
  <2> SUFFICES ASSUME NEW x \in Requests, stage[x] # "accepted" PROVE ~Applied(c, x) BY DEF Unheard
  <2>1. \A i \in 1..Len(items) : x # items[i] BY <1>4, <1>5, <1>6
  <2>2. ~Applied(mem, x) BY <1>10 DEF Unheard
  <2> QED BY <2>1, <2>2, <1>11
<1>15. Begins(c, q, Len(q)) /\ Begins(disk, q, Len(q))
  <2>1. Len(items) \in 0..Len(q) BY <1>3, <1>4
  <2>2. Begins(c, q, Len(q)) BY <2>1, <1>13 DEF Begins
  <2>3. Begins(disk, q, Len(q)) BY <1>3, <1>4, <1>5, BeginsWider
  <2> QED BY <2>2, <2>3
<1>16. Begins(mem', q, Len(q)) /\ Begins(disk', q, Len(q)) BY <1>12, <1>15
<1>17. InLine(q, d)'
  <2>1. Reach(q)' = Len(q) BY <1>0 DEF Reach
  <2>2. Begins(mem, q, Reach(q))' /\ Begins(disk, q, Reach(q))' BY <1>16, <2>1 DEF Begins
  <2> QED BY <1>0, <1>2, <2>2 DEF InLine
<1>18. LineInv' BY <1>17 DEF LineInv
<1>19. Once(mem') /\ Once(disk') BY <1>10, <1>11, <1>12
<1>20. Unheard(mem') /\ Unheard(disk') BY <1>10, <1>12, <1>14
<1>21. Once(mem)' /\ Once(disk)' BY <1>19 DEF Once
<1>22. Unheard(mem)' /\ Unheard(disk)' BY <1>0, <1>20 DEF Unheard, Applied
<1> QED BY <1>18, <1>21, <1>22 DEF OnceInv

\* The phone starts from what storage has.
LEMMA OnceRestart ==
  ASSUME TypeOK, OnceInv, Room', Restart
  PROVE  OnceInv'
<1>0. UNCHANGED <<disk, inbox, stage>> /\ mem' = disk /\ ~Answered'
  <2>1. PICK p \in Pullers : Alone BY DEF OnceInv, Alone
  <2>2. Pull = pull[p] /\ (CHOOSE x \in Pullers : TRUE) = p BY <2>1 DEF Pull, Alone
  <2>3. Pull' = Idle BY <2>1, <2>2 DEF Restart, Pull
  <2> QED BY <2>3 DEF Restart, Answered, Idle
<1>1. PICK q \in Seq(Requests) : \E d \in 0..Len(q) : InLine(q, d) BY DEF OnceInv, LineInv
<1>2. PICK d \in 0..Len(q) : InLine(q, d) BY <1>1
<1>3. Reach(q) \in Nat /\ Reach(q) <= Len(q) /\ Len(q) \in Nat BY <1>2, ReachType
<1>4. Begins(disk, q, Len(q)) BY <1>2, <1>3, BeginsWider DEF InLine
<1>5. Reach(q)' = Len(q) BY <1>0 DEF Reach
<1>6. Begins(mem, q, Reach(q))' /\ Begins(disk, q, Reach(q))'
  BY <1>0, <1>4, <1>5 DEF Begins, Begun, EndsWith, Applied
<1>7. InLine(q, d)' BY <1>0, <1>2, <1>6 DEF InLine
<1>8. LineInv' BY <1>7 DEF LineInv
<1> QED BY <1>0, <1>8 DEF OnceInv, Once, Unheard, Applied

LEMMA OnceStep ==
  ASSUME TypeOK, OnceInv, MaxInbox + Racers <= SeenMax + 1, [Next]_vars
  PROVE  OnceInv'
<1>0. Room' BY RoomStep DEF OnceInv
<1>1. mem \in Book /\ mem.rows \in [Requests \cup Walkins -> Row] BY DEF TypeOK, Book
<1>2. ASSUME NEW r \in Requests, Ask(r) PROVE OnceInv'
  <2>1. \A x \in Requests : stage'[x] = "accepted" <=> stage[x] = "accepted"
    BY <1>2 DEF Ask, TypeOK
  <2> QED BY <1>0, <1>2, <2>1, OnceElsewhere DEF Ask, phoneVars, Answered, Pull
<1>3. ASSUME NEW i \in DOMAIN posts, Published(i) PROVE OnceInv'
  <2> DEFINE c == [mem EXCEPT !.hash = posts[i].busy]
  <2>1. c \in Book /\ c.rows = mem.rows /\ c.seen = mem.seen BY <1>1, PostsType DEF Book
  <2>2. Save(c) /\ UNCHANGED <<stage, inbox, pull>> BY <1>3 DEF Published, serverVars
  <2> HIDE DEF c
  <2> QED BY <1>0, <2>1, <2>2, AlikeSaved DEF Alike
<1>4. ASSUME NEW i \in DOMAIN posts, PublishFails(i) PROVE OnceInv'
  <2>1. Save(mem) /\ UNCHANGED <<stage, inbox, pull>> BY <1>4 DEF PublishFails, serverVars
  <2> QED BY <1>0, <1>1, <2>1, AlikeSaved DEF Alike
<1>5. ASSUME NEW w \in Walkins, TakeByHand(w) PROVE OnceInv'
  <2> DEFINE c == [mem EXCEPT !.rows[w] = [n |-> 1, live |-> TRUE, flagged |-> FALSE]]
  <2>1. c \in Book /\ c.seen = mem.seen BY <1>1 DEF Book, Row
  <2>2. \A r \in Requests : c.rows[r] = mem.rows[r] BY <1>1, OnlineAssumption DEF Book
  <2>3. Save(c) /\ UNCHANGED <<stage, inbox, pull>> BY <1>5 DEF TakeByHand, serverVars
  <2> HIDE DEF c
  <2> QED BY <1>0, <2>1, <2>2, <2>3, AlikeSaved DEF Alike
<1>6. ASSUME NEW k \in Times, Cancel(k) PROVE OnceInv'
  <2> DEFINE c == [mem EXCEPT !.rows[k].live = FALSE]
  <2>0. k \in Requests \cup Walkins BY OnlineAssumption DEF Times
  <2>1. c \in Book /\ c.seen = mem.seen BY <1>1, <2>0 DEF Book, Row
  <2>2. \A r \in Requests : c.rows[r].n = mem.rows[r].n BY <1>1, <2>0 DEF Book, Row
  <2>3. Save(c) /\ UNCHANGED <<stage, inbox, pull>> BY <1>6 DEF Cancel, serverVars
  <2> HIDE DEF c
  <2> QED BY <1>0, <2>1, <2>2, <2>3, AlikeSaved DEF Alike
<1>7. ASSUME AcksLost \/ Republish \/ (\E p \in Pullers : PullFails(p) \/ PullEnds(p))
             \/ (\E i \in DOMAIN posts : Land(i)) \/ UNCHANGED vars
      PROVE  OnceInv'
  <2>1. UNCHANGED <<mem, disk, inbox, stage>>
    BY <1>7 DEF AcksLost, PullFails, PullEnds, Republish, Land, vars, phoneVars, serverVars
  <2>2. pull' = pull \/ \E p \in Pullers : pull' = [pull EXCEPT ![p] = Idle]
    BY <1>7 DEF AcksLost, PullFails, PullEnds, Republish, Land, vars
  <2>3. Answered' => Answered /\ Pull'.items = Pull.items
    <3>1. CASE pull' = pull BY <3>1 DEF Answered, Pull
    <3>2. ASSUME NEW p \in Pullers, pull' = [pull EXCEPT ![p] = Idle] PROVE ~Answered'
      <4>1. Alone BY DEF OnceInv
      <4>2. Pull' = Idle BY <4>1, <3>2, ThePull
      <4> QED BY <4>2 DEF Answered, Idle
    <3> QED BY <2>2, <3>1, <3>2
  <2> QED BY <1>0, <2>1, <2>3, OnceElsewhere
<1> QED BY <1>0, <1>2, <1>3, <1>4, <1>5, <1>6, <1>7, OnceDecide, OnceRemove, OnceAnswer, OnceCollect,
           OnceRestart DEF Next

\* "each one is applied exactly once whatever the network does" (lib/biz/online.ts:3): however
\* many requests come over the years, whatever answers and acknowledgements are lost, whenever
\* the app is closed and whatever storage keeps, no request gets a second row, provided that
\* one call collects at a time, as the app's own do (components/biz/BizSync.tsx:79), and that
\* what can wait at a time, one item more for each submit but one between its count and its
\* push, is no more than what a book remembers.  Both limits are 500 in the code: there it
\* holds of one submit at a time at a full inbox, while the owner's buttons do not collect.
THEOREM AppliedNeverTwice ==
  ASSUME NEW p, Pullers = {p}, MaxInbox + Racers <= SeenMax + 1
  PROVE  Spec => []AppliedOnce
<1>0. Alone BY DEF Alone
<1>1. Init => OnceInv
  <2> SUFFICES ASSUME Init PROVE OnceInv OBVIOUS
  <2>1. mem.seen = <<>> /\ disk = mem /\ \A r \in Requests : mem.rows[r].n = 0 BY DEF Init, Absent
  <2>2. ToSet(mem.seen) = {} BY <2>1 DEF ToSet
  <2>3. Unheard(mem) /\ Unheard(disk) /\ Once(mem) /\ Once(disk)
    BY <2>1, <2>2 DEF Unheard, Applied, Once
  <2>4. Counting = {} /\ inbox = <<>> /\ ~Answered
    <3>1. Pull = Idle BY <1>0, ThePull DEF Init
    <3> QED BY <3>1 DEF Init, Counting, Answered, Idle
  <2>5. Room
    <3>1. IsFiniteSet({}) /\ Cardinality({}) = 0 BY FS_EmptySet
    <3>2. MaxInbox \in Nat \ {0} /\ Racers \in Nat \ {0} BY OnlineAssumption
    <3> QED BY <2>4, <3>1, <3>2 DEF Room
  <2>6. \A q \in Seq(Requests) : q = <<>> => InLine(q, 0)
    <3> SUFFICES ASSUME NEW q \in Seq(Requests), q = <<>> PROVE InLine(q, 0) OBVIOUS
    <3>1. Len(q) = 0 /\ Len(inbox) = 0 BY <2>4
    <3>2. Begun(mem, q, 0) BY <2>1, <3>1 DEF Begun, EndsWith
    <3>3. Begins(mem, q, Reach(q)) /\ Begins(disk, q, Reach(q)) BY <2>1, <2>4, <3>1, <3>2 DEF Begins, Reach
    <3> QED BY <2>4, <3>1, <3>3 DEF InLine, Distinct
  <2>7. <<>> \in Seq(Requests) /\ 0 \in 0..Len(<<>>) OBVIOUS
  <2>8. LineInv BY <2>6, <2>7 DEF LineInv
  <2> QED BY <1>0, <2>3, <2>5, <2>8 DEF OnceInv
<1>2. TypeOK /\ OnceInv /\ [Next]_vars => OnceInv' BY OnceStep
<1>3. OnceInv => AppliedOnce BY DEF OnceInv, Once, AppliedOnce
<1> QED BY <1>1, <1>2, <1>3, OnlineTypeCorrect, PTL DEF Spec

---------------------------------------------------------------------------
(* Nothing is applied twice while nothing is forgotten, however many calls collect *)

\* Each request the book remembers once, and whatever has a row it remembers.
Remembered(b) ==
  /\ Distinct(b.seen)
  /\ \A r \in Requests : b.rows[r].n <= 1 /\ (b.rows[r].n > 0 => r \in ToSet(b.seen))

LEMMA DistinctIsShort ==
  ASSUME NEW s \in Seq(Requests), Distinct(s), IsFiniteSet(Requests)
  PROVE  Len(s) <= Cardinality(Requests)
<1>1. Len(s) \in Nat /\ DOMAIN s = 1..Len(s) /\ s \in [1..Len(s) -> Requests] OBVIOUS
<1>2. s \in Injection(1..Len(s), Requests) BY <1>1 DEF Distinct, Injection, IsInjective
<1>3. Cardinality(1..Len(s)) <= Cardinality(Requests) BY <1>2, FS_Injection
<1>4. Cardinality(1..Len(s)) = Len(s)
  <2>1. Cardinality(1..Len(s)) = IF 1 > Len(s) THEN 0 ELSE Len(s) - 1 + 1 BY <1>1, FS_Interval
  <2> QED BY <1>1, <2>1
<1> QED BY <1>3, <1>4

LEMMA ItemRemembered ==
  ASSUME NEW b \in Book, NEW r \in Requests, Remembered(b)
  PROVE  Remembered(ApplyItem(b, r))
<1> DEFINE c == ApplyItem(b, r)
<1>1. CASE r \in ToSet(b.seen) BY <1>1, ItemEffect
<1>2. CASE r \notin ToSet(b.seen)
  <2>1. b.rows[r].n \in Nat /\ b.seen \in Seq(Requests) BY DEF Book, Row
  <2>2. ~Applied(b, r) /\ Once(b) BY <1>2, <2>1 DEF Remembered, Applied, Once
  <2>3. /\ Once(c) /\ c.seen = Append(b.seen, r)
        /\ \A x \in Requests \ {r} : Applied(c, x) => Applied(b, x)
    BY <2>2, NewItem
  <2>4. ToSet(c.seen) = ToSet(b.seen) \cup {r} BY ItemEffect
  <2> HIDE DEF c
  <2>5. \A x \in Requests : c.rows[x].n > 0 => x \in ToSet(c.seen)
    BY <2>3, <2>4 DEF Remembered, Applied
  <2>6. Distinct(c.seen)
    <3> DEFINE L == Len(b.seen)
    <3>1. /\ L \in Nat /\ Len(c.seen) = L + 1 /\ c.seen[L + 1] = r
          /\ \A i \in 1..L : c.seen[i] = b.seen[i] /\ b.seen[i] # r
      <4>1. \A i \in 1..L : b.seen[i] \in ToSet(b.seen) BY <2>1, SeenSet
      <4> QED BY <1>2, <2>1, <2>3, <4>1
    <3> HIDE DEF L
    <3> SUFFICES ASSUME NEW i \in 1..L + 1, NEW j \in 1..L + 1, c.seen[i] = c.seen[j] PROVE i = j
      BY <3>1 DEF Distinct
    <3>2. i \in 1..L \/ i = L + 1 BY <3>1
    <3>3. j \in 1..L \/ j = L + 1 BY <3>1
    <3>4. Distinct(b.seen) BY DEF Remembered
    <3> QED BY <3>1, <3>2, <3>3, <3>4 DEF Distinct, L
  <2> QED BY <2>3, <2>5, <2>6 DEF Remembered, Once, c
<1> QED BY <1>1, <1>2

LEMMA InboxRemembered ==
  ASSUME NEW b \in Book, NEW items \in Seq(Requests), Remembered(b),
         IsFiniteSet(Requests), Cardinality(Requests) <= SeenMax
  PROVE  Remembered(ApplyInbox(b, items))
<1> DEFINE L == Len(items)
<1>1. L \in Nat OBVIOUS
<1>0. PICK g : ItemByItem(g, b, items) BY ApplyInboxSteps
<1>2. /\ g[0] = b
      /\ \A n \in 0..L : n < L => g[n + 1] = ApplyItem(g[n], items[n + 1])
      /\ ApplyInbox(b, items) = [g[L] EXCEPT !.seen = LastSeen(@)]
  BY <1>0 DEF ItemByItem
<1> DEFINE T == {n \in 0..L : g[n] \in Book /\ Remembered(g[n])}
<1>3. 0 \in T BY <1>1, <1>2
<1>4. ASSUME NEW n \in 0..L, n \in T, n < L PROVE n + 1 \in T
  <2>1. n + 1 \in 0..L /\ items[n + 1] \in Requests BY <1>1, <1>4
  <2>2. g[n] \in Book /\ Remembered(g[n]) /\ g[n + 1] = ApplyItem(g[n], items[n + 1]) BY <1>2, <1>4
  <2>3. g[n + 1] \in Book /\ Remembered(g[n + 1]) BY <2>1, <2>2, ItemEffect, ItemRemembered
  <2> QED BY <2>1, <2>3
<1>5. L \in T
  <2> HIDE DEF T, L
  <2>1. \A n \in 0..L : n \in T BY <1>1, <1>3, <1>4, Upto
  <2> QED BY <2>1, <1>1
<1>6. g[L] \in Book /\ Remembered(g[L]) BY <1>5
<1> DEFINE s == g[L].seen
           t == LastSeen(s)
           c == ApplyInbox(b, items)
<1>7. c.rows = g[L].rows /\ c.seen = t BY <1>2, <1>6 DEF Book
<1>8. s \in Seq(Requests) /\ Distinct(s) /\ Len(s) \in Nat BY <1>6 DEF Book, Remembered
<1> HIDE DEF T, L, c, s
<1>9. Len(s) <= SeenMax /\ SeenMax \in Nat \ {0}
  <2>1. Cardinality(Requests) \in Nat BY FS_CardinalityType
  <2>2. Len(s) <= Cardinality(Requests) BY <1>8, DistinctIsShort
  <2> QED BY <1>8, <2>1, <2>2, OnlineAssumption
<1>10. /\ t \in Seq(Requests) /\ Len(t) = IF Len(s) > SeenMax THEN SeenMax ELSE Len(s)
       /\ \A i \in 1..Len(t) : t[i] = s[Len(s) - Len(t) + i]
  BY <1>8, <1>9, LastSeenIs
<1> HIDE DEF t
<1>11. Len(t) = Len(s) /\ \A i \in 1..Len(t) : t[i] = s[i]
  <2>1. Len(t) = Len(s) BY <1>8, <1>9, <1>10
  <2>2. \A i \in 1..Len(t) : Len(s) - Len(t) + i = i BY <1>8, <2>1
  <2> QED BY <1>10, <2>1, <2>2
<1>12. Distinct(t) BY <1>8, <1>11 DEF Distinct
<1>13. ToSet(s) \subseteq ToSet(t)
  <2>1. DOMAIN s = 1..Len(s) /\ DOMAIN t = 1..Len(t) BY <1>8, <1>10
  <2> QED BY <2>1, <1>11 DEF ToSet
<1>14. Remembered(c) BY <1>6, <1>7, <1>12, <1>13 DEF Remembered, s
<1> QED BY <1>14 DEF c

\* A save of a book that has applied as much.
LEMMA SaveRemembered ==
  ASSUME TypeOK, Remembered(disk), NEW b \in Book, Remembered(b), Save(b)
  PROVE  Remembered(mem') /\ Remembered(disk')
<1>1. mem' = b /\ disk' \in {b, disk} BY SaveKeepsTypes
<1>2. Remembered(mem') BY <1>1
<1>3. CASE disk' = b BY <1>2, <1>3
<1>4. CASE disk' = disk BY <1>2, <1>4
<1> QED BY <1>1, <1>2, <1>3, <1>4

LEMMA AlikeRemembered ==
  ASSUME NEW b, NEW c, Alike(b, c), Remembered(b)
  PROVE  Remembered(c)
BY DEF Alike, Remembered

LEMMA RememberStep ==
  ASSUME IsFiniteSet(Requests), Cardinality(Requests) <= SeenMax,
         TypeOK, Remembered(mem), Remembered(disk), [Next]_vars
  PROVE  Remembered(mem') /\ Remembered(disk')
<1> DEFINE Goal == Remembered(mem') /\ Remembered(disk')
<1>0. mem \in Book /\ mem.rows \in [Requests \cup Walkins -> Row] BY DEF TypeOK, Book
<1>1. CASE UNCHANGED <<mem, disk>> BY <1>1
<1>2. ASSUME NEW p \in Pullers, Collect(p) PROVE Goal
  <2>1. pull[p].items \in Seq(Requests) BY DEF TypeOK
  <2>2. Save(ApplyInbox(mem, pull[p].items)) BY <1>2 DEF Collect
  <2>3. ApplyInbox(mem, pull[p].items) \in Book BY <1>0, <2>1, ApplyInboxType, OnlineAssumption
  <2>4. Remembered(ApplyInbox(mem, pull[p].items)) BY <1>0, <2>1, InboxRemembered
  <2> QED BY <2>2, <2>3, <2>4, SaveRemembered
<1>3. ASSUME NEW i \in DOMAIN posts, Published(i) PROVE Goal
  <2> DEFINE c == [mem EXCEPT !.hash = posts[i].busy]
  <2>1. c \in Book /\ c.rows = mem.rows /\ c.seen = mem.seen BY <1>0, PostsType DEF Book
  <2>2. Save(c) BY <1>3 DEF Published
  <2> HIDE DEF c
  <2> QED BY <2>1, <2>2, AlikeRemembered, SaveRemembered DEF Alike
<1>4. ASSUME NEW i \in DOMAIN posts, PublishFails(i) PROVE Goal
  BY <1>0, <1>4, SaveRemembered DEF PublishFails
<1>5. ASSUME NEW w \in Walkins, TakeByHand(w) PROVE Goal
  <2> DEFINE c == [mem EXCEPT !.rows[w] = [n |-> 1, live |-> TRUE, flagged |-> FALSE]]
  <2>1. c \in Book /\ c.seen = mem.seen BY <1>0 DEF Book, Row
  <2>2. \A r \in Requests : c.rows[r] = mem.rows[r] BY <1>0, OnlineAssumption DEF Book
  <2>3. Save(c) BY <1>5 DEF TakeByHand
  <2> HIDE DEF c
  <2>4. Remembered(c) BY <2>1, <2>2, AlikeRemembered DEF Alike
  <2> QED BY <2>1, <2>3, <2>4, SaveRemembered
<1>6. ASSUME NEW k \in Times, Cancel(k) PROVE Goal
  <2> DEFINE c == [mem EXCEPT !.rows[k].live = FALSE]
  <2>0. k \in Requests \cup Walkins BY OnlineAssumption DEF Times
  <2>1. c \in Book /\ c.seen = mem.seen BY <1>0, <2>0 DEF Book, Row
  <2>2. \A r \in Requests : c.rows[r].n = mem.rows[r].n BY <1>0, <2>0 DEF Book, Row
  <2>3. Save(c) BY <1>6 DEF Cancel
  <2> HIDE DEF c
  <2>4. Remembered(c) BY <2>1, <2>2, AlikeRemembered DEF Alike
  <2> QED BY <2>1, <2>3, <2>4, SaveRemembered
<1>7. CASE Restart BY <1>7 DEF Restart
<1>8. QED
  <2>1. CASE UNCHANGED vars BY <2>1, <1>1 DEF vars, phoneVars
  <2>2. CASE Next
    <3>1. ASSUME NEW r \in Requests, Ask(r) \/ Decide(r) PROVE UNCHANGED <<mem, disk>>
      BY <3>1 DEF Ask, Decide, phoneVars
    <3>2. ASSUME RemoveAcked \/ AcksLost \/ Republish
                 \/ \E p \in Pullers : StartPull(p) \/ PullFails(p) \/ PullEnds(p)
          PROVE  UNCHANGED <<mem, disk>>
      BY <3>2 DEF RemoveAcked, AcksLost, StartPull, PullFails, PullEnds, Republish, phoneVars
    <3>3. ASSUME NEW i \in DOMAIN posts, Land(i) PROVE UNCHANGED <<mem, disk>>
      BY <3>3 DEF Land, phoneVars
    <3> QED BY <2>2, <3>1, <3>2, <3>3, <1>1, <1>2, <1>3, <1>4, <1>5, <1>6, <1>7 DEF Next
  <2> QED BY <2>1, <2>2

\* "each one is applied exactly once whatever the network does" (lib/biz/online.ts:3): while a
\* book remembers every request there is, no request gets a second row, however many
\* collecting calls are under way, the owner's button included, however old their answers
\* are when they go into the book, and whatever is lost, closed or not stored meanwhile.
THEOREM RememberedNeverTwice ==
  ASSUME IsFiniteSet(Requests), Cardinality(Requests) <= SeenMax
  PROVE  Spec => []AppliedOnce
<1> DEFINE M == Remembered(mem) /\ Remembered(disk)
<1>1. Init => M
  <2> SUFFICES ASSUME Init PROVE M OBVIOUS
  <2>1. mem.seen = <<>> /\ disk = mem /\ \A r \in Requests : mem.rows[r].n = 0 BY DEF Init, Absent
  <2>2. Distinct(mem.seen) BY <2>1 DEF Distinct
  <2> QED BY <2>1, <2>2 DEF Remembered
<1>2. TypeOK /\ M /\ [Next]_vars => M' BY RememberStep
<1>3. M => AppliedOnce BY DEF Remembered, AppliedOnce
<1> HIDE DEF M
<1> QED BY <1>1, <1>2, <1>3, OnlineTypeCorrect, PTL DEF Spec
=============================================================================
