-------------------------- MODULE SmsInboxProofs --------------------------
(* What SmsInbox keeps, for every number of messages, readers and kills:     *)
(* a message is in the book once, one that was asked about is not lost, a    *)
(* loan takes its message, and the mark leaves no gap - the last as long as  *)
(* the first read is no chosen range.                                        *)
EXTENDS SmsInbox, FiniteSetTheorems, WellFoundedInduction, TLAPS

---------------------------------------------------------------------------
(* The largest of a bounded set *)

LEMMA LessIsWellFounded == IsWellFoundedOn({ss \in Nat \X Nat : ss[1] < ss[2]}, Nat)
BY NatLessThanWellFounded DEF OpToRel

LEMMA Least == ASSUME NEW T \in SUBSET Nat, T # {} PROVE \E x \in T : \A y \in T : x <= y
<1> DEFINE R == {ss \in Nat \X Nat : ss[1] < ss[2]}
<1>1. \E x \in T : \A y \in T : ~(<<y, x>> \in R) BY LessIsWellFounded, WFMin
<1>2. ASSUME NEW x \in Nat, NEW y \in Nat, y < x PROVE <<y, x>> \in R
  <2>1. <<y, x>> \in Nat \X Nat OBVIOUS
  <2>2. <<y, x>>[1] < <<y, x>>[2] BY <1>2
  <2> QED BY <2>1, <2>2
<1>3. \A x, y \in Nat : y < x \/ x <= y OBVIOUS
<1> HIDE DEF R
<1> QED BY <1>1, <1>2, <1>3

LEMMA LargestIn == ASSUME NEW N \in Nat, NEW S \in SUBSET (0..N), S # {} PROVE Largest(S) \in S
<1> DEFINE T == {y \in Nat : N - y \in S}
<1>1. T # {}
  <2>1. PICK x \in S : TRUE OBVIOUS
  <2>2. N - x \in Nat /\ N - (N - x) = x BY <2>1
  <2>3. N - x \in T BY <2>2, <2>1
  <2> QED BY <2>3
<1>2. PICK y \in T : \A z \in T : y <= z BY <1>1, Least
<1>3. \A x \in S : x <= N - y
  <2> TAKE x \in S
  <2>1. N - x \in T OBVIOUS
  <2> QED BY <2>1, <1>2
<1> QED BY <1>2, <1>3 DEF Largest

---------------------------------------------------------------------------
(* The book: what each operation keeps *)

\* MoneyOnce, said without counting
Once(b) ==
  /\ \A m \in Msgs : /\ b.booked[m] <= 1
                     /\ b.booked[m] = 1 => \A q \in b.queue \cup b.dismissed : q[1] # m
  /\ \A p, q \in b.queue : p[1] = q[1] => p = q
  /\ \A p, q \in b.dismissed : p[1] = q[1] => p = q
  /\ \A p \in b.queue, q \in b.dismissed : p[1] # q[1]

\* rows of a read: one for each message
OneEach(rows) == rows \subseteq Msgs \X Copies /\ \A p, q \in rows : p[1] = q[1] => p = q

\* a step of the book that a reader makes: nothing leaves the book, and a loan
\* that goes on waiting gets no row
Holds(b, m) == Seen(b, m) \/ Ignored(b, m)
Grows(b, c) ==
  /\ \A m \in Msgs : Holds(b, m) => Holds(c, m)
  /\ c.loans \subseteq b.loans
  /\ \A m \in c.loans : Rows(c, m) # {} => Rows(b, m) # {}

LEMMA GrowsOn == ASSUME NEW b, NEW c, NEW d, Grows(b, c), Grows(c, d) PROVE Grows(b, d)
BY DEF Grows

LEMMA HoldsIs ==
  ASSUME NEW b \in Books, NEW m \in Msgs
  PROVE  /\ Rows(b, m) # {} <=> \E q \in b.queue : q[1] = m
         /\ Seen(b, m) <=> (\E q \in b.queue : q[1] = m) \/ b.booked[m] > 0
         /\ Ignored(b, m) <=> \E q \in b.dismissed : q[1] = m
         /\ Holds(b, m) <=> (\E q \in b.queue \cup b.dismissed : q[1] = m) \/ b.booked[m] > 0
BY DEF Rows, Seen, Ignored, Holds

LEMMA BookStep ==
  ASSUME NEW b \in Books, Once(b), NEW S \in SUBSET b.queue
  PROVE  /\ Book(b, S) \in Books /\ Once(Book(b, S))
         /\ Grows(b, Book(b, S))
<1> DEFINE c == Book(b, S)
           n(m) == Cardinality(Rows(b, m) \cap S)
<1>1. \A m \in Msgs : /\ (\E q \in S : q[1] = m) => n(m) = 1 /\ b.booked[m] = 0
                      /\ ~(\E q \in S : q[1] = m) => n(m) = 0
  <2> TAKE m \in Msgs
  <2>1. ASSUME NEW q \in S, q[1] = m PROVE n(m) = 1 /\ b.booked[m] = 0
    <3>1. Rows(b, m) \cap S = {q} BY <2>1 DEF Rows, Once
    <3>2. b.booked[m] # 1 BY <2>1 DEF Once
    <3>3. b.booked[m] \in Nat /\ b.booked[m] <= 1 BY DEF Once, Books
    <3>4. b.booked[m] = 0 BY <3>2, <3>3
    <3>5. Cardinality({q}) = 1 BY FS_Singleton
    <3> QED BY <3>1, <3>4, <3>5
  <2>2. ASSUME ~(\E q \in S : q[1] = m) PROVE n(m) = 0
    <3>1. Rows(b, m) \cap S = {} BY <2>2 DEF Rows
    <3> QED BY <3>1, FS_EmptySet
  <2> QED BY <2>1, <2>2
<1> HIDE DEF n
<1>2. /\ c.queue = b.queue \ S /\ c.dismissed = b.dismissed /\ c.loans = b.loans
      /\ c.booked = [m \in Msgs |-> b.booked[m] + n(m)]
  BY DEF Book, Books, n
<1>c. c \in [queue : {c.queue}, dismissed : {c.dismissed}, loans : {c.loans}, booked : {c.booked}]
  BY DEF Book, Books
<1> HIDE DEF c
<1>3. \A m \in Msgs : b.booked[m] \in Nat /\ b.booked[m] <= 1 BY DEF Books, Once
<1>4. \A m \in Msgs : n(m) \in {0, 1} BY <1>1
<1>5. \A m \in Msgs : c.booked[m] = b.booked[m] + n(m) BY <1>2
<1>6. c \in Books
  <2>1. \A m \in Msgs : b.booked[m] + n(m) \in Nat BY <1>3, <1>4
  <2>2. c.booked \in [Msgs -> Nat] BY <1>2, <2>1
  <2>3. c.queue \in SUBSET (Msgs \X Copies) /\ c.dismissed \in SUBSET (Msgs \X Copies) /\ c.loans \in SUBSET Linked
    BY <1>2 DEF Books
  <2> QED BY <1>c, <2>2, <2>3 DEF Books
<1>7. Once(c)
  <2>1. ASSUME NEW m \in Msgs
        PROVE  c.booked[m] <= 1 /\ (c.booked[m] = 1 => \A q \in c.queue \cup c.dismissed : q[1] # m)
    <3>1. CASE \E q \in S : q[1] = m BY <3>1, <1>1, <1>2, <1>5 DEF Once
    <3>2. CASE ~\E q \in S : q[1] = m
      <4>1. c.booked[m] = b.booked[m] BY <3>2, <1>1, <1>3, <1>5
      <4> QED BY <4>1, <1>2 DEF Once
    <3> QED BY <3>1, <3>2
  <2> QED BY <2>1, <1>2 DEF Once
<1>8. ASSUME NEW m \in Msgs, Holds(b, m) PROVE Holds(c, m)
  <2>1. CASE \E q \in S : q[1] = m
    <3>1. c.booked[m] > 0 BY <2>1, <1>1, <1>5
    <3> QED BY <3>1 DEF Holds, Seen
  <2>2. CASE ~\E q \in S : q[1] = m
    <3>1. c.booked[m] = b.booked[m] BY <2>2, <1>1, <1>3, <1>5
    <3> QED BY <3>1, <2>2, <1>2, <1>6, <1>8, HoldsIs
  <2> QED BY <2>1, <2>2
<1>9. Grows(b, c) BY <1>2, <1>8 DEF Grows, Rows
<1> QED BY <1>6, <1>7, <1>9 DEF c

LEMMA QueueStep ==
  ASSUME NEW b \in Books, Once(b), NEW rows, OneEach(rows)
  PROVE  /\ QueueSms(b, rows) \in Books /\ Once(QueueSms(b, rows))
         /\ Grows(b, QueueSms(b, rows))
         /\ \A q \in rows : Holds(QueueSms(b, rows), q[1])
<1> DEFINE c == QueueSms(b, rows)
           fresh == {q \in rows : ~Seen(b, q[1]) /\ ~Ignored(b, q[1])}
           took == {q \in fresh : q[1] \in b.loans}
           whose == {q[1] : q \in took}
<1>1. /\ c.queue = b.queue \cup (fresh \ took) /\ c.dismissed = b.dismissed
      /\ c.loans = b.loans \ whose
      /\ c.booked = [m \in Msgs |-> b.booked[m] + IF m \in whose THEN 1 ELSE 0]
  BY DEF QueueSms, Attached, Books
<1>c. c \in [queue : {c.queue}, dismissed : {c.dismissed}, loans : {c.loans}, booked : {c.booked}]
  BY DEF QueueSms, Books
<1> HIDE DEF c
<1>2. \A q \in rows : q \in Msgs \X Copies /\ q[1] \in Msgs BY DEF OneEach
<1>3. \A q \in fresh : /\ q \in rows /\ b.booked[q[1]] = 0
                       /\ \A p \in b.queue \cup b.dismissed : p[1] # q[1]
  <2> TAKE q \in fresh
  <2>1. q \in rows /\ q[1] \in Msgs /\ ~Holds(b, q[1]) BY <1>2 DEF Holds
  <2>2. b.booked[q[1]] \in Nat BY <2>1 DEF Books
  <2> QED BY <2>1, <2>2, HoldsIs
<1>4. \A p, q \in fresh : p[1] = q[1] => p = q BY DEF OneEach
<1>5. took \subseteq fresh /\ \A m : m \in whose <=> \E q \in took : q[1] = m OBVIOUS
<1>6. \A q \in fresh : q \in took <=> q[1] \in b.loans OBVIOUS
<1>7. \A q \in rows : q \in fresh \/ Holds(b, q[1]) BY DEF Holds
<1> HIDE DEF fresh, took, whose
<1>8. \A m \in Msgs : b.booked[m] \in Nat /\ b.booked[m] <= 1 BY DEF Books, Once
<1>9. \A m \in Msgs : c.booked[m] = b.booked[m] + IF m \in whose THEN 1 ELSE 0 BY <1>1
<1>10. \A m \in whose : m \in Msgs => b.booked[m] = 0 BY <1>3, <1>5
<1>11. c \in Books
  <2>1. c.booked \in [Msgs -> Nat] BY <1>1, <1>8
  <2>2. c.queue \in SUBSET (Msgs \X Copies) BY <1>1, <1>2, <1>3 DEF Books
  <2>3. c.dismissed \in SUBSET (Msgs \X Copies) /\ c.loans \in SUBSET Linked BY <1>1 DEF Books
  <2> QED BY <1>c, <2>1, <2>2, <2>3 DEF Books
<1>12. Once(c)
  <2>1. ASSUME NEW m \in Msgs
        PROVE  c.booked[m] <= 1 /\ (c.booked[m] = 1 => \A q \in c.queue \cup c.dismissed : q[1] # m)
    <3>1. CASE m \in whose
      <4>1. PICK q \in took : q[1] = m BY <3>1, <1>5
      <4>2. c.booked[m] = 1 BY <3>1, <1>9, <1>10
      <4>3. \A p \in fresh \ took : p[1] # m BY <4>1, <1>4, <1>5
      <4> QED BY <4>1, <4>2, <4>3, <1>1, <1>3, <1>5
    <3>2. CASE m \notin whose
      <4>1. c.booked[m] = b.booked[m] BY <3>2, <1>8, <1>9
      <4>2. b.booked[m] = 1 => \A q \in b.queue \cup b.dismissed : q[1] # m BY DEF Once
      <4>3. b.booked[m] = 1 => \A q \in fresh : q[1] # m BY <1>3
      <4> QED BY <4>1, <4>2, <4>3, <1>1, <1>8
    <3> QED BY <3>1, <3>2
  <2>2. \A p, q \in c.queue : p[1] = q[1] => p = q BY <1>1, <1>3, <1>4 DEF Once
  <2>3. \A p \in c.queue, q \in c.dismissed : p[1] # q[1] BY <1>1, <1>3 DEF Once
  <2> QED BY <2>1, <2>2, <2>3, <1>1 DEF Once
<1>13. Grows(b, c)
  <2>1. ASSUME NEW m \in Msgs, Holds(b, m) PROVE Holds(c, m)
    <3>1. c.booked[m] >= b.booked[m] BY <1>8, <1>9
    <3> QED BY <3>1, <2>1, <1>1, <1>8, <1>11, HoldsIs
  <2>2. ASSUME NEW m \in c.loans, Rows(c, m) # {} PROVE Rows(b, m) # {}
    <3>1. m \in b.loans /\ m \notin whose BY <1>1
    <3>2. \A q \in fresh \ took : q[1] # m BY <3>1, <1>6
    <3> QED BY <2>2, <3>2, <1>1 DEF Rows
  <2> QED BY <2>1, <2>2, <1>1 DEF Grows
<1>14. ASSUME NEW q \in rows PROVE Holds(c, q[1])
  <2>1. q[1] \in Msgs BY <1>2
  <2>2. CASE q \in took
    <3>1. q[1] \in whose BY <2>2, <1>5
    <3>2. c.booked[q[1]] > 0 BY <2>1, <3>1, <1>8, <1>9
    <3> QED BY <3>2 DEF Holds, Seen
  <2>3. CASE q \in fresh \ took
    <3>1. q \in c.queue BY <2>3, <1>1
    <3> QED BY <3>1, <2>1, <1>11, HoldsIs
  <2>4. CASE Holds(b, q[1]) BY <2>4, <2>1, <1>13 DEF Grows
  <2> QED BY <2>2, <2>3, <2>4, <1>7
<1> QED BY <1>11, <1>12, <1>13, <1>14 DEF c

LEMMA AskedBookStep ==
  ASSUME NEW b \in Books, Once(b), NEW items \in SUBSET (Msgs \X BOOLEAN)
  PROVE  /\ AskedBook(b, items) \in Books /\ Once(AskedBook(b, items))
         /\ Grows(b, AskedBook(b, items))
<1> DEFINE rows == {<<it[1], "asked">> : it \in {i \in items : ~Seen(b, i[1])}}
<1>1. OneEach(rows)
  <2>1. \A it \in items : it[1] \in Msgs OBVIOUS
  <2>2. \A m \in Msgs : <<m, "asked">> \in Msgs \X Copies BY DEF Copies
  <2>3. \A q \in rows : q[2] = "asked" /\ q = <<q[1], q[2]>> OBVIOUS
  <2> QED BY <2>1, <2>2, <2>3 DEF OneEach
<1> HIDE DEF rows
<1>2. QueueSms(b, rows) \in Books /\ Once(QueueSms(b, rows)) /\ Grows(b, QueueSms(b, rows)) BY <1>1, QueueStep
<1> QED BY <1>2 DEF AskedBook, rows

LEMMA AskedBookedStep ==
  ASSUME NEW b \in Books, Once(b), NEW items
  PROVE  /\ AskedBooked(b, items) \in Books /\ Once(AskedBooked(b, items))
         /\ Grows(b, AskedBooked(b, items))
<1> DEFINE S == {q \in b.queue : q[1] \in Linked /\ <<q[1], TRUE>> \in items}
<1>1. S \in SUBSET b.queue OBVIOUS
<1> HIDE DEF S
<1>2. Book(b, S) \in Books /\ Once(Book(b, S)) /\ Grows(b, Book(b, S)) BY <1>1, BookStep
<1> QED BY <1>2 DEF AskedBooked, S

\* what the user does to the book: nothing leaves it, and only what was ignored
\* comes back beside a waiting loan
UserBook(b, c) ==
  /\ \A m \in Msgs : Holds(b, m) => Holds(c, m)
  /\ \A m \in b.loans \cap c.loans : Rows(c, m) # {} => Rows(b, m) # {} \/ Ignored(b, m)

LEMMA GrowsIsUser == ASSUME NEW b, NEW c, Grows(b, c) PROVE UserBook(b, c)
BY DEF Grows, UserBook

LEMMA CommitStep ==
  ASSUME NEW b \in Books, Once(b), NEW q \in b.queue
  PROVE  Book(b, {q}) \in Books /\ Once(Book(b, {q})) /\ UserBook(b, Book(b, {q}))
BY BookStep, GrowsIsUser

Dismissed(b, q) == [b EXCEPT !.queue = @ \ {q},
                      !.dismissed = IF Ignored(b, q[1]) THEN @ ELSE @ \cup {q}]
LEMMA DismissStep ==
  ASSUME NEW b \in Books, Once(b), NEW q \in b.queue
  PROVE  Dismissed(b, q) \in Books /\ Once(Dismissed(b, q)) /\ UserBook(b, Dismissed(b, q))
<1> DEFINE c == Dismissed(b, q)
<1>1. q \in Msgs \X Copies /\ q[1] \in Msgs BY DEF Books
<1>2. ~Ignored(b, q[1]) BY <1>1, HoldsIs DEF Once
<1>3. /\ c.queue = b.queue \ {q} /\ c.dismissed = b.dismissed \cup {q}
      /\ c.loans = b.loans /\ c.booked = b.booked
  BY <1>2 DEF Dismissed, Books
<1>c. c \in [queue : {c.queue}, dismissed : {c.dismissed}, loans : {c.loans}, booked : {c.booked}]
  BY DEF Dismissed, Books
<1> HIDE DEF c
<1>4. c \in Books BY <1>c, <1>1, <1>3 DEF Books
<1>5. Once(c) BY <1>3 DEF Once
<1>6. \A m \in Msgs : Holds(b, m) => Holds(c, m) BY <1>3, <1>4, HoldsIs
<1>7. UserBook(b, c) BY <1>3, <1>6 DEF UserBook, Rows
<1> QED BY <1>4, <1>5, <1>7 DEF c

Undismissed(b, q) == [b EXCEPT !.dismissed = @ \ {q}, !.queue = @ \cup {q}]
LEMMA UndismissStep ==
  ASSUME NEW b \in Books, Once(b), NEW q \in b.dismissed
  PROVE  Undismissed(b, q) \in Books /\ Once(Undismissed(b, q)) /\ UserBook(b, Undismissed(b, q))
<1> DEFINE c == Undismissed(b, q)
<1>1. q \in Msgs \X Copies /\ q[1] \in Msgs BY DEF Books
<1>3. /\ c.queue = b.queue \cup {q} /\ c.dismissed = b.dismissed \ {q}
      /\ c.loans = b.loans /\ c.booked = b.booked
  BY DEF Undismissed, Books
<1>c. c \in [queue : {c.queue}, dismissed : {c.dismissed}, loans : {c.loans}, booked : {c.booked}]
  BY DEF Undismissed, Books
<1> HIDE DEF c
<1>4. c \in Books BY <1>c, <1>1, <1>3 DEF Books
<1>5. Once(c) BY <1>3 DEF Once
<1>6. \A m \in Msgs : Holds(b, m) => Holds(c, m) BY <1>3, <1>4, HoldsIs
<1>7. ASSUME NEW m \in c.loans, Rows(c, m) # {} PROVE Rows(b, m) # {} \/ Ignored(b, m)
  BY <1>3, <1>7 DEF Rows, Ignored
<1> QED BY <1>4, <1>5, <1>6, <1>7 DEF c, UserBook

Lent(b, m) == [b EXCEPT !.loans = @ \cup {m}]
LEMMA LendStep ==
  ASSUME NEW b \in Books, Once(b), NEW m \in Linked \ b.loans
  PROVE  Lent(b, m) \in Books /\ Once(Lent(b, m)) /\ UserBook(b, Lent(b, m))
<1> DEFINE c == Lent(b, m)
<1>3. /\ c.queue = b.queue /\ c.dismissed = b.dismissed
      /\ c.loans = b.loans \cup {m} /\ c.booked = b.booked
  BY DEF Lent, Books
<1>c. c \in [queue : {c.queue}, dismissed : {c.dismissed}, loans : {c.loans}, booked : {c.booked}]
  BY DEF Lent, Books
<1> HIDE DEF c
<1>4. c \in Books BY <1>c, <1>3 DEF Books
<1>5. Once(c) BY <1>3 DEF Once
<1>6. \A k \in Msgs : Holds(b, k) => Holds(c, k) BY <1>3, <1>4, HoldsIs
<1>7. UserBook(b, c) BY <1>3, <1>6 DEF UserBook, Rows
<1> QED BY <1>4, <1>5, <1>7 DEF c

---------------------------------------------------------------------------
(* The state: types, and each message once *)

Held == [pc : Steps, last : 0..Count, since : 0..Count, got : SUBSET Delivered,
         items : SUBSET (Msgs \X BOOLEAN), done : SUBSET Msgs]
Tidy(s) == (s.pc = "idle" => s = Idle) /\ (s.pc = "clear" => s.got = {})

LEMMA ReaderType ==
  ASSUME TypeOK, NEW r \in Readers, NEW s \in Held, Tidy(s), reader' = [reader EXCEPT ![r] = s],
         phone' = phone
  PROVE  /\ reader' \in [Readers -> Held'] /\ \A k \in Readers : Tidy(reader'[k])
         /\ reader'[r] = s /\ \A k \in Readers : k # r => reader'[k] = reader[k]
<1>1. Held' = Held BY DEF Held, Delivered
<1>2. reader \in [Readers -> Held] /\ \A k \in Readers : Tidy(reader[k]) BY DEF TypeOK, Held, Tidy
<1> HIDE DEF Held, Tidy
<1> QED BY <1>1, <1>2

LEMMA IdleHeld == ASSUME SmsAssumption PROVE Idle \in Held /\ Tidy(Idle)
BY DEF SmsAssumption, Idle, Held, Tidy, Steps

LEMMA InMsgs == ASSUME SmsAssumption, TypeOK PROVE Delivered \subseteq Msgs
BY DEF SmsAssumption, TypeOK, Delivered, Msgs

LEMMA InboxIsRows ==
  ASSUME SmsAssumption, TypeOK, NEW r \in Readers
  PROVE  OneEach(InboxRows(r)) /\ reader[r].items \in SUBSET (Msgs \X BOOLEAN)
<1>1. reader[r].got \subseteq Msgs /\ reader[r].items \in SUBSET (Msgs \X BOOLEAN) BY InMsgs DEF TypeOK
<1>2. OneEach(InboxRows(r)) BY <1>1 DEF OneEach, InboxRows, Copies
<1> QED BY <1>1, <1>2

\* the two ways a reader and the user write the book
LEMMA QueueReadBook ==
  ASSUME SmsAssumption, TypeOK, Once(book), NEW r \in Readers, QueueRead(r)
  PROVE  /\ book' \in Books /\ Once(book') /\ Grows(book, book')
         /\ \A m \in reader[r].got : Holds(book', m)
<1>1. book \in Books /\ OneEach(InboxRows(r)) BY InboxIsRows DEF TypeOK
<1>2. book' = QueueSms(book, InboxRows(r)) BY DEF QueueRead
<1>3. \A m \in reader[r].got : <<m, "inbox">> \in InboxRows(r) /\ <<m, "inbox">>[1] = m BY DEF InboxRows
<1> QED BY <1>1, <1>2, <1>3, QueueStep

LEMMA ApplyReadBook ==
  ASSUME SmsAssumption, TypeOK, Once(book), NEW r \in Readers, ApplyRead(r)
  PROVE  /\ book' \in Books /\ Once(book') /\ Grows(book, book')
         /\ Grows(AskedBook(book, reader[r].items), book')
         /\ \A m \in reader[r].got : Holds(book', m)
<1> DEFINE asks == AskedBook(book, reader[r].items)
           told == AskedBooked(asks, reader[r].items)
<1>1. book \in Books /\ OneEach(InboxRows(r)) /\ reader[r].items \in SUBSET (Msgs \X BOOLEAN)
  BY InboxIsRows DEF TypeOK
<1>2. book' = QueueSms(told, InboxRows(r)) BY DEF ApplyRead
<1>3. asks \in Books /\ Once(asks) /\ Grows(book, asks) BY <1>1, AskedBookStep
<1> HIDE DEF asks
<1>4. told \in Books /\ Once(told) /\ Grows(asks, told) BY <1>3, AskedBookedStep
<1> HIDE DEF told
<1>5. \A m \in reader[r].got : <<m, "inbox">> \in InboxRows(r) /\ <<m, "inbox">>[1] = m BY DEF InboxRows
<1>6. /\ book' \in Books /\ Once(book') /\ Grows(told, book')
      /\ \A m \in reader[r].got : Holds(book', m)
  BY <1>1, <1>2, <1>4, <1>5, QueueStep
<1>7. Grows(asks, book') /\ Grows(book, book') BY <1>3, <1>4, <1>6, GrowsOn
<1> QED BY <1>6, <1>7 DEF asks

UserWrites ==
  \/ \E m \in Msgs : BookLendWithSms(m)
  \/ \E q \in book.queue : CommitStaged(q) \/ DismissStaged(q)
  \/ \E q \in book.dismissed : UndismissSms(q)

LEMMA UserBookNext ==
  ASSUME SmsAssumption, TypeOK, Once(book), UserWrites
  PROVE  book' \in Books /\ Once(book') /\ UserBook(book, book')
<1>1. book \in Books BY DEF TypeOK
<1>2. ASSUME NEW m \in Msgs, BookLendWithSms(m)
      PROVE  book' \in Books /\ Once(book') /\ UserBook(book, book')
  <2>1. m \in Linked \ book.loans BY <1>2 DEF BookLendWithSms
  <2>2. ASSUME NEW q \in Rows(book, m), UserStep(Book(book, {q}))
        PROVE  book' \in Books /\ Once(book') /\ UserBook(book, book')
    <3>1. q \in book.queue BY DEF Rows
    <3> QED BY <3>1, <2>2, <1>1, CommitStep DEF UserStep
  <2>3. ASSUME UserStep([book EXCEPT !.loans = @ \cup {m}])
        PROVE  book' \in Books /\ Once(book') /\ UserBook(book, book')
    <3>1. book' = Lent(book, m) BY <2>3 DEF UserStep, Lent
    <3> QED BY <3>1, <2>1, <1>1, LendStep
  <2> QED BY <1>2, <2>2, <2>3 DEF BookLendWithSms
<1>3. ASSUME NEW q \in book.queue, CommitStaged(q)
      PROVE  book' \in Books /\ Once(book') /\ UserBook(book, book')
  BY <1>1, <1>3, CommitStep DEF CommitStaged, UserStep
<1>4. ASSUME NEW q \in book.queue, DismissStaged(q)
      PROVE  book' \in Books /\ Once(book') /\ UserBook(book, book')
  <2>1. book' = Dismissed(book, q) BY <1>4 DEF DismissStaged, UserStep, Dismissed
  <2> QED BY <2>1, <1>1, DismissStep
<1>5. ASSUME NEW q \in book.dismissed, UndismissSms(q)
      PROVE  book' \in Books /\ Once(book') /\ UserBook(book, book')
  <2>1. book' = Undismissed(book, q) BY <1>5 DEF UndismissSms, UserStep, Undismissed
  <2> QED BY <2>1, <1>1, UndismissStep
<1> QED BY <1>2, <1>3, <1>4, <1>5 DEF UserWrites

LEMMA UserKeeps ==
  ASSUME UserWrites PROVE UNCHANGED <<phone, asked, mark, reader, closes>>
BY DEF UserWrites, BookLendWithSms, CommitStaged, DismissStaged, UndismissSms, UserStep

Inv == TypeOK /\ Once(book)

LEMMA SmsNext == SmsAssumption /\ Inv /\ [Next]_vars => Inv'
<1> SUFFICES ASSUME SmsAssumption, TypeOK, Once(book), [Next]_vars PROVE TypeOK' /\ Once(book)'
  BY DEF Inv
<1> USE SmsAssumption
<1>0. /\ phone \in 0..Count /\ mark \in 0..Count /\ closes \in 0..MaxCloses
      /\ asked \in [DOMAIN asked -> BOOLEAN] /\ DOMAIN asked \subseteq Asking
      /\ book \in Books /\ reader \in [Readers -> Held] /\ Count \in Nat /\ MaxCloses \in Nat
      /\ \A r \in Readers : Tidy(reader[r]) /\ reader[r] \in Held
  BY DEF TypeOK, Held, Tidy, SmsAssumption
<1>t. ASSUME /\ phone' \in 0..Count /\ mark' \in 0..Count /\ closes' \in 0..MaxCloses
             /\ asked' \in [DOMAIN asked' -> BOOLEAN] /\ DOMAIN asked' \subseteq Asking
             /\ book' \in Books /\ reader' \in [Readers -> Held']
             /\ \A r \in Readers : Tidy(reader'[r])
      PROVE  TypeOK'
  BY <1>t DEF TypeOK, Held, Tidy
<1>i. Idle \in Held /\ Tidy(Idle) BY IdleHeld
<1>1. ASSUME NEW m \in Msgs, Deliver(m) PROVE TypeOK' /\ Once(book)'
  <2>1. /\ phone' = phone + 1 /\ m = phone + 1 /\ UNCHANGED <<mark, book, reader, closes>>
        /\ asked' = IF m \in Asking
                    THEN [k \in DOMAIN asked \cup {m} |-> k # m /\ asked[k]] ELSE asked
    BY <1>1 DEF Deliver
  <2>2. phone' \in 0..Count /\ Delivered \subseteq Delivered' BY <2>1, <1>0 DEF Msgs, Delivered
  <2>3. Held \subseteq Held' BY <2>2 DEF Held
  <2>4. asked' \in [DOMAIN asked' -> BOOLEAN] /\ DOMAIN asked' \subseteq Asking BY <2>1, <1>0
  <2>5. reader' \in [Readers -> Held'] BY <2>1, <2>3, <1>0
  <2> QED BY <2>1, <2>2, <2>4, <2>5, <1>0, <1>t
<1>2. ASSUME NEW m \in Msgs, SetChoice(m) PROVE TypeOK' /\ Once(book)'
  <2>1. /\ UNCHANGED <<phone, mark, book, reader, closes>>
        /\ asked' \in [DOMAIN asked' -> BOOLEAN] /\ DOMAIN asked' \subseteq Asking
    BY <1>2, <1>0 DEF SetChoice
  <2>2. Held' = Held BY <2>1 DEF Held, Delivered
  <2> QED BY <2>1, <2>2, <1>0, <1>t
<1>3. ASSUME UserWrites PROVE TypeOK' /\ Once(book)'
  <2>1. UNCHANGED <<phone, asked, mark, reader, closes>> BY <1>3, UserKeeps
  <2>2. Held' = Held BY <2>1 DEF Held, Delivered
  <2>3. book' \in Books /\ Once(book') BY <1>3, UserBookNext
  <2> QED BY <2>1, <2>2, <2>3, <1>0, <1>t
<1>r. ASSUME NEW r \in Readers, NEW s \in Held, Tidy(s), reader' = [reader EXCEPT ![r] = s],
             UNCHANGED <<phone, closes>>, book' \in Books, mark' \in 0..Count,
             asked' \in [DOMAIN asked' -> BOOLEAN] /\ DOMAIN asked' \subseteq Asking
      PROVE  TypeOK'
  <2>1. reader' \in [Readers -> Held'] /\ \A k \in Readers : Tidy(reader'[k]) BY <1>r, ReaderType
  <2> QED BY <2>1, <1>r, <1>0, <1>t
<1>4. ASSUME NEW r \in Polls, ReadSms(r) PROVE TypeOK' /\ Once(book)'
  <2> DEFINE s == [Idle EXCEPT !.pc = "mark", !.last = mark, !.since = mark, !.got = Inbox(mark)]
  <2>1. s \in Held /\ Tidy(s)
    <3>1. Inbox(mark) \subseteq Delivered BY DEF Inbox
    <3> QED BY <3>1, <1>0, <1>i DEF Held, Tidy, Idle, Steps
  <2>2. reader' = [reader EXCEPT ![r] = s] /\ UNCHANGED <<phone, asked, mark, book, closes>>
    BY <1>4 DEF ReadSms
  <2> HIDE DEF s
  <2>3. r \in Readers BY DEF Readers
  <2> QED BY <2>1, <2>2, <2>3, <1>0, <1>r
<1>5. ASSUME NEW r \in Pages, NEW w, w[1] \in 0..Count, ReadPhone(r, w) PROVE TypeOK' /\ Once(book)'
  <2> DEFINE s == [Idle EXCEPT !.pc = "marks", !.last = mark, !.since = w[1],
                     !.got = {m \in Inbox(w[1]) : m <= w[2]}]
  <2>1. s \in Held /\ Tidy(s)
    <3>1. {m \in Inbox(w[1]) : m <= w[2]} \subseteq Delivered BY DEF Inbox
    <3> QED BY <3>1, <1>0, <1>i, <1>5 DEF Held, Tidy, Idle, Steps
  <2>2. reader' = [reader EXCEPT ![r] = s] /\ UNCHANGED <<phone, asked, mark, book, closes>>
    BY <1>5 DEF ReadPhone
  <2> HIDE DEF s
  <2>3. r \in Readers BY DEF Readers
  <2> QED BY <2>1, <2>2, <2>3, <1>0, <1>r
<1>6. ASSUME NEW r \in Readers, StoreMark(r) PROVE TypeOK' /\ Once(book)'
  <2> DEFINE newest == Largest({reader[r].since} \cup reader[r].got)
             s == [Idle EXCEPT !.got = reader[r].got \cap Bank,
                     !.pc = IF reader[r].pc = "mark" THEN "asked" ELSE "queue"]
  <2>1. newest \in 0..Count
    <3>1. reader[r].since \in 0..Count /\ reader[r].got \subseteq 0..Count
      BY <1>0 DEF Held, Delivered
    <3>2. newest \in {reader[r].since} \cup reader[r].got BY <3>1, <1>0, LargestIn
    <3> QED BY <3>1, <3>2
  <2>2. s \in Held /\ Tidy(s)
    <3>1. reader[r].got \cap Bank \subseteq Delivered BY <1>0 DEF Held
    <3> QED BY <3>1, <1>0, <1>i DEF Held, Tidy, Idle, Steps
  <2>3. /\ reader' = [reader EXCEPT ![r] = s] /\ UNCHANGED <<phone, asked, book, closes>>
        /\ mark' = IF KeepsMark(r, newest) THEN mark ELSE newest
    BY <1>6 DEF StoreMark
  <2> HIDE DEF s, newest
  <2> QED BY <2>1, <2>2, <2>3, <1>0, <1>r
<1>7. ASSUME NEW r \in Readers, QueueRead(r) PROVE TypeOK' /\ Once(book)'
  <2>1. book' \in Books /\ Once(book') BY <1>7, QueueReadBook
  <2>2. reader' = [reader EXCEPT ![r] = Idle] /\ UNCHANGED <<phone, asked, mark, closes>>
    BY <1>7 DEF QueueRead
  <2> QED BY <2>1, <2>2, <1>0, <1>i, <1>r
<1>8. ASSUME NEW r \in Readers, GetAsked(r) PROVE TypeOK' /\ Once(book)'
  <2> DEFINE all == {<<m, asked[m]>> : m \in DOMAIN asked}
             s == [reader[r] EXCEPT !.pc = "apply", !.items = all]
  <2>1. all \in SUBSET (Msgs \X BOOLEAN)
    <3>1. DOMAIN asked \subseteq Msgs BY <1>0 DEF SmsAssumption
    <3> QED BY <3>1, <1>0
  <2>2. s \in Held /\ Tidy(s) BY <2>1, <1>0 DEF Held, Tidy, Steps
  <2>3. /\ UNCHANGED <<phone, asked, mark, book, closes>>
        /\ reader' = [reader EXCEPT ![r] = s]
    BY <1>8, <1>0 DEF GetAsked
  <2> HIDE DEF s
  <2> QED BY <2>2, <2>3, <1>0, <1>r
<1>9. ASSUME NEW r \in Readers, ApplyRead(r) PROVE TypeOK' /\ Once(book)'
  <2> DEFINE gone == AskedDone(AskedBook(book, reader[r].items), reader[r].items)
             s == [Idle EXCEPT !.pc = "clear", !.done = gone]
  <2>1. book' \in Books /\ Once(book') BY <1>9, ApplyReadBook
  <2>2. gone \subseteq Msgs
    <3>1. reader[r].items \in SUBSET (Msgs \X BOOLEAN) BY <1>0 DEF Held
    <3> QED BY <3>1 DEF AskedDone
  <2>3. reader' = [reader EXCEPT ![r] = s] /\ UNCHANGED <<phone, asked, mark, closes>>
    BY <1>9 DEF ApplyRead
  <2> HIDE DEF gone
  <2>4. s \in Held /\ Tidy(s) BY <2>2, <1>i DEF Held, Tidy, Idle, Steps
  <2> HIDE DEF s
  <2> QED BY <2>1, <2>3, <2>4, <1>0, <1>r
<1>10. ASSUME NEW r \in Readers, ClearAsked(r) PROVE TypeOK' /\ Once(book)'
  <2>1. /\ reader' = [reader EXCEPT ![r] = Idle] /\ UNCHANGED <<phone, mark, book, closes>>
        /\ asked' = [m \in DOMAIN asked \ reader[r].done |-> asked[m]]
    BY <1>10 DEF ClearAsked
  <2>2. asked' \in [DOMAIN asked' -> BOOLEAN] /\ DOMAIN asked' \subseteq Asking BY <2>1, <1>0
  <2> QED BY <2>1, <2>2, <1>0, <1>i, <1>r
<1>11. ASSUME Close PROVE TypeOK' /\ Once(book)'
  <2>1. /\ reader' = [r \in Readers |-> Idle] /\ UNCHANGED <<phone, asked, mark, book>>
        /\ closes' = closes + 1 /\ closes < MaxCloses
    BY <1>11 DEF Close
  <2>2. Held' = Held BY <2>1 DEF Held, Delivered
  <2> QED BY <2>1, <2>2, <1>0, <1>i, <1>t
<1>12. ASSUME UNCHANGED vars PROVE TypeOK' /\ Once(book)'
  <2>1. UNCHANGED <<phone, asked, mark, book, reader, closes>> BY <1>12 DEF vars
  <2>2. Held' = Held BY <2>1 DEF Held, Delivered
  <2> QED BY <2>1, <2>2, <1>0, <1>t
<1>13. mark \in 0..Count /\ \A w \in Windows : w[1] \in 0..Count BY <1>0 DEF SmsAssumption
<1>14. <<mark, Count>>[1] = mark OBVIOUS
<1> QED BY <1>1, <1>2, <1>3, <1>4, <1>5, <1>6, <1>7, <1>8, <1>9, <1>10, <1>11, <1>12, <1>13, <1>14
        DEF Next, Step, UserWrites

LEMMA SmsInit == SmsAssumption /\ Init => Inv
<1> SUFFICES ASSUME SmsAssumption, Init PROVE Inv OBVIOUS
<1>1. book \in Books BY DEF Init, Books
<1>2. Once(book) BY DEF Init, Once
<1>3. reader \in [Readers -> Held] /\ \A r \in Readers : Tidy(reader[r]) BY IdleHeld DEF Init
<1>4. asked \in [DOMAIN asked -> BOOLEAN] /\ DOMAIN asked \subseteq Asking BY DEF Init
<1> QED BY <1>1, <1>2, <1>3, <1>4 DEF Inv, TypeOK, Held, Tidy, Init, SmsAssumption

LEMMA SmsInv == Spec => []Inv
<1>1. SmsAssumption BY SmsAssumption
<1> QED BY <1>1, SmsInit, SmsNext, PTL DEF Spec

\* The state keeps its types.
THEOREM SmsTypeCorrect == Spec => []TypeOK
<1>1. Inv => TypeOK BY DEF Inv
<1> QED BY <1>1, SmsInv, PTL

LEMMA OnceIsMoneyOnce == Inv => MoneyOnce
<1> SUFFICES ASSUME Inv, NEW m \in Msgs
             PROVE  Cardinality(Rows(book, m)) + book.booked[m]
                      + Cardinality({q \in book.dismissed : q[1] = m}) <= 1
  BY DEF MoneyOnce
<1> DEFINE Q == Rows(book, m)
           D == {q \in book.dismissed : q[1] = m}
<1>1. book.booked[m] \in {0, 1} BY DEF Inv, TypeOK, Books, Once
<1>2. Q = {} \/ \E q \in book.queue : q[1] = m /\ Q = {q} BY DEF Inv, Once, Rows
<1>3. D = {} \/ \E q \in book.dismissed : q[1] = m /\ D = {q} BY DEF Inv, Once
<1>4. Q # {} => D = {} BY DEF Inv, Once, Rows
<1>5. Q # {} \/ D # {} => book.booked[m] = 0 BY <1>1, <1>2, <1>3 DEF Inv, Once
<1>6. Cardinality(Q) = IF Q = {} THEN 0 ELSE 1 BY <1>2, FS_EmptySet, FS_Singleton
<1>7. Cardinality(D) = IF D = {} THEN 0 ELSE 1 BY <1>3, FS_EmptySet, FS_Singleton
<1> HIDE DEF Q, D
<1>8. Cardinality(Q) + book.booked[m] + Cardinality(D) <= 1 BY <1>1, <1>4, <1>5, <1>6, <1>7
<1> QED BY <1>8 DEF Q, D

\* One message is one row of the queue, the book or the ignored, whichever
\* readers overlapped and were killed (sources.ts addToQueue under seenSms).
THEOREM MoneyIsBookedOnce == Spec => []MoneyOnce
BY SmsInv, OnceIsMoneyOnce, PTL

---------------------------------------------------------------------------
(* What was asked about stays on the phone until it is in the book *)

AskedInv == /\ AskedIsKept
            /\ \A r \in Readers : reader[r].pc = "clear" => \A m \in reader[r].done : InBook(m)

\* nothing that is in the book leaves it
LEMMA BookKeeps ==
  ASSUME SmsAssumption, Inv, [Next]_vars
  PROVE  \A m \in Msgs : InBook(m) => InBook(m)'
<1>1. (\A m \in Msgs : Holds(book, m) => Holds(book', m)) => \A m \in Msgs : InBook(m) => InBook(m)'
  BY DEF InBook, Holds
<1>2. ASSUME book' = book PROVE \A m \in Msgs : Holds(book, m) => Holds(book', m) BY <1>2
<1>3. ASSUME NEW r \in Readers, QueueRead(r) \/ ApplyRead(r)
      PROVE \A m \in Msgs : Holds(book, m) => Holds(book', m)
  BY <1>3, QueueReadBook, ApplyReadBook DEF Grows, Inv
<1>4. ASSUME UserWrites PROVE \A m \in Msgs : Holds(book, m) => Holds(book', m)
  BY <1>4, UserBookNext DEF UserBook, Inv
<1>5. book' = book \/ UserWrites \/ \E r \in Readers : QueueRead(r) \/ ApplyRead(r)
  BY DEF Next, Step, UserWrites, Deliver, SetChoice, ReadSms, ReadPhone, StoreMark, GetAsked,
         ClearAsked, Close, vars
<1> QED BY <1>1, <1>2, <1>3, <1>4, <1>5

LEMMA ApplyDone ==
  ASSUME SmsAssumption, Inv, NEW r \in Readers, ApplyRead(r)
  PROVE  \A m \in AskedDone(AskedBook(book, reader[r].items), reader[r].items) : InBook(m)'
<1> DEFINE asks == AskedBook(book, reader[r].items)
<1>1. reader[r].items \in SUBSET (Msgs \X BOOLEAN) BY InboxIsRows DEF Inv
<1>2. Grows(asks, book') BY ApplyReadBook DEF Inv
<1> HIDE DEF asks
<1>3. ASSUME NEW m \in AskedDone(asks, reader[r].items) PROVE Holds(book', m)
  <2>1. m \in Msgs /\ Seen(asks, m) BY <1>1, <1>3 DEF AskedDone, Seen
  <2> QED BY <2>1, <1>2 DEF Grows, Holds
<1> QED BY <1>3 DEF asks, InBook, Holds

LEMMA AskedNext == SmsAssumption /\ Inv /\ AskedInv /\ [Next]_vars => AskedInv'
<1> SUFFICES ASSUME SmsAssumption, Inv, AskedInv, [Next]_vars PROVE AskedInv'
  OBVIOUS
<1> USE SmsAssumption
<1>1. \A m \in Msgs : InBook(m) => InBook(m)' BY BookKeeps
<1>2. Delivered \subseteq Msgs BY InMsgs DEF Inv
<1>3. \A r \in Readers : reader[r] \in Held /\ reader[r].done \subseteq Msgs BY DEF Inv, TypeOK, Held
<1>k. ASSUME phone' = phone, asked' = asked PROVE AskedIsKept'
  BY <1>k, <1>1, <1>2 DEF AskedInv, AskedIsKept, Delivered
<1>d. ASSUME \A r \in Readers : reader'[r] = reader[r] \/ reader'[r].pc # "clear" PROVE AskedInv' <=> AskedIsKept'
  BY <1>d, <1>1, <1>3 DEF AskedInv
<1>4. ASSUME NEW m \in Msgs, Deliver(m) PROVE AskedInv'
  <2>1. /\ m = phone + 1 /\ phone' = phone + 1 /\ UNCHANGED <<book, reader>>
        /\ asked' = IF m \in Asking THEN [k \in DOMAIN asked \cup {m} |-> k # m /\ asked[k]] ELSE asked
    BY <1>4 DEF Deliver
  <2>2. phone \in Nat BY DEF Inv, TypeOK, SmsAssumption
  <2>3. \A k \in Delivered' : k \in Delivered \/ k = m BY <2>1, <2>2 DEF Delivered
  <2>4. DOMAIN asked \subseteq DOMAIN asked' /\ (m \in Asking => m \in DOMAIN asked') BY <2>1
  <2>5. AskedIsKept' BY <2>3, <2>4, <1>1, <1>2 DEF AskedInv, AskedIsKept
  <2> QED BY <2>1, <2>5, <1>d
<1>5. ASSUME NEW m \in Msgs, SetChoice(m) PROVE AskedInv'
  <2>1. UNCHANGED <<phone, book, reader>> /\ DOMAIN asked' = DOMAIN asked BY <1>5 DEF SetChoice, Inv, TypeOK
  <2>2. AskedIsKept' BY <2>1, <1>1, <1>2 DEF AskedInv, AskedIsKept, Delivered
  <2> QED BY <2>1, <2>2, <1>d
<1>6. ASSUME NEW r \in Readers, NEW s, s.pc # "clear", reader' = [reader EXCEPT ![r] = s],
             UNCHANGED <<phone, asked>>
      PROVE  AskedInv'
  <2>1. \A k \in Readers : reader'[k] = reader[k] \/ reader'[k].pc # "clear" BY <1>6 DEF Inv, TypeOK
  <2> QED BY <2>1, <1>k, <1>d, <1>6
<1>7. ASSUME NEW r \in Polls, ReadSms(r) PROVE AskedInv'
  <2>1. r \in Readers BY DEF Readers
  <2> QED BY <1>6, <1>7, <2>1 DEF ReadSms, Idle
<1>8. ASSUME NEW r \in Pages, NEW w, ReadPhone(r, w) PROVE AskedInv'
  <2>1. r \in Readers BY DEF Readers
  <2> QED BY <1>6, <1>8, <2>1 DEF ReadPhone, Idle
<1>9. ASSUME NEW r \in Readers, StoreMark(r) PROVE AskedInv' BY <1>6, <1>9 DEF StoreMark, Idle
<1>10. ASSUME NEW r \in Readers, QueueRead(r) PROVE AskedInv' BY <1>6, <1>10 DEF QueueRead, Idle
<1>11. ASSUME NEW r \in Readers, GetAsked(r) PROVE AskedInv'
  <2> DEFINE s == [reader[r] EXCEPT !.pc = "apply", !.items = {<<m, asked[m]>> : m \in DOMAIN asked}]
  <2>1. s.pc # "clear" BY <1>3 DEF Held
  <2>2. reader' = [reader EXCEPT ![r] = s] /\ UNCHANGED <<phone, asked>> BY <1>11 DEF GetAsked, Inv, TypeOK
  <2> HIDE DEF s
  <2> QED BY <2>1, <2>2, <1>6
<1>12. ASSUME NEW r \in Readers, ApplyRead(r) PROVE AskedInv'
  <2> DEFINE gone == AskedDone(AskedBook(book, reader[r].items), reader[r].items)
  <2>1. reader' = [reader EXCEPT ![r] = [Idle EXCEPT !.pc = "clear", !.done = gone]]
        /\ UNCHANGED <<phone, asked>>
    BY <1>12 DEF ApplyRead
  <2>2. \A m \in gone : InBook(m)' BY <1>12, ApplyDone
  <2> HIDE DEF gone
  <2>3. reader'[r].done = gone /\ \A k \in Readers : k # r => reader'[k] = reader[k]
    BY <2>1 DEF Idle, Inv, TypeOK
  <2> QED BY <2>1, <2>2, <2>3, <1>1, <1>3, <1>k DEF AskedInv
<1>13. ASSUME NEW r \in Readers, ClearAsked(r) PROVE AskedInv'
  <2>1. /\ reader[r].pc = "clear" /\ phone' = phone
        /\ reader' = [reader EXCEPT ![r] = Idle]
        /\ DOMAIN asked' = DOMAIN asked \ reader[r].done
    BY <1>13 DEF ClearAsked
  <2>2. \A m \in reader[r].done : InBook(m) BY <2>1 DEF AskedInv
  <2>3. AskedIsKept' BY <2>1, <2>2, <1>1, <1>2 DEF AskedInv, AskedIsKept, Delivered
  <2>4. \A k \in Readers : reader'[k] = reader[k] \/ reader'[k].pc # "clear" BY <2>1 DEF Inv, TypeOK, Idle
  <2> QED BY <2>3, <2>4, <1>d
<1>14. ASSUME Close PROVE AskedInv'
  <2>1. \A k \in Readers : reader'[k].pc # "clear" BY <1>14 DEF Close, Idle
  <2>2. AskedIsKept' BY <1>14, <1>k DEF Close
  <2> QED BY <2>1, <2>2, <1>d
<1>15. ASSUME UserWrites PROVE AskedInv' BY <1>15, <1>k, <1>d, UserKeeps
<1>16. ASSUME UNCHANGED vars PROVE AskedInv' BY <1>16, <1>k, <1>d DEF vars
<1> QED BY <1>4, <1>5, <1>7, <1>8, <1>9, <1>10, <1>11, <1>12, <1>13, <1>14, <1>15, <1>16
        DEF Next, Step, UserWrites

LEMMA AskedInvHolds == Spec => []AskedInv
<1>1. SmsAssumption BY SmsAssumption
<1>2. SmsAssumption /\ Init => AskedInv
  BY DEF Init, AskedInv, AskedIsKept, Delivered, Idle, SmsAssumption
<1> QED BY <1>1, <1>2, SmsInv, AskedNext, PTL DEF Spec

\* A message the phone asked about is on the phone until it is in the book,
\* whatever is killed in between (SmsAsk.java clear, AppStartup.tsx readSms).
THEOREM AskedAreKept == Spec => []AskedIsKept
<1>1. AskedInv => AskedIsKept BY DEF AskedInv
<1> QED BY <1>1, AskedInvHolds, PTL

---------------------------------------------------------------------------
(* A waiting loan takes its message *)

LEMMA LoanNext ==
  ASSUME SmsAssumption, Inv, [Next]_vars, NEW m \in book.loans \cap book'.loans, Rows(book', m) # {}
  PROVE  Rows(book, m) # {} \/ Ignored(book, m)
<1>1. m \in Msgs BY DEF Inv, TypeOK, Books, SmsAssumption
<1>2. CASE book' = book BY <1>2
<1>3. ASSUME NEW r \in Readers, QueueRead(r) \/ ApplyRead(r)
      PROVE Rows(book, m) # {} \/ Ignored(book, m)
  BY <1>3, QueueReadBook, ApplyReadBook DEF Grows, Inv
<1>4. CASE UserWrites BY <1>4, UserBookNext DEF UserBook, Inv
<1>5. book' = book \/ UserWrites \/ \E r \in Readers : QueueRead(r) \/ ApplyRead(r)
  BY DEF Next, Step, UserWrites, Deliver, SetChoice, ReadSms, ReadPhone, StoreMark, GetAsked,
         ClearAsked, Close, vars
<1> QED BY <1>2, <1>3, <1>4, <1>5

\* A loan told before its SMS came becomes that SMS's row: no read queues the
\* message beside a loan that goes on waiting (lending.ts attachSmsToLend).
THEOREM LoansTakeTheirSms == Spec => LoanTakesSms
<1>1. SmsAssumption BY SmsAssumption
<1>2. SmsAssumption /\ Inv /\ [Next]_vars
        => [\A m \in book.loans \cap book'.loans :
              Rows(book', m) # {} => Rows(book, m) # {} \/ Ignored(book, m)]_vars
  BY LoanNext
<1> QED BY <1>1, <1>2, SmsInv, PTL DEF Spec, LoanTakesSms

---------------------------------------------------------------------------
(* The mark *)

Marking(r) == reader[r].pc \in {"mark", "marks"}
Kept(m) == \/ m \in DOMAIN asked \/ InBook(m) \/ m <= phone - Limit
           \/ \E r \in Readers : m \in reader[r].got
\* what a reader holds has no gap but for what the phone did not return
Gapless(s) ==
  \A x \in s.got : \A m \in Delivered : s.since < m /\ m < x /\ m > phone - Limit => m \in s.got
\* between the mark and what a reader about to move it knows of the mark, in
\* either order, no message is lost
GapInv ==
  \A r \in Readers : Marking(r) =>
    /\ reader[r].last = 0 => reader[r].since = 0
    /\ Gapless(reader[r])
    /\ \A m \in Bank : reader[r].last < m /\ m <= mark => Kept(m)
    /\ \A m \in Bank : mark < m /\ m <= reader[r].last => Kept(m)

LEMMA BankIsMsgs == ASSUME SmsAssumption PROVE /\ Bank \subseteq Msgs /\ Msgs \subseteq Nat \ {0}
                                              /\ Limit \in Nat /\ Count \in Nat
BY DEF SmsAssumption, Msgs

LEMMA MarkStep ==
  ASSUME SmsAssumption, Inv, GapInv, NEW r \in Readers, StoreMark(r)
  PROVE  /\ \A m \in Bank : mark < m /\ m <= mark' => Kept(m)
         /\ \A m \in Bank : mark' < m /\ m <= mark => Kept(m)
<1> DEFINE newest == Largest({reader[r].since} \cup reader[r].got)
           s == reader[r]
<1>1. /\ s.since \in 0..Count /\ s.got \subseteq Delivered /\ s.last \in 0..Count
      /\ phone \in 0..Count /\ mark \in 0..Count
  BY DEF Inv, TypeOK
<1>2. newest \in {s.since} \cup s.got
  <2>1. {s.since} \cup s.got \in SUBSET (0..Count) BY <1>1, BankIsMsgs DEF Delivered
  <2> QED BY <2>1, LargestIn, BankIsMsgs
<1>3. Marking(r) /\ mark' = IF KeepsMark(r, newest) THEN mark ELSE newest BY DEF StoreMark, Marking
<1> HIDE DEF newest
<1>4. CASE KeepsMark(r, newest)
  <2>1. \A m \in Bank : ~(mark < m /\ m <= mark') /\ ~(mark' < m /\ m <= mark)
    BY <1>1, <1>3, <1>4, BankIsMsgs
  <2> QED BY <2>1
<1>5. CASE ~KeepsMark(r, newest)
  <2>0. newest \in Nat BY <1>1, <1>2, BankIsMsgs DEF Delivered
  <2>1. mark' = newest /\ (s.last = 0 \/ (s.since <= s.last /\ newest > s.last))
    BY <1>1, <1>3, <1>5, <2>0 DEF KeepsMark
  <2>2. /\ s.last = 0 => s.since = 0 
        /\ Gapless(s)
        /\ \A m \in Bank : s.last < m /\ m <= mark => Kept(m)
        /\ \A m \in Bank : mark < m /\ m <= s.last => Kept(m)
    BY <1>3 DEF GapInv
  <2>3. ASSUME NEW m \in Bank, mark < m, m <= mark' PROVE Kept(m)
    <3>0. m \in Nat /\ m > 0 BY BankIsMsgs
    <3>1. CASE m <= s.last BY <3>1, <2>2, <2>3
    <3>2. CASE m > s.last
      <4>1. m > s.since BY <3>0, <3>2, <2>1, <2>2, <1>1
      <4>2. newest \in s.got /\ m <= newest BY <4>1, <2>1, <2>3, <1>1, <1>2, <3>0
      <4>3. m \in Delivered BY <4>2, <1>1, <3>0 DEF Delivered
      <4>4. m <= phone - Limit \/ m > phone - Limit BY <1>1, <3>0, BankIsMsgs
      <4>5. m = newest \/ m < newest BY <4>2, <2>0, <3>0
      <4>6. m <= phone - Limit \/ m \in s.got BY <4>1, <4>2, <4>3, <4>4, <4>5, <2>2 DEF Gapless
      <4> QED BY <4>6 DEF Kept
    <3> QED BY <3>0, <3>1, <3>2, <1>1
  <2>4. ASSUME NEW m \in Bank, mark' < m, m <= mark PROVE Kept(m)
    <3>1. m \in Nat /\ m > 0 BY BankIsMsgs
    <3>2. s.last < m BY <3>1, <2>0, <2>1, <2>4, <1>1
    <3> QED BY <3>2, <2>2, <2>4
  <2> QED BY <2>3, <2>4
<1> QED BY <1>4, <1>5

\* but for a kill, what is kept stays kept
LEMMA KeptStays ==
  ASSUME SmsAssumption, Inv, AskedInv, [Next]_vars, ~Close
  PROVE  \A m \in Bank : Kept(m) => Kept(m)'
<1> SUFFICES ASSUME NEW m \in Bank, Kept(m) PROVE Kept(m)'
  OBVIOUS
<1> USE SmsAssumption
<1>0. m \in Msgs /\ m \in Nat /\ phone \in Nat /\ Limit \in Nat
  BY BankIsMsgs DEF Inv, TypeOK, SmsAssumption
<1>1. InBook(m) => InBook(m)' BY <1>0, BookKeeps
<1>2. CASE InBook(m) BY <1>1, <1>2 DEF Kept
<1>3. phone' = phone \/ phone' = phone + 1
    BY DEF Next, Step, BookLendWithSms, CommitStaged, DismissStaged, UndismissSms, UserStep, Deliver,
           SetChoice, ReadSms, ReadPhone, StoreMark, QueueRead, GetAsked, ApplyRead, ClearAsked, Close, vars
<1>4. CASE m <= phone - Limit
  <2> DEFINE p == phone
             q == phone'
  <2>0. p \in Nat /\ (q = p \/ q = p + 1) /\ m <= p - Limit BY <1>4, <1>3, <1>0
  <2> HIDE DEF p, q
  <2>2. m <= q - Limit BY <2>0, <1>0
  <2>1. m <= phone' - Limit BY <2>2 DEF q
  <2> QED BY <2>1 DEF Kept
<1>5. CASE m \in DOMAIN asked
  <2>1. DOMAIN asked \subseteq DOMAIN asked' \/ \E r \in Readers : ClearAsked(r)
    BY DEF Next, Step, BookLendWithSms, CommitStaged, DismissStaged, UndismissSms, UserStep, Deliver,
           SetChoice, ReadSms, ReadPhone, StoreMark, QueueRead, GetAsked, ApplyRead, Close, vars, Inv, TypeOK
  <2>2. ASSUME NEW r \in Readers, ClearAsked(r) PROVE m \in DOMAIN asked' \/ InBook(m)
    <3>1. reader[r].pc = "clear" /\ DOMAIN asked' = DOMAIN asked \ reader[r].done BY <2>2 DEF ClearAsked
    <3> QED BY <3>1, <1>5 DEF AskedInv
  <2> QED BY <2>1, <2>2, <1>1, <1>5 DEF Kept
<1>6. ASSUME NEW k \in Readers, m \in reader[k].got PROVE Kept(m)'
  <2>0. /\ reader[k].pc # "idle" /\ reader[k].pc # "clear" /\ reader \in [Readers -> Held]
    BY <1>6 DEF Inv, TypeOK, Idle, Held
  <2>1. CASE reader'[k].got = reader[k].got BY <2>1, <1>6 DEF Kept
  <2>2. ASSUME NEW r \in Readers, QueueRead(r) \/ ApplyRead(r) PROVE Kept(m)'
    <3>1. CASE r = k
      <4>1. Holds(book', m) BY <3>1, <2>2, <1>6, QueueReadBook, ApplyReadBook DEF Inv
      <4> QED BY <4>1 DEF Holds, InBook, Kept
    <3>2. CASE r # k
      <4>1. reader'[k] = reader[k] BY <3>2, <2>0, <2>2 DEF QueueRead, ApplyRead
      <4> QED BY <4>1, <2>1
    <3> QED BY <3>1, <3>2
  <2>3. ASSUME NEW r \in Readers, StoreMark(r) PROVE Kept(m)'
    <3>1. reader'[k].got = reader[k].got \/ reader'[k].got = reader[k].got \cap Bank
      BY <2>0, <2>3 DEF StoreMark, Idle
    <3> QED BY <3>1, <1>6 DEF Kept
  <2>4. ASSUME NEW r \in Readers, GetAsked(r) PROVE reader'[k].got = reader[k].got
    BY <2>0, <2>4 DEF GetAsked, Held
  <2>5. ASSUME NEW r \in Readers, ClearAsked(r) PROVE reader'[k].got = reader[k].got
    BY <2>0, <2>5 DEF ClearAsked
  <2>6. ASSUME NEW r \in Polls, ReadSms(r) PROVE reader'[k].got = reader[k].got
    BY <2>0, <2>6 DEF ReadSms
  <2>7. ASSUME NEW r \in Pages, NEW w, ReadPhone(r, w) PROVE reader'[k].got = reader[k].got
    BY <2>0, <2>7 DEF ReadPhone
  <2>8. UserWrites => UNCHANGED reader BY UserKeeps
  <2> QED BY <2>1, <2>2, <2>3, <2>4, <2>5, <2>6, <2>7, <2>8
          DEF Next, Step, UserWrites, Deliver, SetChoice, vars
<1> QED BY <1>2, <1>4, <1>5, <1>6 DEF Kept

LEMMA GapNext ==
  SmsAssumption /\ ~FirstByHand /\ Inv /\ AskedInv /\ GapInv /\ [Next]_vars => GapInv'
<1> SUFFICES ASSUME SmsAssumption, ~FirstByHand, Inv, AskedInv, GapInv, [Next]_vars PROVE GapInv'
  OBVIOUS
<1> USE SmsAssumption
<1>0. /\ reader \in [Readers -> Held] /\ phone \in Nat /\ mark \in Nat /\ Limit \in Nat
      /\ \A m \in Bank : m \in Nat /\ m > 0
  BY BankIsMsgs DEF Inv, TypeOK, Held, SmsAssumption
<1>1. CASE Close
  <2>1. \A r \in Readers : reader'[r].pc = "idle" BY <1>1 DEF Close, Idle
  <2> QED BY <2>1 DEF GapInv, Marking
<1>2. ASSUME ~Close PROVE \A m \in Bank : Kept(m) => Kept(m)' BY <1>2, KeptStays
\* a reader that goes on marking has not changed, and the phone returns no more
<1>3. ASSUME ~Close, mark' = mark, NEW r \in Readers, Marking(r)', reader'[r] = reader[r],
             phone' = phone \/ phone' = phone + 1
      PROVE  /\ reader'[r].last = 0 => reader'[r].since = 0
             /\ Gapless(reader[r])'
             /\ \A m \in Bank : reader'[r].last < m /\ m <= mark' => Kept(m)'
             /\ \A m \in Bank : mark' < m /\ m <= reader'[r].last => Kept(m)'
  <2>1. Marking(r) BY <1>3 DEF Marking
  <2>2. Gapless(reader[r])'
    <3>1. Gapless(reader[r]) BY <2>1 DEF GapInv
    <3>2. reader[r].got \subseteq Delivered BY DEF Inv, TypeOK
    <3>3. ASSUME NEW x \in reader[r].got, NEW m \in Delivered', m < x, m > phone' - Limit
          PROVE  m \in Delivered /\ m > phone - Limit
      BY <3>2, <3>3, <1>0, <1>3 DEF Delivered
    <3> QED BY <3>1, <3>3, <1>3 DEF Gapless
  <2> QED BY <2>1, <2>2, <1>2, <1>3 DEF GapInv
<1>4. ASSUME ~Close, mark' = mark, phone' = phone \/ phone' = phone + 1,
             \A r \in Readers : reader'[r] = reader[r] \/ reader'[r].pc \notin {"mark", "marks"}
      PROVE  GapInv'
  <2> SUFFICES ASSUME NEW r \in Readers, Marking(r)'
               PROVE  /\ reader'[r].last = 0 => reader'[r].since = 0
                      /\ Gapless(reader[r])'
                      /\ \A m \in Bank : reader'[r].last < m /\ m <= mark' => Kept(m)'
                      /\ \A m \in Bank : mark' < m /\ m <= reader'[r].last => Kept(m)'
    BY DEF GapInv
  <2>1. reader'[r] = reader[r] BY <1>4 DEF Marking
  <2> QED BY <2>1, <1>3, <1>4
\* a new reader starts at the mark
<1>5. ASSUME ~Close, mark' = mark, phone' = phone, NEW k \in Readers, NEW u \in Nat,
             reader'[k].last = mark, reader'[k].since \in Nat, mark = 0 => reader'[k].since = 0,
             reader'[k].got = {m \in Inbox(reader'[k].since) : m <= u}, 
             \A r \in Readers : r # k => reader'[r] = reader[r]
      PROVE  GapInv'
  <2> SUFFICES ASSUME NEW r \in Readers, Marking(r)'
               PROVE  /\ reader'[r].last = 0 => reader'[r].since = 0
                      /\ Gapless(reader[r])'
                      /\ \A m \in Bank : reader'[r].last < m /\ m <= mark' => Kept(m)'
                      /\ \A m \in Bank : mark' < m /\ m <= reader'[r].last => Kept(m)'
    BY DEF GapInv
  <2>1. CASE r # k BY <2>1, <1>3, <1>5
  <2>2. CASE r = k
    <3>1. Gapless(reader[r])'
      <4>1. /\ reader'[r].got = {m \in Delivered : m > reader'[r].since /\ m > phone - Limit /\ m <= u}
            /\ Delivered' = Delivered
        BY <2>2, <1>5 DEF Inbox, Delivered
      <4>2. Delivered \subseteq Nat BY DEF Delivered
      <4>3. ASSUME NEW x \in reader'[r].got, NEW m \in Delivered',
                   reader'[r].since < m, m < x, m > phone' - Limit
            PROVE  m \in reader'[r].got
        <5>1. m \in Delivered /\ m \in Nat /\ x \in Nat /\ x <= u BY <4>1, <4>2
        <5>2. m <= u BY <5>1, <4>3
        <5> QED BY <5>1, <5>2, <4>1, <4>3, <2>2, <1>5
      <4> QED BY <4>3 DEF Gapless
    <3>2. \A m \in Bank : ~(reader'[r].last < m /\ m <= mark') /\ ~(mark' < m /\ m <= reader'[r].last)
      BY <2>2, <1>0, <1>5
    <3> QED BY <3>1, <3>2, <2>2, <1>5
  <2> QED BY <2>1, <2>2
<1>6. ASSUME NEW k \in Polls, ReadSms(k) PROVE GapInv'
  <2> DEFINE s == [Idle EXCEPT !.pc = "mark", !.last = mark, !.since = mark, !.got = Inbox(mark)]
  <2>1. /\ k \in Readers /\ reader[k].pc = "idle" /\ reader' = [reader EXCEPT ![k] = s]
        /\ UNCHANGED <<phone, asked, mark, book, closes>>
    BY <1>6 DEF ReadSms, Readers
  <2>2. s.last = mark /\ s.since = mark /\ s.got = Inbox(mark) /\ s.pc = "mark" BY DEF Idle
  <2>3. Inbox(mark) = {m \in Inbox(mark) : m <= phone} BY <1>0 DEF Inbox, Delivered
  <2> HIDE DEF s
  <2>4. reader'[k] = s /\ \A r \in Readers : r # k => reader'[r] = reader[r] BY <2>1, <1>0
  <2>5. ~Close BY <2>2, <2>4, <2>1 DEF Close, Idle
  <2> QED BY <2>1, <2>2, <2>3, <2>4, <2>5, <1>0, <1>5
<1>7. ASSUME NEW k \in Pages, NEW w \in (0..Count) \X (0..Count), mark = 0 => w[1] = 0, ReadPhone(k, w)
      PROVE  GapInv'
  <2> DEFINE got == {m \in Inbox(w[1]) : m <= w[2]}
             s == [Idle EXCEPT !.pc = "marks", !.last = mark, !.since = w[1], !.got = got]
  <2>0. w[1] \in Nat /\ w[2] \in Nat BY SMT
  <2>1. /\ k \in Readers /\ reader[k].pc = "idle" /\ reader' = [reader EXCEPT ![k] = s]
        /\ UNCHANGED <<phone, asked, mark, book, closes>>
    BY <1>7 DEF ReadPhone, Readers
  <2> HIDE DEF got
  <2>2. s.last = mark /\ s.since = w[1] /\ s.got = got /\ s.pc = "marks" BY DEF Idle
  <2> HIDE DEF s
  <2>4. reader'[k] = s /\ \A r \in Readers : r # k => reader'[r] = reader[r] BY <2>1, <1>0
  <2>5. ~Close BY <2>2, <2>4, <2>1 DEF Close, Idle
  <2>6. reader'[k].got = {m \in Inbox(reader'[k].since) : m <= w[2]} BY <2>2, <2>4 DEF got
  <2> QED BY <2>0, <2>1, <2>2, <2>4, <2>5, <2>6, <1>0, <1>5, <1>7
<1>8. ASSUME NEW k \in Readers, StoreMark(k) PROVE GapInv'
  <2> DEFINE s == [Idle EXCEPT !.got = reader[k].got \cap Bank,
                     !.pc = IF reader[k].pc = "mark" THEN "asked" ELSE "queue"]
  <2>1. /\ reader[k].pc \in {"mark", "marks"} /\ reader' = [reader EXCEPT ![k] = s] 
        /\ UNCHANGED <<phone, asked, book, closes>>
    BY <1>8 DEF StoreMark
  <2>2. s.pc \in {"asked", "queue"} BY DEF Idle
  <2> HIDE DEF s
  <2>3. reader'[k] = s /\ \A r \in Readers : r # k => reader'[r] = reader[r] BY <2>1, <1>0
  <2>4. ~Close BY <2>2, <2>3 DEF Close, Idle
  <2>5. /\ \A m \in Bank : mark < m /\ m <= mark' => Kept(m)
        /\ \A m \in Bank : mark' < m /\ m <= mark => Kept(m)
    BY <1>8, MarkStep
  <2>6. mark' \in Nat BY SmsNext DEF Inv, TypeOK, SmsAssumption
  <2> SUFFICES ASSUME NEW r \in Readers, Marking(r)'
               PROVE  /\ reader'[r].last = 0 => reader'[r].since = 0
                      /\ Gapless(reader[r])'
                      /\ \A m \in Bank : reader'[r].last < m /\ m <= mark' => Kept(m)'
                      /\ \A m \in Bank : mark' < m /\ m <= reader'[r].last => Kept(m)'
    BY DEF GapInv
  <2>7. r # k /\ reader'[r] = reader[r] /\ Marking(r) BY <2>2, <2>3 DEF Marking
  <2>8. Gapless(reader[r])' BY <2>1, <2>7 DEF GapInv, Gapless, Delivered
  <2>9. reader[r].last \in Nat BY DEF Inv, TypeOK, SmsAssumption
  <2>10. ASSUME NEW m \in Bank, reader'[r].last < m /\ m <= mark' PROVE Kept(m)'
    <3>1. m <= mark \/ mark < m BY <1>0
    <3>2. Kept(m) BY <3>1, <2>5, <2>7, <2>10 DEF GapInv
    <3> QED BY <3>2, <2>4, <1>2
  <2>11. ASSUME NEW m \in Bank, mark' < m /\ m <= reader'[r].last PROVE Kept(m)'
    <3>1. m <= mark \/ mark < m BY <1>0
    <3>2. Kept(m) BY <3>1, <2>5, <2>7, <2>11 DEF GapInv
    <3> QED BY <3>2, <2>4, <1>2
  <2>12. reader'[r].last = 0 => reader'[r].since = 0 BY <2>7 DEF GapInv
  <2> QED BY <2>8, <2>10, <2>11, <2>12
\* the other steps of a reader end its reading
<1>9. ASSUME NEW k \in Readers, QueueRead(k) \/ ApplyRead(k) \/ ClearAsked(k) \/ GetAsked(k) PROVE GapInv'
  <2>1. UNCHANGED <<phone, mark, closes>>
    BY <1>9 DEF QueueRead, ApplyRead, ClearAsked, GetAsked
  <2>2. \A r \in Readers : reader'[r] = reader[r] \/ reader'[r].pc \notin {"mark", "marks"}
    <3>1. \A r \in Readers : r # k => reader'[r] = reader[r]
      BY <1>0, <1>9 DEF QueueRead, ApplyRead, ClearAsked, GetAsked
    <3>2. GetAsked(k) => reader'[k].pc = "apply" BY <1>0 DEF GetAsked, Held
    <3>3. QueueRead(k) \/ ClearAsked(k) => reader'[k] = Idle BY <1>0 DEF QueueRead, ClearAsked
    <3>4. ASSUME ApplyRead(k) PROVE reader'[k].pc = "clear"
      <4> DEFINE gone == AskedDone(AskedBook(book, reader[k].items), reader[k].items)
      <4>1. reader' = [reader EXCEPT ![k] = [Idle EXCEPT !.pc = "clear", !.done = gone]]
        BY <3>4 DEF ApplyRead
      <4> HIDE DEF gone
      <4>2. reader'[k] = [Idle EXCEPT !.pc = "clear", !.done = gone] BY <4>1, <1>0
      <4> QED BY <4>2 DEF Idle
    <3>5. QueueRead(k) \/ ApplyRead(k) \/ ClearAsked(k) => reader'[k].pc \in {"idle", "clear"}
      BY <3>3, <3>4 DEF Idle
    <3> QED BY <3>1, <3>2, <3>5, <1>9
  <2> QED BY <2>1, <2>2, <1>1, <1>4
<1>10. ASSUME UserWrites \/ UNCHANGED vars \/ \E m \in Msgs : Deliver(m) \/ SetChoice(m) PROVE GapInv'
  <2>1. mark' = mark /\ reader' = reader /\ (phone' = phone \/ phone' = phone + 1)
    BY <1>10, UserKeeps DEF Deliver, SetChoice, vars
  <2> QED BY <2>1, <1>1, <1>4
<1>11. <<mark, Count>> \in (0..Count) \X (0..Count) /\ <<mark, Count>>[1] = mark
  BY DEF Inv, TypeOK, SmsAssumption
<1>12. \A w \in Windows : w \in (0..Count) \X (0..Count) BY DEF SmsAssumption
<1> QED BY <1>1, <1>6, <1>7, <1>8, <1>9, <1>10, <1>11, <1>12 DEF Next, Step, UserWrites

LEMMA GapHolds == ~FirstByHand => (Spec => []GapInv)
<1>1. SmsAssumption BY SmsAssumption
<1> SUFFICES ASSUME ~FirstByHand PROVE Spec => []GapInv OBVIOUS
<1>2. Init => GapInv BY DEF Init, GapInv, Marking, Idle
<1>3. Inv /\ AskedInv /\ GapInv /\ [Next]_vars => GapInv' BY <1>1, GapNext
<1> QED BY <1>2, <1>3, SmsInv, AskedInvHolds, PTL DEF Spec

\* The mark of what was read moves past nothing that is neither held by a reader
\* nor in the book nor asked about nor cut off a read - unless the very first
\* read is of a chosen range (phone-sms.ts readInbox).
THEOREM NoGap == ~FirstByHand => (Spec => MarkLeavesNoGap)
<1>1. SmsAssumption BY SmsAssumption
<1>2. SmsAssumption /\ Inv /\ GapInv /\ [Next]_vars
        => [\A m \in Bank \cap (mark + 1..mark') :
              \/ m \in DOMAIN asked \/ InBook(m) \/ m <= phone - Limit
              \/ \E r \in Readers : m \in reader[r].got]_vars
  <2> SUFFICES ASSUME SmsAssumption, Inv, GapInv, [Next]_vars, NEW m \in Bank, m \in mark + 1..mark'
               PROVE  Kept(m)
    BY DEF Kept
  <2>1. mark < m /\ m <= mark' /\ mark' # mark
    <3>1. mark \in Nat /\ m \in Nat BY BankIsMsgs DEF Inv, TypeOK, SmsAssumption
    <3>2. mark' \in Nat BY SmsNext DEF Inv, TypeOK, SmsAssumption
    <3> QED BY <3>1, <3>2
  <2>2. mark' = mark \/ \E r \in Readers : StoreMark(r)
    BY DEF Next, Step, BookLendWithSms, CommitStaged, DismissStaged, UndismissSms, UserStep, Deliver,
           SetChoice, ReadSms, ReadPhone, QueueRead, GetAsked, ApplyRead, ClearAsked, Close, vars
  <2> QED BY <2>1, <2>2, MarkStep
<1> QED BY <1>1, <1>2, SmsInv, GapHolds, PTL DEF Spec, MarkLeavesNoGap
=============================================================================
