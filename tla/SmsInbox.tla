------------------------------ MODULE SmsInbox ------------------------------
(* From the bank's SMS to a row of the book (rules 45, 88, 99): the phone    *)
(* keeps every message, and - when it may - a question about each bank       *)
(* message as it arrives; the app reads both, in overlapping readers that    *)
(* can be killed between any two awaits, and queues each message once.       *)
(* A message is its place in the order of receipt: two texts that sameSms    *)
(* takes for one are one message.  Balance announcements and the expiry of   *)
(* the questions (14 days, 300 records) are left out.                        *)
EXTENDS Integers, FiniteSets

CONSTANTS Count,      \* messages that may arrive
          Bank,       \* those the parser reads as a transaction
          Asking,     \* those the receiver gets to ask about
          Linked,     \* those of a card linked to an account
          Polls,      \* calls of readSms that may overlap
          Pages,      \* calls of readPhone, from «ورود از بانک»
          Windows,    \* ranges <<since, until>> the user may read by hand
          FirstByHand,\* may the very first read be a chosen range
          Limit,      \* messages one read of the phone returns
          MaxCloses   \* times the app is killed

Msgs == 1..Count
Readers == Polls \cup Pages

ASSUME SmsAssumption == /\ Count \in Nat /\ Bank \subseteq Msgs
                        /\ Asking \subseteq Bank /\ Linked \subseteq Bank
                        /\ Windows \subseteq (0..Count) \X (0..Count)
                        /\ FirstByHand \in BOOLEAN
                        /\ Limit \in Nat \ {0} /\ MaxCloses \in Nat

VARIABLES phone,      \* messages the phone has received so far
          asked,      \* the questions: message -> has it been answered
          mark,       \* PHONE_READ_KEY: the newest message read; 0 = never read
          book,       \* queue, booked, dismissed, loans of FinanceData
          reader,     \* what each call under way holds
          closes

vars == <<phone, asked, mark, book, reader, closes>>

Copies == {"inbox", "asked"}        \* the two row ids one message can get
Idle == [pc |-> "idle", last |-> 0, since |-> 0, got |-> {}, items |-> {}, done |-> {}]
Largest(S) == CHOOSE x \in S : \A y \in S : y <= x
Delivered == 1..phone

Books == [queue : SUBSET (Msgs \X Copies), dismissed : SUBSET (Msgs \X Copies),
          loans : SUBSET Linked, booked : [Msgs -> Nat]]
Steps == {"idle", "mark", "marks", "queue", "asked", "apply", "clear"}
TypeOK ==
  /\ phone \in 0..Count /\ mark \in 0..Count /\ closes \in 0..MaxCloses
  /\ asked \in [DOMAIN asked -> BOOLEAN] /\ DOMAIN asked \subseteq Asking
  /\ book \in Books
  /\ reader \in [Readers -> [pc : Steps, last : 0..Count, since : 0..Count, got : SUBSET Delivered,
                             items : SUBSET (Msgs \X BOOLEAN), done : SUBSET Msgs]]
  /\ \A r \in Readers :
       /\ reader[r].pc = "idle" => reader[r] = Idle
       /\ reader[r].pc = "clear" => reader[r].got = {}

Init ==
  /\ phone = 0 /\ asked = <<>> /\ mark = 0 /\ closes = 0
  /\ book = [queue |-> {}, dismissed |-> {}, loans |-> {},
             booked |-> [m \in Msgs |-> 0]]
  /\ reader = [r \in Readers |-> Idle]

---------------------------------------------------------------------------
(* The book *)

Rows(b, m) == {q \in b.queue : q[1] = m}
Ignored(b, m) == \E q \in b.dismissed : q[1] = m
Seen(b, m) == Rows(b, m) # {} \/ b.booked[m] > 0
Book(b, S) == [b EXCEPT !.queue = @ \ S,
                 !.booked = [m \in Msgs |-> @[m] + Cardinality(Rows(b, m) \cap S)]]

\* attachSmsToLend: the loan told before its SMS came becomes that SMS's row
NoLoan(b, rows) == {}
Attached(b, rows) == {q \in rows : q[1] \in b.loans}
EachCopy(b, rows) == [b EXCEPT !.queue = @ \cup rows]
QueueSms(b, rows) ==
  LET fresh == {q \in rows : ~Seen(b, q[1]) /\ ~Ignored(b, q[1])}
      took  == Attached(b, fresh)
      whose == {q[1] : q \in took}
  IN [b EXCEPT !.queue = @ \cup (fresh \ took), !.loans = @ \ whose,
               !.booked = [m \in Msgs |-> @[m] + IF m \in whose THEN 1 ELSE 0]]

\* items: pairs <<message, answered>>
OnlyTheRead(b, items) == b
AskedBook(b, items) ==
  QueueSms(b, {<<it[1], "asked">> : it \in {i \in items : ~Seen(b, i[1])}})
AskedDone(b, items) ==
  {it[1] : it \in {i \in items : \/ b.booked[i[1]] > 0
                                 \/ i[2] /\ Rows(b, i[1]) # {}}}
AskedBooked(b, items) ==
  Book(b, {q \in b.queue : q[1] \in Linked /\ <<q[1], TRUE>> \in items})

---------------------------------------------------------------------------
(* The phone *)

Deliver(m) ==
  /\ m = phone + 1
  /\ phone' = m
  /\ asked' = IF m \in Asking
              THEN [k \in DOMAIN asked \cup {m} |-> k # m /\ asked[k]] ELSE asked
  /\ UNCHANGED <<mark, book, reader, closes>>

AnswerAny(m) ==
  /\ m \in Delivered
  /\ asked' = [k \in DOMAIN asked \cup {m} |-> k = m \/ asked[k]]
  /\ UNCHANGED <<phone, mark, book, reader, closes>>
SetChoice(m) ==
  /\ m \in DOMAIN asked /\ ~asked[m]
  /\ asked' = [asked EXCEPT ![m] = TRUE]
  /\ UNCHANGED <<phone, mark, book, reader, closes>>

---------------------------------------------------------------------------
(* The readers *)

\* the native read: the newest Limit messages after since
Inbox(since) == {m \in Delivered : m > since /\ m > phone - Limit}

ReadSms(r) ==
  /\ reader[r].pc = "idle"
  /\ reader' = [reader EXCEPT ![r] = [Idle EXCEPT !.pc = "mark", !.last = mark,
                  !.since = mark, !.got = Inbox(mark)]]
  /\ UNCHANGED <<phone, asked, mark, book, closes>>

\* a chosen range <<since, until>> of the phone, or all that is newer than the mark
ReadPhone(r, w) ==
  /\ reader[r].pc = "idle" /\ w[1] <= phone
  /\ reader' = [reader EXCEPT ![r] = [Idle EXCEPT !.pc = "marks", !.last = mark,
                  !.since = w[1], !.got = {m \in Inbox(w[1]) : m <= w[2]}]]
  /\ UNCHANGED <<phone, asked, mark, book, closes>>

OnlyForward(r, newest) == reader[r].last # 0 /\ newest <= reader[r].last
KeepsMark(r, newest) ==
  reader[r].last # 0 /\ (reader[r].since > reader[r].last \/ newest <= reader[r].last)
StoreMark(r) ==
  LET newest == Largest({reader[r].since} \cup reader[r].got) IN
  /\ reader[r].pc \in {"mark", "marks"}
  /\ mark' = IF KeepsMark(r, newest) THEN mark ELSE newest
  /\ reader' = [reader EXCEPT ![r] = [Idle EXCEPT !.got = reader[r].got \cap Bank,
                  !.pc = IF reader[r].pc = "mark" THEN "asked" ELSE "queue"]]
  /\ UNCHANGED <<phone, asked, book, closes>>

InboxRows(r) == reader[r].got \X {"inbox"}

QueueRead(r) ==
  /\ reader[r].pc = "queue"
  /\ book' = QueueSms(book, InboxRows(r))
  /\ reader' = [reader EXCEPT ![r] = Idle]
  /\ UNCHANGED <<phone, asked, mark, closes>>

GetAsked(r) ==
  /\ reader[r].pc = "asked"
  /\ reader' = [reader EXCEPT ![r].pc = "apply",
                  ![r].items = {<<m, asked[m]>> : m \in DOMAIN asked}]
  /\ UNCHANGED <<phone, asked, mark, book, closes>>

ApplyRead(r) ==
  /\ reader[r].pc = "apply"
  /\ \E asks \in {AskedBook(book, reader[r].items)} :
       \E told \in {AskedBooked(asks, reader[r].items)} :
         /\ book' = QueueSms(told, InboxRows(r))
         /\ reader' = [reader EXCEPT ![r] = [Idle EXCEPT !.pc = "clear",
                         !.done = AskedDone(asks, reader[r].items)]]
  /\ UNCHANGED <<phone, asked, mark, closes>>

ForgetAsked(r) ==
  /\ reader[r].pc = "clear"
  /\ asked' = <<>>
  /\ reader' = [reader EXCEPT ![r] = Idle]
  /\ UNCHANGED <<phone, mark, book, closes>>
ClearAsked(r) ==
  /\ reader[r].pc = "clear"
  /\ asked' = [m \in DOMAIN asked \ reader[r].done |-> asked[m]]
  /\ reader' = [reader EXCEPT ![r] = Idle]
  /\ UNCHANGED <<phone, mark, book, closes>>

Close ==
  /\ closes < MaxCloses
  /\ closes' = closes + 1
  /\ reader' = [r \in Readers |-> Idle]
  /\ UNCHANGED <<phone, asked, mark, book>>

---------------------------------------------------------------------------
(* The user *)

UserStep(b) == book' = b /\ UNCHANGED <<phone, asked, mark, reader, closes>>

CommitStaged(q) == q \in book.queue /\ UserStep(Book(book, {q}))

DismissStaged(q) ==
  /\ q \in book.queue
  /\ UserStep([book EXCEPT !.queue = @ \ {q},
       !.dismissed = IF Ignored(book, q[1]) THEN @ ELSE @ \cup {q}])

UndismissSms(q) ==
  /\ q \in book.dismissed
  /\ UserStep([book EXCEPT !.dismissed = @ \ {q}, !.queue = @ \cup {q}])

\* the loan takes the queued row or the booked one of the same money, else waits
BookLendWithSms(m) ==
  /\ m \in Linked \ book.loans
  /\ \/ Rows(book, m) # {} /\ \E q \in Rows(book, m) : UserStep(Book(book, {q}))
     \/ ~Seen(book, m) /\ UserStep([book EXCEPT !.loans = @ \cup {m}])

---------------------------------------------------------------------------
Step(r) == StoreMark(r) \/ QueueRead(r) \/ GetAsked(r) \/ ApplyRead(r) \/ ClearAsked(r)
Next ==
  \/ \E m \in Msgs : Deliver(m) \/ SetChoice(m) \/ BookLendWithSms(m)
  \/ \E r \in Polls : ReadSms(r)
  \/ \E r \in Pages : ReadPhone(r, <<mark, Count>>)
  \/ \E r \in Pages, w \in Windows : (mark # 0 \/ FirstByHand) /\ ReadPhone(r, w)
  \/ \E r \in Readers : Step(r)
  \/ \E q \in book.queue : CommitStaged(q) \/ DismissStaged(q)
  \/ \E q \in book.dismissed : UndismissSms(q)
  \/ Close

Spec == Init /\ [][Next]_vars
\* the app polls every 30 s while it is open, and a call that was answered goes on
FairSpec == Spec /\ \A r \in Readers : WF_vars(Step(r) \/ (r \in Polls /\ ReadSms(r)))

---------------------------------------------------------------------------
(* Properties *)

\* One message is one row: queued, booked or ignored, never two of them at
\* once, whichever copy came first and however the readers overlapped - and an
\* SMS the user ignored stays away (sources.ts seenSms, rule 99).
MoneyOnce ==
  \A m \in Msgs : Cardinality(Rows(book, m)) + book.booked[m]
                    + Cardinality({q \in book.dismissed : q[1] = m}) <= 1

InBook(m) == Seen(book, m) \/ Ignored(book, m)

\* A message the phone asked about is on the phone until it is in the book: no
\* kill between the mark, the update and clearAsked loses it.
AskedIsKept == \A m \in Delivered \cap Asking : m \in DOMAIN asked \/ InBook(m)

\* «the mark moves only over a stretch read without a gap»: what a reader moves
\* it past is in some reader's hands, in the book, or still asked about, unless
\* it was among the oldest of more messages than one read returns (phone-sms.ts
\* readInbox, `limit`) - as long as the very first read is no chosen range.
MarkLeavesNoGap ==
  [][\A m \in Bank \cap (mark + 1..mark') :
       \/ m \in DOMAIN asked \/ InBook(m) \/ m <= phone - Limit
       \/ \E r \in Readers : m \in reader[r].got]_vars

\* A loan told before its SMS came takes that SMS: no read puts the message in
\* the queue beside the loan; only the user brings an ignored one back.
LoanTakesSms ==
  [][\A m \in book.loans \cap book'.loans :
       Rows(book', m) # {} => Rows(book, m) # {} \/ Ignored(book, m)]_vars

\* Every bank message the phone asked about reaches the book, whatever was
\* lost of the reads.
Arrives == \A m \in Asking : m \in Delivered ~> InBook(m)
=============================================================================
