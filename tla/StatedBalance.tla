--------------------------- MODULE StatedBalance ---------------------------
(* The balance of a bank account (finance/balance.ts): the bank's newest      *)
(* statement and what was booked after it, and the month's check of the book  *)
(* against that statement.  The messages of the account's card come through   *)
(* finance/sources.ts.  One account with one card; minutes are numbers, and   *)
(* the account is the user's own (no exchange wallet).  A message has two     *)
(* times: the minute it tells of, which a row of it is booked at, and the     *)
(* minute it was received, which its balance is dated by.                     *)
EXTENDS Integers, SequencesExt, FiniteSetsExt, Functions

CONSTANTS Messages,     \* what each of the bank's messages may be: what it
                        \* adds and its kind
          Opening,      \* the balance the account really started with
          Minutes,      \* the last minute
          DayLength,    \* minutes of a day
          MonthStart,   \* the first minute of the second month, a day's first
          LogMax,       \* statements kept, LOG_MAX
          MaxRows,      \* rows of the book
          Apart,        \* the bank, its messages and the user take minutes of
                        \* their own
          Overtaken     \* a message may arrive after the bank's next movement

\* plain: states no balance; stated: does; unclear: does, without a direction;
\* only: a balance and no movement
Kinds == {"plain", "stated", "unclear", "only"}

ASSUME BalanceAssumption ==
  /\ Messages \in Seq(SUBSET [rial : Int, kind : Kinds]) /\ Opening \in Int
  /\ {Minutes, DayLength, MonthStart, LogMax} \subseteq Nat \ {0} /\ MaxRows \in Nat
  /\ {Apart, Overtaken} \subseteq BOOLEAN

VARIABLES now,
          bank,         \* what the bank did, at the minute its message says, and
                        \* the minute the message was got, 0 while it is on the way
          read,         \* messages the app has read
          queue,        \* the import queue
          linked, last, \* the card's account is known; its newest statement's
                        \* message, 0 for none
          rows,         \* the book's rows of this account
          opening, reported, log,       \* of the account
          typed         \* the last minute the user typed a balance

account == <<opening, reported, log>>
vars == <<now, bank, read, queue, linked, last, rows, account, typed>>

None == [at |-> 0, rial |-> 0]
Day(t) == (t - 1) \div DayLength
InMonth(t) == t >= MonthStart

Init ==
  /\ now = 0 /\ bank = <<>> /\ read = {} /\ queue = {}
  /\ linked = FALSE /\ last = 0
  /\ rows = {} /\ opening = 0
  /\ reported = None /\ log = <<>> /\ typed = 0

Moved(S) == SumFunction([i \in S |-> bank[i].rial])
\* what the bank holds after its i-th message, and now
Holds(i) == IF i = 0 THEN Opening ELSE bank[i].holds
Held == Holds(Len(bank))
Stating(i) == bank[i].kind # "plain"
Arrived(i) == bank[i].got > 0
Later == (IF Apart THEN now + 1 ELSE IF now = 0 THEN 1 ELSE now)..Minutes

---------------------------------------------------------------------------
(* The account *)

\* the log is in the order of the moments: pushed and sorted, a statement comes
\* after those of its moment; the oldest go
Logged(lg, r) ==
  LET before == {i \in DOMAIN lg : lg[i].at <= r.at}
      all == InsertAt(lg, Cardinality(before) + 1, r)
  IN IF \E i \in DOMAIN lg : lg[i] = r THEN lg
     ELSE IF Len(all) > LogMax THEN SubSeq(all, Len(all) - LogMax + 1, Len(all)) ELSE all

TheLast(rep, r) == r
Newer(rep, r) == IF rep.at <= r.at THEN r ELSE rep
AddReported(a, r) == [reported |-> Newer(a.reported, r), log |-> Logged(a.log, r)]
Account == [reported |-> reported, log |-> log]
Stated(a) == reported' = a.reported /\ log' = a.log

\* a row typed in is placed by its day, on the statement's own day by when it
\* was typed, which has seconds
BookedBy(t, R) ==
  IF Day(t.at) # Day(R.at) THEN Day(t.at) < Day(R.at)
  ELSE IF t.timed THEN t.at <= R.at ELSE t.added < R.at

Rows(S) == SumFunction([t \in S |-> t.rial])
BalanceOf ==
  IF reported = None THEN opening + Rows(rows)
  ELSE reported.rial + Rows({t \in rows : ~BookedBy(t, reported)})

---------------------------------------------------------------------------
(* The month's check *)

BeforeMonth(t) == InMonth(reported.at) /\ ~InMonth(t)
Prior ==
  LET before == {i \in DOMAIN log : BeforeMonth(log[i].at)}
  IN IF before = {} THEN None ELSE log[Max(before)]

StartRial ==
  IF Prior # None THEN Prior.rial + Rows({t \in rows : BeforeMonth(t.at) /\ ~BookedBy(t, Prior)})
  ELSE opening + Rows({t \in rows : BeforeMonth(t.at)})
BookedRial == Rows({t \in rows : ~BeforeMonth(t.at) /\ BookedBy(t, reported)})

InQueue(i) == [at |-> bank[i].at, timed |-> TRUE, added |-> 0]
AnyPending == IF linked THEN queue ELSE {}
Pending ==
  IF ~linked THEN {}
  ELSE {i \in queue : ~BeforeMonth(bank[i].at) /\ BookedBy(InQueue(i), reported)}
PendingUnknown == {i \in Pending : bank[i].kind = "unclear"}
PendingRial == Moved(Pending \ PendingUnknown)

DiffRial == reported.rial - (StartRial + BookedRial + PendingRial)
MonthCheck == reported # None
Asked == MonthCheck /\ DiffRial # 0

---------------------------------------------------------------------------
(* The bank, and the messages of the card *)

Move(t, m) ==
  /\ Overtaken \/ \A i \in DOMAIN bank : Arrived(i)
  /\ now' = t
  /\ \E got \in {0, t} :
       bank' = Append(bank, [at |-> t, got |-> got, kind |-> m.kind, rial |-> m.rial, holds |-> Held + m.rial])
  /\ UNCHANGED <<read, queue, linked, last, rows, account, typed>>

Receive(i, t) ==
  /\ ~Arrived(i)
  /\ now' = t /\ bank' = [bank EXCEPT ![i].got = t]
  /\ UNCHANGED <<read, queue, linked, last, rows, account, typed>>

\* stagedAt: a balance is of the moment its message was received, while the row
\* (InQueue, CommitStaged) has the minute the text says
StatementOf(i) == [at |-> bank[i].got, rial |-> bank[i].holds]

\* learnSources for one row, then for rows the newest first; of one read those
\* with a balance only come first.  The card keeps the newest to the
\* millisecond: of one minute messages arrive in the bank's order, and of
\* different ones the order of learning makes no difference.
Fresher(i, l) == l = 0 \/ bank[i].got > bank[l].got \/ (bank[i].got = bank[l].got /\ i > l)
Learn(s, i) ==
  IF ~Stating(i) THEN s
  ELSE [last |-> IF Fresher(i, s.last) THEN i ELSE s.last,
        account |-> IF linked THEN AddReported(s.account, StatementOf(i)) ELSE s.account]
NewestFirst(s, S) ==
  LET learnt[n \in 0..Len(bank)] ==
        IF n = 0 THEN s
        ELSE LET i == Len(bank) + 1 - n
             IN IF i \in S THEN Learn(learnt[n - 1], i) ELSE learnt[n - 1]
  IN learnt[Len(bank)]
LearnSources(S) ==
  LET balances == {i \in S : bank[i].kind = "only"}
  IN NewestFirst(NewestFirst([last |-> last, account |-> Account], balances), S \ balances)

Read(S) ==
  LET s == LearnSources(S) IN
  /\ S # {} /\ (\A i \in S : Arrived(i)) /\ read' = read \cup S
  /\ queue' = queue \cup {i \in S : bank[i].kind # "only"}
  /\ last' = s.last /\ Stated(s.account)
  /\ UNCHANGED <<now, bank, linked, rows, opening, typed>>

LinkSource ==
  /\ linked' = TRUE
  /\ Stated(IF last = 0 THEN Account ELSE AddReported(Account, StatementOf(last)))
Link ==
  /\ ~linked /\ LinkSource
  /\ UNCHANGED <<now, bank, read, queue, last, rows, opening, typed>>

---------------------------------------------------------------------------
(* The user *)

Row(at, timed, rial, of) == [at |-> at, timed |-> timed, added |-> IF timed THEN 0 ELSE now, rial |-> rial, of |-> of]
Push(row) == Cardinality(rows) < MaxRows /\ row \notin rows /\ rows' = rows \cup {row}

\* commitStaged, then learnFromCommit: the card of the row learns the account
CommitStaged(i) ==
  /\ i \in queue /\ queue' = queue \ {i}
  /\ Push(Row(bank[i].at, TRUE, bank[i].rial, i))
  /\ IF linked THEN UNCHANGED <<linked, reported, log>> ELSE LinkSource
  /\ UNCHANGED <<now, bank, read, last, opening, typed>>

DismissStaged(i) ==
  /\ i \in queue /\ queue' = queue \ {i}
  /\ UNCHANGED <<now, bank, read, linked, last, rows, account, typed>>

\* a row typed by hand for what the bank did: its day, and no time
TypeRow(i) ==
  /\ bank[i].kind # "only" /\ Push(Row(bank[i].at, FALSE, bank[i].rial, i))
  /\ UNCHANGED <<now, bank, read, queue, linked, last, account, typed>>

\* editAccount, with what the bank holds
SetCurrentBalance(t) ==
  /\ now' = t
  /\ IF reported = None
     THEN opening' = opening + Held - BalanceOf /\ UNCHANGED <<reported, log, typed>>
     ELSE /\ Stated(AddReported(Account, [at |-> t, rial |-> Held]))
          /\ typed' = t /\ UNCHANGED opening
  /\ UNCHANGED <<bank, read, queue, linked, last, rows>>

UntimedRow(R, rial) == Row(R.at, FALSE, rial, 0)
MissingRow(R, rial) == Row(R.at, TRUE, rial, 0)
BookMissing ==
  /\ UNCHANGED <<now, bank, read, queue, linked, last, account, typed>>
  /\ Asked /\ Push(MissingRow(reported, DiffRial))

FixStart ==
  /\ UNCHANGED <<now, bank, read, queue, linked, last, rows, reported, log, typed>>
  /\ Asked /\ Prior = None
  /\ opening' = opening + DiffRial

Next ==
  \/ Len(bank) < Len(Messages) /\ \E t \in Later, m \in Messages[Len(bank) + 1] : Move(t, m)
  \/ \E i \in DOMAIN bank, t \in Later : Receive(i, t)
  \/ \E S \in SUBSET (DOMAIN bank \ read) : Read(S)
  \/ Link
  \/ \E i \in queue : CommitStaged(i) \/ DismissStaged(i)
  \/ \E i \in DOMAIN bank : TypeRow(i)
  \/ \E t \in Later : SetCurrentBalance(t)
  \/ BookMissing \/ FixStart

Spec == Init /\ [][Next]_vars

---------------------------------------------------------------------------
\* the moment of the newest statement the app was given
Told == {bank[i].got : i \in {j \in read : linked /\ Stating(j)}} \cup {typed}
Newest == Max(Told)
MovedIn(a, b) == Moved({i \in DOMAIN bank : a < bank[i].at /\ bank[i].at <= b})
BookedIn(a, b) == Rows({t \in rows : a < t.at /\ t.at <= b})
\* Rows typed on a statement's own day, after it, of what it already knew: the
\* book can only place them by when they were typed.
Misplaced(R) == {t \in rows : ~t.timed /\ Day(t.at) = Day(R.at) /\ t.at <= R.at /\ t.added >= R.at}

\* The balance shown is the bank's, up to what happened after the bank's newest
\* statement and is not in the book (or twice): whatever order the messages
\* are read in, whatever was missed, ignored or booked twice before, and
\* whatever was answered to the checks (balance.ts:3-6, 75).  A message that
\* arrives after the bank's next movement breaks it (Overtaken).
ShownIsBank ==
  Newest > 0 /\ Misplaced(reported) = {} =>
    BalanceOf = Held - MovedIn(Newest, Minutes) + BookedIn(Newest, Minutes)

\* The difference the user is asked about is exactly the money of this month's
\* movements that are neither in the book nor in the queue, less what is there
\* twice: from the bank's last word before the month, or from an opening
\* balance that may be wrong (balance.ts:8-10, 132-135).  A row still queued
\* from before the month is WaitingCounts.
DiffIsMissing ==
  LET waits == {i \in queue : linked /\ bank[i].at > Prior.at /\ bank[i].at <= reported.at}
      known == {i \in waits : bank[i].kind # "unclear"}
      start == IF Prior = None THEN opening - Opening ELSE 0
  IN MonthCheck /\ Misplaced(reported) \cup Misplaced(Prior) = {} /\ known \subseteq Pending =>
       DiffRial = MovedIn(Prior.at, reported.at) - BookedIn(Prior.at, reported.at) - Moved(known) - start

\* What balance.ts:75 says of addReported: with every message read, the
\* statement kept is the bank's newest.
NewestIsKept ==
  linked /\ bank # <<>> /\ read = DOMAIN bank /\ Stating(Len(bank)) /\ typed = 0
    => reported.rial = Held

\* Either answer to a check settles it and leaves the balance shown: the missing
\* row belongs to what the bank already counted (balance.ts:214-239).
AnswersSettle ==
  [][ BookMissing \/ FixStart => ~Asked' /\ BalanceOf' = BalanceOf ]_vars

\* What balance.ts:8-9 says of the rows in the queue: they are part of what
\* should equal the bank's balance, so a book that lacks nothing else is not
\* asked about.
WaitingCounts ==
  (/\ MonthCheck /\ linked /\ opening = Opening /\ DOMAIN bank = read
   /\ \A i \in DOMAIN bank : bank[i].kind # "unclear"
   /\ {t.of : t \in rows} \cup queue = {i \in DOMAIN bank : bank[i].kind # "only"}
   /\ Cardinality(rows) + Cardinality(queue) = Cardinality({i \in DOMAIN bank : bank[i].kind # "only"})
   /\ \A t \in rows : t.timed)
    => ~Asked

\* What balance.ts:201 says of openChecks: a difference is not asked about while
\* rows of the queue wait for their direction.
UnknownIsNotAsked == Asked => PendingUnknown = {}
=============================================================================
