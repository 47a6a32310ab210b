----------------------------- MODULE OnlineShop -----------------------------
(***************************************************************************)
(* The online shop from end to end: customers, the server and the owner's  *)
(* phone (components/biz/BizSync.tsx, lib/biz/online.ts and the storage of *)
(* components/finance/FinanceProvider.tsx) with the network between them.  *)
(* The phone collects the inbox into its book, acknowledges what it        *)
(* applied and, seconds later, republishes the taken times; customers go   *)
(* on booking against whatever the server knows.                           *)
(*                                                                         *)
(* The server is the one of ShopServer at the granularity its refinement   *)
(* of Desk allows: the part of submit under the lock is one step.  The     *)
(* shop has no seats: one booking at a time.                               *)
(***************************************************************************)
EXTENDS Slots, SequencesExt

CONSTANTS
  Requests,     \* what customers send, by tracking code
  Bookings,     \* the requests that ask for a time; the others are orders
  Deleted,      \* orders whose products the owner has deleted since they were sent
  Walkins,      \* times the owner may write down
  Slot,         \* the time each booking and each walk-in takes
  MaxInbox,     \* MAX_INBOX, 500 in the code
  SeenMax,      \* ids the phone remembers as applied, 500 in the code
  Racers,       \* submits between the count of the inbox and their push at a time
  Pullers,      \* collecting calls that may be under way at a time (bound)
  Buttons,      \* those of them the owner starts by hand; the others the app starts
  MaxPosts,     \* publishes under way at a time (bound)
  NetworkFails, \* a call may fail before or after the server handled it
  StorageFails  \* localStorage may be full

ASSUME OnlineAssumption ==
  /\ Bookings \subseteq Requests /\ Deleted \subseteq Requests \ Bookings
  /\ Walkins \cap Requests = {}
  /\ Slot \in [Bookings \cup Walkins -> [startsAt : Nat, durationMin : Nat \ {0}, seatId : {NoSeat}]]
  /\ Buttons \subseteq Pullers
  /\ {MaxInbox, SeenMax, Racers, MaxPosts} \subseteq Nat \ {0}
  /\ {NetworkFails, StorageFails} \subseteq BOOLEAN

VARIABLES
  busy,     \* server: the taken times of the published catalog
  inbox,    \* server: ids and items that wait for the phone, in order
  stage,    \* server: how far each submit is
  cat,      \* server: the taken times each submit read
  acks,     \* acknowledged ids the server has still to remove
  posts,    \* publishes under way: the times they carry, and whether they landed
  mem,      \* phone: the book in the app's memory
  disk,     \* phone: the book in localStorage
  armed,    \* phone: the timer of the automatic republish is running
  pull,     \* phone: what each collecting call waits for
  told      \* requests the owner read about in a notice, not in the book

serverVars == <<busy, inbox, stage, cat>>
phoneVars  == <<mem, disk, armed>>
vars       == <<serverVars, acks, posts, phoneVars, pull, told>>

Times == Bookings \cup Walkins

\* What the book knows of one request or walk-in: how many rows it has, whether the
\* last one holds its time, and whether the owner was warned about it.
Row == [n : Nat, live : BOOLEAN, flagged : BOOLEAN]

Book == [rows : [Requests \cup Walkins -> Row],
         seen : Seq(Requests),       \* b.online.seen
         hash : SUBSET Times]        \* b.online.hash: the times last published

Absent == [n |-> 0, live |-> FALSE, flagged |-> FALSE]

BusyOf(b) == {k \in Times : b.rows[k].live}

IsFree(k, taken) == Fits({}, [x \in taken |-> Slot[x]], Slot[k])

-----------------------------------------------------------------------------
(* Broken variants, one plausible slip each: a property that holds of the code is  *)
(* expected to fail of them.                                                       *)

\* A taken time is written down without a warning.
AddRowUnflagged(b, r) ==
  IF r \in Deleted THEN b.rows
  ELSE [b.rows EXCEPT ![r] = [n |-> @.n + 1, live |-> TRUE, flagged |-> FALSE]]

\* One id too few is remembered.
RememberOneLess(s) == SubSeq(s, IF Len(s) >= SeenMax THEN Len(s) - SeenMax + 2 ELSE 1, Len(s))

\* The book is changed in memory only.
PersistNothing(b) == mem' = b /\ UNCHANGED disk

\* applyInbox for one item: skipped when seen; a booking whose time is taken by now
\* is kept and flagged; an order without any product left is only a problem to report.
AddRow(b, r) ==
  IF r \in Deleted THEN b.rows
  ELSE [b.rows EXCEPT ![r] = [n |-> @.n + 1, live |-> TRUE,
                              flagged |-> r \in Bookings /\ ~IsFree(r, BusyOf(b))]]

ApplyItem(b, r) ==
  IF r \in ToSet(b.seen) THEN b
  ELSE [b EXCEPT !.rows = AddRow(b, r), !.seen = Append(@, r)]

LastSeen(s) == SubSeq(s, IF Len(s) > SeenMax THEN Len(s) - SeenMax + 1 ELSE 1, Len(s))

ApplyInbox(b, items) ==
  LET after[n \in 0..Len(items)] == IF n = 0 THEN b ELSE ApplyItem(after[n - 1], items[n])
  IN  [after[Len(items)] EXCEPT !.seen = LastSeen(@)]

Problems(b, items) == (ToSet(items) \cap Deleted) \ ToSet(b.seen)

\* update: the book in memory, then localStorage, whose failure is only shown.
Persist(b) ==
  /\ mem' = b
  /\ disk' = b \/ (StorageFails /\ disk' = disk)

\* The effect that republishes starts its timer when the catalog or what was last
\* published changes, and drops it when they agree.
Rearm(b) ==
  armed' = /\ BusyOf(b) # b.hash
           /\ armed \/ BusyOf(b) # BusyOf(mem) \/ b.hash # mem.hash

Save(b) == Persist(b) /\ Rearm(b)

Idle == [at |-> "idle", items |-> <<>>, problems |-> {}]
-----------------------------------------------------------------------------
\* submit up to the lock: the catalog is read and the inbox counted.
Ask(r) ==
  /\ stage[r] = "new"
  /\ Cardinality({x \in Requests : stage[x] = "asked"}) < Racers
  /\ stage' = [stage EXCEPT ![r] = IF Len(inbox) >= MaxInbox THEN "refused" ELSE "asked"]
  /\ cat' = [cat EXCEPT ![r] = IF Len(inbox) >= MaxInbox THEN {} ELSE busy]
  /\ UNCHANGED <<busy, inbox, acks, posts, phoneVars, pull, told>>

\* The rest of submit: a booking is checked against the catalog read before and the
\* bookings that wait now.
Decide(r) ==
  /\ stage[r] = "asked"
  /\ IF r \in Bookings => IsFree(r, cat[r] \cup (ToSet(inbox) \cap Bookings))
     THEN inbox' = Append(inbox, r) /\ stage' = [stage EXCEPT ![r] = "accepted"]
     ELSE stage' = [stage EXCEPT ![r] = "refused"] /\ UNCHANGED inbox
  /\ cat' = [cat EXCEPT ![r] = {}]
  /\ UNCHANGED <<busy, acks, posts, phoneVars, pull, told>>

\* pull on the server, an acknowledged id at a time.  What is acknowledged is the head
\* of the inbox as some answer showed it, so ids leave in the inbox's order.
RemoveAcked ==
  /\ inbox # <<>>
  /\ Head(inbox) \in acks
  /\ inbox' = Tail(inbox)
  /\ acks' = acks \ {Head(inbox)}
  /\ UNCHANGED <<busy, stage, cat, posts, phoneVars, pull, told>>

\* An acknowledgement never arrives, or its handler stops half-way.
AcksLost ==
  /\ NetworkFails /\ acks # {}
  /\ acks' \in SUBSET acks
  /\ UNCHANGED <<serverVars, posts, phoneVars, pull, told>>

-----------------------------------------------------------------------------
\* pullNow, by the app, one call after the other (busy.current), or by a button of the
\* owner, who does not wait for the app's.  So answers may overlap, and one may go into
\* the book long after the inbox it shows.  Nothing tells a call the server has not
\* handled from one not begun: a pull starts with its answer on the way.
StartPull(p) ==
  /\ pull[p].at = "idle"
  /\ pull' = [pull EXCEPT ![p] = [Idle EXCEPT !.at = "answered", !.items = inbox]]
  /\ UNCHANGED <<serverVars, acks, posts, phoneVars, told>>

PullFails(p) ==
  /\ NetworkFails
  /\ pull[p].at = "answered"
  /\ pull' = [pull EXCEPT ![p] = Idle]
  /\ UNCHANGED <<serverVars, acks, posts, phoneVars, told>>

\* The call waits for its acknowledgement, and then tells the owner of the problems.  A
\* button says how many arrived and keeps the problems to itself: nothing waits for it.
Acking(p) ==
  IF p \in Buttons THEN Idle
  ELSE [Idle EXCEPT !.at = "acking", !.problems = Problems(mem, pull[p].items)]

\* Broken variant of Collect: everything that waits is acknowledged, not only what the
\* answer contained.
AckAll(p) ==
  /\ pull[p].at = "answered"
  /\ Save(ApplyInbox(mem, pull[p].items))
  /\ acks' = ToSet(inbox)
  /\ pull' = [pull EXCEPT ![p] = Acking(p)]
  /\ UNCHANGED <<serverVars, posts, told>>

\* The answer goes into the book and the acknowledgement on its way.  At most
\* MAX_INBOX ids are read from it, and those no longer in the list are no work.
Collect(p) ==
  /\ pull[p].at = "answered"
  /\ Save(ApplyInbox(mem, pull[p].items))
  /\ LET n == IF Len(pull[p].items) > MaxInbox THEN MaxInbox ELSE Len(pull[p].items)
     IN  acks' = (acks \cup ToSet(SubSeq(pull[p].items, 1, n))) \cap ToSet(inbox)
  /\ pull' = [pull EXCEPT ![p] = IF pull[p].items = <<>> THEN Idle ELSE Acking(p)]
  /\ UNCHANGED <<serverVars, posts, told>>

\* Only when the acknowledgement was answered, or failed, is the owner told, so the
\* server may have removed everything by then, or nothing.
PullEnds(p) ==
  /\ pull[p].at = "acking"
  /\ told' = told \cup pull[p].problems
  /\ pull' = [pull EXCEPT ![p] = Idle]
  /\ UNCHANGED <<serverVars, acks, posts, phoneVars>>

-----------------------------------------------------------------------------
\* The timer is over: publishNow sends the catalog of the book as it is now.
Republish ==
  /\ armed /\ Len(posts) < MaxPosts
  /\ posts' = Append(posts, [busy |-> BusyOf(mem), landed |-> FALSE])
  /\ armed' = FALSE
  /\ UNCHANGED <<serverVars, acks, mem, disk, pull, told>>

\* publish on the server.  Two calls under way may be handled in either order.
Land(i) ==
  /\ ~posts[i].landed
  /\ busy' = posts[i].busy
  /\ posts' = [posts EXCEPT ![i].landed = TRUE]
  /\ UNCHANGED <<inbox, stage, cat, acks, phoneVars, pull, told>>

\* The answer: what was sent counts as published.
Published(i) ==
  /\ posts[i].landed
  /\ Save([mem EXCEPT !.hash = posts[i].busy])
  /\ posts' = RemoveAt(posts, i)
  /\ UNCHANGED <<serverVars, acks, pull, told>>

\* The call fails, before or after it landed: the error is written down, no timer starts.
PublishFails(i) ==
  /\ NetworkFails
  /\ Save(mem)
  /\ posts' = RemoveAt(posts, i)
  /\ UNCHANGED <<serverVars, acks, pull, told>>

-----------------------------------------------------------------------------
\* The owner writes a time down, or cancels a booking.
TakeByHand(w) ==
  /\ mem.rows[w].n = 0
  /\ IsFree(w, BusyOf(mem))
  /\ Save([mem EXCEPT !.rows[w] = [n |-> 1, live |-> TRUE, flagged |-> FALSE]])
  /\ UNCHANGED <<serverVars, acks, posts, pull, told>>

Cancel(k) ==
  /\ mem.rows[k].live
  /\ Save([mem EXCEPT !.rows[k].live = FALSE])
  /\ UNCHANGED <<serverVars, acks, posts, pull, told>>

\* The app is closed and opened again, with the book localStorage holds.  A publish
\* under way lands or does not; nobody waits for its answer any more.
Restart ==
  /\ mem' = disk /\ UNCHANGED disk
  /\ armed' = (BusyOf(disk) # disk.hash)
  /\ pull' = [p \in Pullers |-> Idle]
  /\ posts' = <<>>
  /\ busy' \in {busy} \cup {posts[i].busy : i \in {j \in DOMAIN posts : ~posts[j].landed}}
  /\ UNCHANGED <<inbox, stage, cat, acks, told>>

Init ==
  /\ busy = {} /\ inbox = <<>> /\ acks = {} /\ posts = <<>>
  /\ stage = [r \in Requests |-> "new"]
  /\ cat = [r \in Requests |-> {}]
  /\ mem = [rows |-> [k \in Requests \cup Walkins |-> Absent], seen |-> <<>>, hash |-> {}]
  /\ disk = mem
  /\ armed = FALSE
  /\ pull = [p \in Pullers |-> Idle]
  /\ told = {}

Next ==
  \/ \E r \in Requests : Ask(r) \/ Decide(r)
  \/ RemoveAcked \/ AcksLost
  \/ \E p \in Pullers : StartPull(p) \/ PullFails(p) \/ Collect(p) \/ PullEnds(p)
  \/ Republish
  \/ \E i \in DOMAIN posts : Land(i) \/ Published(i) \/ PublishFails(i)
  \/ \E w \in Walkins : TakeByHand(w)
  \/ \E k \in Times : Cancel(k)
  \/ Restart

Spec == Init /\ [][Next]_vars

\* The app collects every 45 s while it is visible, and what is tried again and again
\* over the network works in the end.  No button is ever pressed for certain.
Collecting ==
  \A p \in Pullers \ Buttons :
    SF_vars(StartPull(p)) /\ SF_vars(Collect(p)) /\ WF_vars(PullEnds(p))

CollectingSpec == Spec /\ Collecting

\* Besides, handlers go on and the app is opened again and again.  Customers and owner
\* do as they like.
Fairness ==
  /\ Collecting
  /\ \A r \in Requests : WF_vars(Decide(r))
  /\ WF_vars(RemoveAcked)
  /\ SF_vars(Republish)
  /\ SF_vars(\E i \in DOMAIN posts : Land(i))
  /\ SF_vars(\E i \in DOMAIN posts : Published(i))
  /\ WF_vars(Restart)

FairSpec == Spec /\ Fairness

-----------------------------------------------------------------------------
\* Type invariant.
TypeOK ==
  /\ busy \subseteq Times /\ acks \subseteq Requests /\ told \subseteq Deleted
  /\ inbox \in Seq(Requests)
  /\ stage \in [Requests -> {"new", "asked", "accepted", "refused"}]
  /\ cat \in [Requests -> SUBSET Times]
  /\ posts \in Seq([busy : SUBSET Times, landed : BOOLEAN]) /\ Len(posts) <= MaxPosts
  /\ mem \in Book /\ disk \in Book /\ armed \in BOOLEAN
  /\ pull \in [Pullers -> [at : {"idle", "answered", "acking"}, items : Seq(Requests),
                           problems : SUBSET Deleted]]

\* "each one is applied exactly once whatever the network does" (lib/biz/online.ts:3):
\* answers, acknowledgements and restarts in any order never make a second row.
AppliedOnce == \A r \in Requests : mem.rows[r].n <= 1

\* "only after the book holds them are they deleted on the server"
\* (components/biz/BizSync.tsx:69): an accepted request is in the inbox or in the book
\* a restart would find, or the owner has read, or is about to read, why it is not.
NothingLost ==
  \A r \in Requests :
    stage[r] = "accepted" =>
      \/ r \in ToSet(inbox)
      \/ disk.rows[r].n > 0
      \/ r \in told \cup UNION {pull[p].problems : p \in Pullers}

\* "keep the request, flagged, for the owner to sort out" (lib/biz/online.ts:72): two
\* times of the book that meet never stand there without a warning on one of them,
\* whichever of phone and server took which first and however late they heard of it.
OverlapIsFlagged ==
  \A j, k \in BusyOf(mem) :
    j # k /\ Clash(Slot[j], Slot[k]) => mem.rows[j].flagged \/ mem.rows[k].flagged

\* "so two customers cannot take the same time" (lib/biz/server.ts:113): of two
\* accepted bookings that meet the owner has canceled one.
NoTimeTwice ==
  \A a, b \in Bookings :
    a # b /\ Clash(Slot[a], Slot[b]) /\ stage[a] = "accepted" /\ stage[b] = "accepted"
      => \E c \in {a, b} : mem.rows[c].n > 0 /\ ~mem.rows[c].live

\* What a customer sent reaches the stored book, whatever calls fail and however
\* often the app is closed in between.
Delivered == \A r \in Requests : stage[r] = "accepted" ~> disk.rows[r].n > 0

\* "from now on every change of the menu, the hours or the bookings is brought up to
\* date by itself" (components/biz/OnlineView.tsx:83): once nothing changes any more
\* the server shows the taken times of the book.
Converges == <>[](busy = BusyOf(mem))
=============================================================================
