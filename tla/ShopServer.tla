----------------------------- MODULE ShopServer -----------------------------
(***************************************************************************)
(* The online shop's server, lib/biz/server.ts, for one slug: the catalog  *)
(* a business published and the inbox of what customers sent.  All state   *)
(* is in Redis (lib/store.ts) and every command there is awaited, so the   *)
(* handlers of customers (submit) and of owners (publish, unpublish, pull, *)
(* setRefStatus, directory) interleave between any two commands: one       *)
(* action is one command with the local work up to the next.               *)
(*                                                                         *)
(* The id of a request stands for what it asks: its order lines, or the    *)
(* time Slot[id] of a booking.  Ids drawn by newRef are taken as distinct. *)
(***************************************************************************)
EXTENDS Slots, Bags

CONSTANTS
  Requests,     \* customer requests, by tracking code
  Bookings,     \* the requests that ask for a time; the others are orders
  Malformed,    \* requests that checkOrder or checkBooking refuses whatever is free
  Walkins,      \* times taken on the owner's phone, published as busy
  Slot,         \* the time each booking and each walk-in takes
  Seats,        \* the seats in every catalog
  Tokens,       \* owners' secrets
  Calls,        \* owner calls there may be at once
  Ops,          \* what owners call
  Statuses,     \* what an owner may say became of a request
  MaxInbox,     \* MAX_INBOX
  LockTries,    \* attempts at the lock before giving up (10 in the code)
  None,
  StoreFails,     \* a command to Redis may fail for good
  Repeats,        \* the commands whose answer may be lost, so that they are sent again
  HandlersStall,  \* a handler may stand still for longer than the lock lives
  Expiring        \* which keys may outlive their TTL: "item", "catalog"

\* The commands that write, named by the step that sends them.
Writes == {"lock", "item", "push", "unlock", "unlockRefused", "unlockFailed", "ref",
           "claim", "renew", "setPub", "sadd", "delItems", "clear", "lrem", "delItem",
           "setRef", "srem"}

ASSUME ShopAssumption ==
  /\ Bookings \subseteq Requests /\ Malformed \subseteq Requests
  /\ Walkins \cap Requests = {}
  /\ None \notin Requests \cup Tokens
  /\ NoSeat \notin Seats /\ IsFiniteSet(Seats) /\ IsFiniteSet(Requests) /\ IsFiniteSet(Walkins)
  /\ Slot \in [Bookings \cup Walkins -> [startsAt : Nat, durationMin : Nat \ {0},
                                         seatId : Seats \cup {NoSeat}]]
  /\ Ops \subseteq {"publish", "unpublish", "pull", "status", "directory"}
  /\ {MaxInbox, LockTries} \subseteq Nat \ {0}
  /\ "pending" \in Statuses /\ "none" \notin Statuses
  /\ {StoreFails, HandlersStall} \subseteq BOOLEAN
  /\ Repeats \subseteq Writes
  /\ Expiring \subseteq {"item", "catalog"}

VARIABLES
  owner,      \* biz:owner: the token (its hash) that claimed the slug
  pub,        \* biz:pub: who published the catalog, and the times it calls busy
  index,      \* is the slug in biz:index
  inbox,      \* biz:inbox: a list of ids; its order is left out, its copies are not
  items,      \* biz:item: the ids whose item is kept
  refs,       \* biz:ref: the status a customer can track, "none" = no such key
  lock,       \* biz:lock: held or None; which handler set it is not in the key
  collected,  \* ids some answer to an owner has contained (history)
  pc, cat, seen, tries,   \* submit handlers: next command, catalog read, ids read, attempts
  call        \* owner handlers

kvVars  == <<owner, pub, index, inbox, items, refs, lock>>
reqVars == <<pc, cat, seen, tries>>
vars    == <<kvVars, collected, reqVars, call>>

Times == Bookings \cup Walkins

Catalog == [by : Tokens \cup {None}, busy : SUBSET Times]

\* What a booking meets: the catalog's busy list and the bookings still waiting.
\* A time in both lists is there twice, as in calendarOfCatalog.
BusyWith(c, waiting) ==
  [k \in ({"busy"} \X c.busy) \cup ({"waiting"} \X waiting) |-> Slot[k[2]]]

-----------------------------------------------------------------------------
\* submit: pc names the command a handler is about to send.
Ends     == {"accepted", "refused", "failed", "crashed"}
Unlocks  == {"unlock", "unlockRefused", "unlockFailed"}
Guarded  == {"ids", "check", "item", "push"} \cup Unlocks
Steps    == {"new", "limits", "inbox", "lock", "ref"} \cup Guarded \cup Ends

\* Between taking the lock and giving it back (the try block).
Critical(r) == r \in Bookings /\ pc[r] \in Guarded

Ids == BagToSet(inbox)

Waiting == Ids \cap items   \* inboxItems

Goto(r, s) == pc' = [pc EXCEPT ![r] = s]

\* The command took effect and its answer was lost: the client sends it again.  (When it
\* gives up instead, that is CommandFails or CallStops at the same step.)
SendAgain(r) == pc[r] \in Repeats /\ UNCHANGED pc

\* What a handler read is of no use once it has decided or ended.
Forget(r) ==
  /\ cat' = [cat EXCEPT ![r] = None]
  /\ seen' = [seen EXCEPT ![r] = {}]
  /\ tries' = [tries EXCEPT ![r] = 0]

(* Broken variants, one plausible slip each: a property that holds of the code is   *)
(* expected to fail of them.                                                        *)

\* One attempt at the lock too many.
MissedOnceMore(r) ==
  \/ tries[r] + 1 <= LockTries /\ tries' = [tries EXCEPT ![r] = @ + 1] /\ UNCHANGED <<pc, cat, seen>>
  \/ tries[r] = LockTries /\ Goto(r, "refused") /\ Forget(r)

\* SET without NX: the lock is overwritten.
TryLockWithoutNX(r) ==
  /\ pc[r] = "lock"
  /\ lock' = r /\ Goto(r, "ids")
  /\ UNCHANGED <<owner, pub, index, inbox, items, refs, collected, cat, seen, tries, call>>

\* The time is checked against the catalog only, as when the customer's page was drawn.
CheckCatalogOnly(r) ==
  /\ pc[r] = "check"
  /\ Goto(r, IF Fits(Seats, BusyWith(cat[r], {}), Slot[r]) THEN "item" ELSE "unlockRefused")
  /\ Forget(r)
  /\ UNCHANGED <<kvVars, collected, call>>

\* The id of an order is not pushed, as if RPUSH stood only in the bookings' branch.
PushBookingsOnly(r) ==
  /\ pc[r] = "push"
  /\ inbox' = IF r \in Bookings THEN inbox (+) SetToBag({r}) ELSE inbox
  /\ Goto(r, IF r \in Bookings THEN "unlock" ELSE "ref")
  /\ UNCHANGED <<owner, pub, index, items, refs, lock, collected, cat, seen, tries, call>>

\* The lock's life is shorter than a booking takes.
LockExpiresEarly ==
  /\ lock # None /\ lock' = None
  /\ UNCHANGED <<owner, pub, index, inbox, items, refs, collected, reqVars, call>>

\* The lock is set without EX.
LockNeverExpires == FALSE /\ UNCHANGED vars

-----------------------------------------------------------------------------
ReadCatalog(r) ==
  /\ pc[r] = "new"
  /\ IF pub = None THEN Goto(r, "refused") /\ UNCHANGED cat
     ELSE Goto(r, "limits") /\ cat' = [cat EXCEPT ![r] = pub]
  /\ UNCHANGED <<kvVars, collected, seen, tries, call>>

\* rateLimited: the counters are shared with requests outside the model.
Limits(r) ==
  /\ pc[r] = "limits"
  /\ \/ Goto(r, "inbox") /\ UNCHANGED <<cat, seen, tries>>
     \/ Goto(r, "refused") /\ Forget(r)
  /\ UNCHANGED <<kvVars, collected, call>>

\* An order is checked against the catalog alone, by checkOrder, right away.
CheckInbox(r) ==
  /\ pc[r] = "inbox"
  /\ LET full == BagCardinality(inbox) >= MaxInbox
     IN  \/ full /\ Goto(r, "refused") /\ Forget(r)
         \/ ~full /\ r \in Bookings /\ Goto(r, "lock") /\ UNCHANGED <<cat, seen, tries>>
         \/ /\ ~full /\ r \notin Bookings
            /\ Goto(r, IF r \in Malformed THEN "refused" ELSE "item") /\ Forget(r)
  /\ UNCHANGED <<kvVars, collected, call>>

\* An attempt that does not get the lock: ten of them and the customer is told to
\* come back.
Missed(r) ==
  \/ /\ tries[r] + 1 < LockTries
     /\ tries' = [tries EXCEPT ![r] = @ + 1]
     /\ UNCHANGED <<pc, cat, seen>>
  \/ /\ tries[r] + 1 = LockTries
     /\ Goto(r, "refused") /\ Forget(r)

\* SET NX.  Sent again it finds the lock taken, by this very handler.
TryLock(r) ==
  /\ pc[r] = "lock"
  /\ \/ /\ lock = None /\ lock' = r
        /\ Goto(r, "ids") \/ SendAgain(r)
        /\ UNCHANGED <<cat, seen, tries>>
     \/ lock # None /\ Missed(r) /\ UNCHANGED lock
  /\ UNCHANGED <<owner, pub, index, inbox, items, refs, collected, call>>

ReadIds(r) ==
  /\ pc[r] = "ids"
  /\ seen' = [seen EXCEPT ![r] = Ids]
  /\ Goto(r, "check")
  /\ UNCHANGED <<kvVars, collected, cat, tries, call>>

\* The items of those ids are read and checkBooking decides.
CheckBooking(r) ==
  /\ pc[r] = "check"
  /\ LET waiting == seen[r] \cap items \cap Bookings
         free == r \notin Malformed /\ Fits(Seats, BusyWith(cat[r], waiting), Slot[r])
     IN  Goto(r, IF free THEN "item" ELSE "unlockRefused")
  /\ Forget(r)
  /\ UNCHANGED <<kvVars, collected, call>>

SetItem(r) ==
  /\ pc[r] = "item"
  /\ items' = items \cup {r}
  /\ Goto(r, "push") \/ SendAgain(r)
  /\ UNCHANGED <<owner, pub, index, inbox, refs, lock, collected, cat, seen, tries, call>>

\* RPUSH.  Sent again it lists the id twice (bound: no third copy).
Push(r) ==
  /\ pc[r] = "push"
  /\ inbox' = inbox (+) SetToBag({r})
  /\ \/ Goto(r, IF r \in Bookings THEN "unlock" ELSE "ref")
     \/ SendAgain(r) /\ r \notin Ids
  /\ UNCHANGED <<owner, pub, index, items, refs, lock, collected, cat, seen, tries, call>>

\* finally: the lock's key is deleted, whoever set it.  Sent again, the DEL deletes the
\* lock of a handler that took it meanwhile.
Unlock(r) ==
  /\ pc[r] \in Unlocks
  /\ lock' = None
  /\ \/ Goto(r, CASE pc[r] = "unlock" -> "ref" [] pc[r] = "unlockRefused" -> "refused"
                  [] OTHER -> "failed")
     \/ SendAgain(r)
  /\ UNCHANGED <<owner, pub, index, inbox, items, refs, collected, cat, seen, tries, call>>

\* SET.  Sent again it overwrites what the owner may have reported meanwhile.
SetRef(r) ==
  /\ pc[r] = "ref"
  /\ refs' = [refs EXCEPT ![r] = "pending"]
  /\ Goto(r, "accepted") \/ SendAgain(r)
  /\ UNCHANGED <<owner, pub, index, inbox, items, lock, collected, cat, seen, tries, call>>

\* A command fails for good: the handler ends in an error, through finally.
CommandFails(r) ==
  /\ StoreFails
  /\ pc[r] \notin Ends
  /\ Goto(r, IF Critical(r) /\ pc[r] \notin Unlocks THEN "unlockFailed" ELSE "failed")
  /\ Forget(r)
  /\ UNCHANGED <<kvVars, collected, call>>

\* The function is killed between two commands.
Crash(r) ==
  /\ pc[r] \notin Ends \cup {"new"}
  /\ Goto(r, "crashed") /\ Forget(r)
  /\ UNCHANGED <<kvVars, collected, call>>

\* The lock's 5 s are over.  A handler is that slow only when it stalls.
LockExpires ==
  /\ lock # None
  /\ HandlersStall \/ ~Critical(lock)
  /\ lock' = None
  /\ UNCHANGED <<owner, pub, index, inbox, items, refs, collected, reqVars, call>>

Submit(r) ==
  \/ ReadCatalog(r) \/ Limits(r) \/ CheckInbox(r) \/ TryLock(r) \/ ReadIds(r)
  \/ CheckBooking(r) \/ SetItem(r) \/ Push(r) \/ Unlock(r) \/ SetRef(r)

-----------------------------------------------------------------------------
\* Owner calls.  pc names the next command; an answered call may be made again.
Answered == {"ok", "refused", "failed"}
CallSteps == Answered \cup
  {"claim", "compare", "renew", "setPub", "sadd",              \* publish
   "owns", "list", "delItems", "clear",                        \* unpublish
   "lrem", "delItem", "read", "gets",                          \* pull
   "getRef", "setRef",                                         \* setRefStatus
   "members", "catalogs", "srem"}                              \* directory
ShopKeys == {"pub", "owner", "inbox", "index"}

CallRec == [op : Ops \cup {"none"}, tok : Tokens \cup {None}, pc : CallSteps,
            ids : SUBSET Requests, cur : Requests \cup {None}, keys : SUBSET ShopKeys, busy : SUBSET Times,
            st : Statuses \cup {"none"}]

Answer(outcome) ==
  [op |-> "none", tok |-> None, pc |-> outcome, ids |-> {}, cur |-> None, keys |-> {},
   busy |-> {}, st |-> "none"]

Finish(c, outcome) == call' = [call EXCEPT ![c] = Answer(outcome)]
Step(c, s) == call' = [call EXCEPT ![c].pc = s]

\* SendAgain for an owner's call.
Resend(c) == call[c].pc \in Repeats /\ UNCHANGED call

(* Broken variants of the owner's calls. *)

\* SET without NX: whoever publishes first or later claims the slug.
ClaimWithoutNX(c) ==
  /\ call[c].pc = "claim"
  /\ owner' = call[c].tok /\ Step(c, "setPub")
  /\ UNCHANGED <<pub, index, inbox, items, refs, lock, collected, reqVars>>

\* The token of a claimed slug is not compared.
CompareNothing(c) ==
  /\ call[c].pc = "compare"
  /\ Step(c, "renew")
  /\ UNCHANGED <<kvVars, collected, reqVars>>

\* An acknowledgement empties the inbox, not only of the ids it names.
RemoveAllIds(c) ==
  /\ call[c].pc = "lrem"
  /\ \E r \in call[c].ids :
       /\ inbox' = EmptyBag
       /\ call' = [call EXCEPT ![c].pc = "delItem", ![c].cur = r, ![c].ids = @ \ {r}]
  /\ UNCHANGED <<owner, pub, index, items, refs, lock, collected, reqVars>>

\* A status is written even when the reference is not there yet.
GetRefOrNone(c) ==
  /\ call[c].pc = "getRef"
  /\ Step(c, "setRef")
  /\ UNCHANGED <<kvVars, collected, reqVars>>

-----------------------------------------------------------------------------
Call(c, op, t, first, ids, busy, r, st) ==
  /\ call[c].pc \in Answered
  /\ op \in Ops
  /\ call' = [call EXCEPT ![c] = [op |-> op, tok |-> t, pc |-> first, ids |-> ids,
                                  cur |-> r, keys |-> {}, busy |-> busy, st |-> st]]
  /\ UNCHANGED <<kvVars, collected, reqVars>>

CallPublish(c, t, busy) == Call(c, "publish", t, "claim", {}, busy, None, "none")
CallUnpublish(c, t)     == Call(c, "unpublish", t, "owns", {}, {}, None, "none")
CallPull(c, t, ack)     == Call(c, "pull", t, "owns", ack, {}, None, "none")
CallStatus(c, t, r, st) == Call(c, "status", t, "owns", {}, {}, r, st)
CallDirectory(c)        == Call(c, "directory", None, "members", {}, {}, None, "none")

\* SET NX of the owner: the first publish claims the slug.  Sent again it finds the
\* slug claimed, and the comparison finds by whom.
Claim(c) ==
  /\ call[c].pc = "claim"
  /\ IF owner = None THEN owner' = call[c].tok /\ (Step(c, "setPub") \/ Resend(c))
     ELSE UNCHANGED owner /\ Step(c, "compare")
  /\ UNCHANGED <<pub, index, inbox, items, refs, lock, collected, reqVars>>

CompareOwner(c) ==
  /\ call[c].pc = "compare"
  /\ IF owner = call[c].tok THEN Step(c, "renew") ELSE Finish(c, "refused")
  /\ UNCHANGED <<kvVars, collected, reqVars>>

RenewOwner(c) ==
  /\ call[c].pc = "renew"
  /\ owner' = call[c].tok
  /\ Step(c, "setPub") \/ Resend(c)
  /\ UNCHANGED <<pub, index, inbox, items, refs, lock, collected, reqVars>>

SetPub(c) ==
  /\ call[c].pc = "setPub"
  /\ pub' = [by |-> call[c].tok, busy |-> call[c].busy]
  /\ Step(c, "sadd") \/ Resend(c)
  /\ UNCHANGED <<owner, index, inbox, items, refs, lock, collected, reqVars>>

AddToIndex(c) ==
  /\ call[c].pc = "sadd"
  /\ index' = TRUE
  /\ Finish(c, "ok") \/ Resend(c)
  /\ UNCHANGED <<owner, pub, inbox, items, refs, lock, collected, reqVars>>

\* owns: 404 when nobody has the slug, 403 when another token has it.
Owns(c) ==
  /\ call[c].pc = "owns"
  /\ IF owner # call[c].tok THEN Finish(c, "refused")
     ELSE Step(c, CASE call[c].op = "unpublish" -> "list"
                    [] call[c].op = "status" -> "getRef"
                    [] call[c].op = "pull" /\ call[c].ids = {} -> "read"
                    [] OTHER -> "lrem")
  /\ UNCHANGED <<kvVars, collected, reqVars>>

ListInbox(c) ==
  /\ call[c].pc = "list"
  /\ call' = [call EXCEPT ![c].ids = Ids,
                          ![c].pc = IF Ids = {} THEN "clear" ELSE "delItems",
                          ![c].keys = ShopKeys]
  /\ UNCHANGED <<kvVars, collected, reqVars>>

DeleteItem(c) ==
  /\ call[c].pc = "delItems"
  /\ \E r \in call[c].ids :
       /\ items' = items \ {r}
       /\ \/ call' = [call EXCEPT ![c].pc = IF call[c].ids = {r} THEN "clear" ELSE "delItems",
                                  ![c].ids = @ \ {r}]
          \/ Resend(c)
  /\ UNCHANGED <<owner, pub, index, inbox, refs, lock, collected, reqVars>>

\* The four deletions are sent together and land in any order.
ClearKey(c) ==
  /\ call[c].pc = "clear"
  /\ \E k \in call[c].keys :
       /\ owner' = IF k = "owner" THEN None ELSE owner
       /\ pub'   = IF k = "pub" THEN None ELSE pub
       /\ inbox' = IF k = "inbox" THEN EmptyBag ELSE inbox
       /\ index' = IF k = "index" THEN FALSE ELSE index
       /\ \/ call[c].keys = {k} /\ Finish(c, "ok")
          \/ call[c].keys # {k} /\ call' = [call EXCEPT ![c].keys = @ \ {k}]
          \/ Resend(c)
  /\ UNCHANGED <<items, refs, lock, collected, reqVars>>

\* pull: every acknowledged id leaves the inbox (all its copies), then its item goes.
RemoveId(c) ==
  /\ call[c].pc = "lrem"
  /\ \E r \in call[c].ids :
       /\ inbox' = [x \in Ids \ {r} |-> inbox[x]]
       /\ \/ call' = [call EXCEPT ![c].pc = "delItem", ![c].cur = r, ![c].ids = @ \ {r}]
          \/ Resend(c)
  /\ UNCHANGED <<owner, pub, index, items, refs, lock, collected, reqVars>>

RemoveItem(c) ==
  /\ call[c].pc = "delItem"
  /\ items' = items \ {call[c].cur}
  /\ \/ call' = [call EXCEPT ![c].pc = IF call[c].ids = {} THEN "read" ELSE "lrem",
                             ![c].cur = None]
     \/ Resend(c)
  /\ UNCHANGED <<owner, pub, index, inbox, refs, lock, collected, reqVars>>

ReadInbox(c) ==
  /\ call[c].pc = "read"
  /\ call' = [call EXCEPT ![c].pc = "gets", ![c].ids = Ids]
  /\ UNCHANGED <<kvVars, collected, reqVars>>

GetItems(c) ==
  /\ call[c].pc = "gets"
  /\ Finish(c, "ok")
  /\ collected' = collected \cup (call[c].ids \cap items)
  /\ UNCHANGED <<kvVars, reqVars>>

\* setRefStatus reads the whole state of the reference, then writes it back.
GetRef(c) ==
  /\ call[c].pc = "getRef"
  /\ IF refs[call[c].cur] = "none" THEN Finish(c, "ok") ELSE Step(c, "setRef")
  /\ UNCHANGED <<kvVars, collected, reqVars>>

SetStatus(c) ==
  /\ call[c].pc = "setRef"
  /\ refs' = [refs EXCEPT ![call[c].cur] = call[c].st]
  /\ Finish(c, "ok") \/ Resend(c)
  /\ UNCHANGED <<owner, pub, index, inbox, items, lock, collected, reqVars>>

\* directory: a slug of the index without a catalog is taken out of the index.
ReadIndex(c) ==
  /\ call[c].pc = "members"
  /\ IF index THEN Step(c, "catalogs") ELSE Finish(c, "ok")
  /\ UNCHANGED <<kvVars, collected, reqVars>>

ReadCatalogs(c) ==
  /\ call[c].pc = "catalogs"
  /\ IF pub = None THEN Step(c, "srem") ELSE Finish(c, "ok")
  /\ UNCHANGED <<kvVars, collected, reqVars>>

RemoveFromIndex(c) ==
  /\ call[c].pc = "srem"
  /\ index' = FALSE
  /\ Finish(c, "ok") \/ Resend(c)
  /\ UNCHANGED <<owner, pub, inbox, items, refs, lock, collected, reqVars>>

\* The handler of an owner's call is killed, or a command of it fails for good.
CallStops(c) ==
  /\ call[c].pc \notin Answered
  /\ Finish(c, "failed")
  /\ UNCHANGED <<kvVars, collected, reqVars>>

Handle(c) ==
  \/ Claim(c) \/ CompareOwner(c) \/ RenewOwner(c) \/ SetPub(c) \/ AddToIndex(c)
  \/ Owns(c) \/ ListInbox(c) \/ DeleteItem(c) \/ ClearKey(c)
  \/ RemoveId(c) \/ RemoveItem(c) \/ ReadInbox(c) \/ GetItems(c)
  \/ GetRef(c) \/ SetStatus(c) \/ ReadIndex(c) \/ ReadCatalogs(c) \/ RemoveFromIndex(c)

\* TTLs: an item after 30 days, the catalog and its owner after 180 without a publish.
ItemExpires(r) ==
  /\ "item" \in Expiring
  /\ r \in items
  /\ items' = items \ {r}
  /\ UNCHANGED <<owner, pub, index, inbox, refs, lock, collected, reqVars, call>>

CatalogExpires ==
  /\ "catalog" \in Expiring
  /\ \/ pub # None /\ pub' = None /\ UNCHANGED owner
     \/ owner # None /\ owner' = None /\ UNCHANGED pub
  /\ UNCHANGED <<index, inbox, items, refs, lock, collected, reqVars, call>>

-----------------------------------------------------------------------------
Init ==
  /\ owner = None /\ pub = None /\ index = FALSE
  /\ inbox = EmptyBag /\ items = {}
  /\ refs = [r \in Requests |-> "none"]
  /\ lock = None /\ collected = {}
  /\ pc = [r \in Requests |-> "new"]
  /\ cat = [r \in Requests |-> None]
  /\ seen = [r \in Requests |-> {}]
  /\ tries = [r \in Requests |-> 0]
  /\ call = [c \in Calls |-> Answer("ok")]

\* Owners publish, acknowledge and report what an owner can know: the ids some
\* answer contained, in any order, at any time, with any token.
Owners(c) ==
  \E t \in Tokens :
    \/ \E busy \in SUBSET (Walkins \cup (collected \cap Bookings)) : CallPublish(c, t, busy)
    \/ CallUnpublish(c, t)
    \/ \E ack \in SUBSET collected : CallPull(c, t, ack)
    \/ \E r \in collected, st \in Statuses : CallStatus(c, t, r, st)

Next ==
  \/ \E r \in Requests : Submit(r) \/ CommandFails(r) \/ Crash(r) \/ ItemExpires(r)
  \/ \E c \in Calls : Owners(c) \/ CallDirectory(c) \/ Handle(c) \/ CallStops(c)
  \/ LockExpires \/ CatalogExpires

Spec == Init /\ [][Next]_vars

\* Handlers that are not killed go on, and Redis lets keys expire: TryLock, which
\* polls, is a step like any other.  Nobody has to call or to submit.
Fairness ==
  /\ \A r \in Requests : WF_vars(Submit(r) /\ pc[r] # "new")
  /\ \A c \in Calls : WF_vars(Handle(c))
  /\ WF_vars(LockExpires)

FairSpec == Spec /\ Fairness

-----------------------------------------------------------------------------
\* Type invariant: the keys hold what the handlers write, the handlers what they read.
KvType ==
  /\ owner \in Tokens \cup {None} /\ pub \in Catalog \cup {None} /\ index \in BOOLEAN
  /\ items \subseteq Requests /\ collected \subseteq Requests
  /\ refs \in [Requests -> Statuses \cup {"none"}]

BagType == IsABag(inbox) /\ Ids \subseteq Requests

ReqType ==
  /\ pc \in [Requests -> Steps]
  /\ cat \in [Requests -> Catalog \cup {None}]
  /\ seen \in [Requests -> SUBSET Requests]
  /\ tries \in [Requests -> 0..LockTries - 1]
  /\ lock \in Requests \cup {None}

CallType == call \in [Calls -> CallRec]

TypeOK == KvType /\ BagType /\ ReqType /\ CallType

WaitingBookings == Waiting \cap Bookings

Conflict(a, b) == Excludes(Seats, Slot[a], Slot[b])

\* The bookings waiting for the phone never take the same time twice: "one booking at
\* a time per business, so two customers cannot take the same time"
\* (lib/biz/server.ts:113), although check and write are several commands.
WaitingApart == \A a, b \in WaitingBookings : a # b => ~Conflict(a, b)

\* Why: the lock is whose booking is between check and unlock (orders never touch
\* it), ids are not in the inbox before they are pushed, the checking booking has
\* seen every waiting one, and once checked it stays free until it is pushed.
LockIsMine == \A r \in Bookings : pc[r] \in Guarded => lock = r

OrdersPass ==
  \A r \in Requests \ Bookings : pc[r] \notin {"lock", "ids", "check"} \cup Unlocks

NotPushed ==
  \A r \in Requests :
    pc[r] \in {"new", "limits", "inbox", "lock", "ids", "check", "item"} => r \notin Ids

SawWaiting == \A r \in Bookings : pc[r] = "check" => WaitingBookings \subseteq seen[r]

StillFree ==
  \A r \in Bookings : pc[r] \in {"item", "push"} =>
    \A w \in WaitingBookings : w # r => ~Conflict(r, w)

\* No handler outlives its lock, and the DEL of a lock is not sent again.
LockSafe == ~HandlersStall /\ Repeats \cap Unlocks = {}

\* The inductive invariant under WaitingApart, while LockSafe.
LockInv ==
  LockIsMine /\ OrdersPass /\ NotPushed /\ SawWaiting /\ StillFree /\ WaitingApart

\* Step by step, the handlers take bookings as one clerk would (Desk).
TheDesk == INSTANCE Desk WITH waiting <- WaitingBookings
TakesInTurn == TheDesk!Spec

\* No instant has more waiting bookings going on than the shop has places.
WaitingFits ==
  \A a \in WaitingBookings :
    LET t == Slot[a].startsAt
        on == {b \in WaitingBookings : /\ Slot[b].startsAt <= t
                                       /\ t < Slot[b].startsAt + Slot[b].durationMin}
    IN  Cardinality(on) <= (IF Seats = {} THEN 1 ELSE Cardinality(Seats))

\* What the customer was told is accepted waits in the inbox until some answer to
\* the owner contained it, when nobody turns the shop off and nothing expires.
AcceptedIsKept == \A r \in Requests : pc[r] = "accepted" => r \in Waiting \cup collected

\* "a slug belongs to the token that claimed it" (scripts/biz-online-test.ts:68): a
\* token loses it only while its own owner turns the shop off.
OwnerKept ==
  [][owner \notin {None, owner'}
       => \E c \in Calls : call[c].op = "unpublish" /\ call[c].tok = owner]_vars

\* The page under a slug is the owner's own.
PageIsOwners == pub # None => pub.by = owner

\* The inductive invariant under the last two, while nobody turns the shop off: a call
\* that passed the comparison still speaks for the owner.
SlugInv ==
  /\ \A c \in Calls : call[c].pc \in {"claim", "compare", "renew", "setPub"} => call[c].tok # None
  /\ \A c \in Calls : call[c].pc \in {"renew", "setPub"} => call[c].tok = owner
  /\ \A c \in Calls : call[c].pc \in {"list", "delItems", "clear"} => call[c].op = "unpublish"
  /\ pub # None => owner # None
  /\ PageIsOwners

\* "unpublish removes everything" (scripts/biz-online-test.ts:144): once no call and no
\* request is being handled, a slug nobody owns has no page and no customer's data.
OffMeansGone ==
  /\ owner = None
  /\ \A c \in Calls : call[c].pc \in {"ok", "refused"}
  /\ \A r \in Requests : pc[r] \in {"new", "accepted", "refused"}
  => pub = None /\ Ids = {} /\ items = {}

\* What the owner said became of a request stands: the handler that accepted it sets
\* "pending" after the id is in the inbox, so the owner may already have answered, and
\* only a later word of the owner may take a request back to "pending".
StatusStands ==
  [][\A r \in Requests :
       refs[r] \notin {"none", "pending"} /\ refs'[r] = "pending"
         => \E c \in Calls : call[c].pc = "setRef" /\ call[c].cur = r
                              /\ call[c].st = "pending"]_vars

\* The lock never stays taken, whatever handler died in between.
LockFreed == []<>(lock = None)
=============================================================================
