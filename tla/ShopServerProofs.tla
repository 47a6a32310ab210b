-------------------------- MODULE ShopServerProofs --------------------------
(***************************************************************************)
(* Theorems about ShopServer, for every number of requests, owners, calls  *)
(* and seats: what the handlers keep well typed, and that bookings waiting *)
(* for the phone never take the same time when no handler outlives the     *)
(* lock.  Then what the server promises a customer and the owner: an       *)
(* accepted request waits until it was collected, every place in the inbox *)
(* is an item, what the owner said became of a request stands, and no more *)
(* bookings wait at an instant than the shop has places.                   *)
(***************************************************************************)
EXTENDS ShopServer, FiniteSetTheorems, TLAPS

-----------------------------------------------------------------------------
(* Typing.  The state of submit handlers and of owner calls apart. *)

\* An id pushed again or removed leaves a bag of requests.
LEMMA PushBag ==
  ASSUME BagType, NEW r \in Requests, inbox' = inbox (+) SetToBag({r})
  PROVE  BagType' /\ Ids' = Ids \cup {r}
BY DEF BagType, IsABag, Ids, BagToSet, SetToBag, (+)

LEMMA RemoveBag ==
  ASSUME BagType, NEW r, inbox' = [x \in Ids \ {r} |-> inbox[x]]
  PROVE  BagType' /\ Ids' = Ids \ {r}
BY DEF BagType, IsABag, Ids, BagToSet

LEMMA EmptyIsBag ==
  ASSUME inbox' = EmptyBag
  PROVE  BagType' /\ Ids' = {}
BY DEF BagType, IsABag, Ids, BagToSet, EmptyBag, SetToBag

LEMMA SameBag ==
  ASSUME BagType, UNCHANGED inbox
  PROVE  BagType' /\ Ids' = Ids
BY DEF BagType, IsABag, Ids, BagToSet

\* What a handler leaves alone keeps its type.
LEMMA SameKv ==
  ASSUME KvType, UNCHANGED <<owner, pub, index, items, collected, refs>>
  PROVE  KvType'
BY DEF KvType

\* A step of a submit handler, or of one that fails or is killed, keeps the types.
LEMMA SubmitType ==
  ASSUME ShopAssumption, TypeOK, NEW r \in Requests,
         Submit(r) \/ CommandFails(r) \/ Crash(r)
  PROVE  TypeOK'
<1>0. /\ KvType /\ BagType /\ ReqType /\ CallType
      /\ LockTries \in Nat /\ Bookings \subseteq Requests
  BY DEF ShopAssumption, TypeOK
<1>a. ASSUME SendAgain(r), UNCHANGED <<cat, seen, tries>>, lock' \in Requests \cup {None}
      PROVE  ReqType'
  BY <1>0, <1>a DEF SendAgain, ReqType
<1> USE DEF TypeOK, kvVars, reqVars, Goto, Steps, Ends, Guarded, Unlocks
<1>1. CASE ReadCatalog(r)
  BY <1>0, <1>1, SameBag, SameKv DEF ReadCatalog, ReqType, KvType, CallType
<1>2. CASE Limits(r)
  <2>1. ReqType'
    <3>1. CASE Goto(r, "inbox") /\ UNCHANGED <<cat, seen, tries>>
      BY <1>0, <1>2, <3>1 DEF Limits, ReqType
    <3>2. CASE Goto(r, "refused") /\ Forget(r)
      BY <1>0, <1>2, <3>2 DEF Limits, Forget, ReqType
    <3> QED BY <1>2, <3>1, <3>2 DEF Limits
  <2> QED BY <1>0, <1>2, <2>1, SameBag, SameKv DEF Limits, CallType
<1>3. CASE CheckInbox(r)
  <2>1. ReqType'
    <3>1. CASE r \in Bookings /\ Goto(r, "lock") /\ UNCHANGED <<cat, seen, tries>>
      BY <1>0, <1>3, <3>1 DEF CheckInbox, ReqType
    <3>2. CASE (Goto(r, "refused") \/ Goto(r, "item")) /\ Forget(r)
      BY <1>0, <1>3, <3>2 DEF CheckInbox, Forget, ReqType
    <3> QED BY <1>3, <3>1, <3>2 DEF CheckInbox
  <2> QED BY <1>0, <1>3, <2>1, SameBag, SameKv DEF CheckInbox, CallType
<1>4. CASE TryLock(r)
  <2>1. lock' \in Requests \cup {None}
    BY <1>0, <1>4 DEF TryLock, ReqType
  <2>2. ReqType'
    <3>1. CASE Goto(r, "ids") /\ UNCHANGED <<cat, seen, tries>>
      BY <1>0, <2>1, <3>1 DEF ReqType
    <3>2. CASE Missed(r)
      BY <1>0, <2>1, <3>2 DEF Missed, Forget, ReqType
    <3>3. CASE SendAgain(r) /\ UNCHANGED <<cat, seen, tries>>
      BY <1>a, <2>1, <3>3
    <3> QED BY <1>4, <3>1, <3>2, <3>3 DEF TryLock
  <2> QED BY <1>0, <1>4, <2>2, SameBag, SameKv DEF TryLock, CallType
<1>5. CASE ReadIds(r)
  BY <1>0, <1>5, SameBag, SameKv DEF ReadIds, ReqType, BagType, CallType
<1>6. CASE CheckBooking(r)
  BY <1>0, <1>6, SameBag, SameKv DEF CheckBooking, Forget, ReqType, CallType
<1>b. ASSUME NEW s \in Steps, UNCHANGED <<cat, seen, tries>>, lock' \in Requests \cup {None},
             Goto(r, s) \/ SendAgain(r)
      PROVE  ReqType'
  BY <1>0, <1>a, <1>b DEF ReqType
<1>c. lock \in Requests \cup {None}
  BY <1>0 DEF ReqType
<1>7. CASE SetItem(r)
  <2>1. ReqType'
    BY <1>7, <1>b, <1>c DEF SetItem
  <2> QED BY <1>0, <1>7, <2>1, SameBag DEF SetItem, KvType, CallType
<1>8. CASE Push(r)
  <2>1. ReqType'
    BY <1>8, <1>b, <1>c DEF Push
  <2> QED BY <1>0, <1>8, <2>1, PushBag, SameKv DEF Push, CallType
<1>9. CASE Unlock(r)
  <2>1. ReqType'
    BY <1>9, <1>b DEF Unlock
  <2> QED BY <1>0, <1>9, <2>1, SameBag, SameKv DEF Unlock, CallType
<1>10. CASE SetRef(r)
  <2>1. ReqType'
    BY <1>10, <1>b, <1>c DEF SetRef
  <2> QED BY <1>0, <1>10, <2>1, ShopAssumption, SameBag
          DEF SetRef, KvType, CallType, ShopAssumption
<1>11. CASE CommandFails(r)
  BY <1>0, <1>11, SameBag, SameKv DEF CommandFails, Forget, ReqType, CallType
<1>12. CASE Crash(r)
  BY <1>0, <1>12, SameBag, SameKv DEF Crash, Forget, ReqType, CallType
<1> QED
  BY <1>1, <1>2, <1>3, <1>4, <1>5, <1>6, <1>7, <1>8, <1>9, <1>10, <1>11, <1>12
     DEF Submit

LEMMA SameReq ==
  ASSUME ReqType, UNCHANGED <<lock, reqVars>>
  PROVE  ReqType'
BY DEF ReqType, reqVars

\* A step of an owner's call keeps the types.
LEMMA CallKeepsType ==
  ASSUME ShopAssumption, TypeOK, NEW c \in Calls,
         Owners(c) \/ CallDirectory(c) \/ Handle(c) \/ CallStops(c)
  PROVE  TypeOK'
<1>0. /\ KvType /\ BagType /\ ReqType /\ CallType
      /\ Bookings \subseteq Requests
  BY DEF ShopAssumption, TypeOK
<1>a. ASSUME NEW o \in {"ok", "refused", "failed"}, Finish(c, o)
      PROVE  CallType'
  BY <1>0, <1>a DEF CallType, CallRec, CallSteps, Answered, Finish, Answer
<1>b. ASSUME NEW s \in CallSteps, Step(c, s)
      PROVE  CallType'
  BY <1>0, <1>b DEF CallType, CallRec, Step
<1>r. ASSUME Resend(c)
      PROVE  CallType'
  BY <1>0, <1>r DEF CallType, Resend
<1> USE DEF TypeOK, kvVars
<1>1. ASSUME NEW op \in Ops, NEW t \in Tokens \cup {None}, NEW first \in CallSteps,
             NEW ids \in SUBSET Requests, NEW busy \in SUBSET Times,
             NEW r \in Requests \cup {None}, NEW st \in Statuses \cup {"none"},
             Call(c, op, t, first, ids, busy, r, st)
      PROVE  TypeOK'
  BY <1>0, <1>1, SameBag, SameKv, SameReq DEF Call, CallType, CallRec
<1>2. CASE Owners(c) \/ CallDirectory(c)
  <2>1. CASE CallDirectory(c)
    BY <1>1, <2>1 DEF CallDirectory, Call, CallSteps, Answered
  <2>2. ASSUME NEW t \in Tokens, NEW busy \in SUBSET (Walkins \cup (collected \cap Bookings)),
               CallPublish(c, t, busy)
        PROVE  TypeOK'
    <3>1. busy \in SUBSET Times
      BY <2>2 DEF Times
    <3>2. "publish" \in Ops
      BY <2>2 DEF CallPublish, Call
    <3>3. "claim" \in CallSteps
      BY DEF CallSteps
    <3> QED BY <1>1, <2>2, <3>1, <3>2, <3>3 DEF CallPublish
  <2>3. ASSUME NEW t \in Tokens, CallUnpublish(c, t)
        PROVE  TypeOK'
    BY <1>1, <2>3 DEF CallUnpublish, Call, CallSteps
  <2>4. ASSUME NEW t \in Tokens, NEW ack \in SUBSET collected, CallPull(c, t, ack)
        PROVE  TypeOK'
    <3>1. ack \in SUBSET Requests
      BY <1>0, <2>4 DEF KvType
    <3>2. "pull" \in Ops
      BY <2>4 DEF CallPull, Call
    <3>3. "owns" \in CallSteps
      BY DEF CallSteps
    <3> QED BY <1>1, <2>4, <3>1, <3>2, <3>3 DEF CallPull
  <2>5. ASSUME NEW t \in Tokens, NEW r \in collected, NEW st \in Statuses, CallStatus(c, t, r, st)
        PROVE  TypeOK'
    <3>1. r \in Requests
      BY <1>0, <2>5 DEF KvType
    <3>2. "status" \in Ops
      BY <2>5 DEF CallStatus, Call
    <3>3. "owns" \in CallSteps
      BY DEF CallSteps
    <3> QED BY <1>1, <2>5, <3>1, <3>2, <3>3 DEF CallStatus
  <2> QED BY <1>2, <2>1, <2>2, <2>3, <2>4, <2>5 DEF Owners
<1>3. call[c] \in CallRec
  BY <1>0 DEF CallType
<1>4. CASE Claim(c)
  <2>1. KvType'
    BY <1>0, <1>3, <1>4 DEF Claim, KvType, CallRec
  <2> QED BY <1>0, <1>4, <2>1, <1>b, <1>r, SameBag, SameReq DEF Claim, CallSteps
<1>5. CASE CompareOwner(c)
  BY <1>0, <1>5, <1>a, <1>b, SameBag, SameKv, SameReq DEF CompareOwner, CallSteps
<1>6. CASE RenewOwner(c)
  <2>1. KvType'
    BY <1>0, <1>3, <1>6 DEF RenewOwner, KvType, CallRec
  <2> QED BY <1>0, <1>6, <2>1, <1>b, <1>r, SameBag, SameReq DEF RenewOwner, CallSteps
<1>7. CASE SetPub(c)
  <2>1. KvType'
    BY <1>0, <1>3, <1>7 DEF SetPub, KvType, CallRec, Catalog
  <2> QED BY <1>0, <1>7, <2>1, <1>b, <1>r, SameBag, SameReq DEF SetPub, CallSteps
<1>8. CASE AddToIndex(c)
  BY <1>0, <1>8, <1>a, <1>r, SameBag, SameReq DEF AddToIndex, KvType
<1>9. CASE Owns(c)
  BY <1>0, <1>9, <1>a, <1>b, SameBag, SameKv, SameReq DEF Owns, CallSteps
<1>10. CASE ListInbox(c)
  <2>1. CallType'
    BY <1>0, <1>3, <1>10, ZenonT(60) DEF ListInbox, CallType, CallRec, CallSteps, BagType
  <2> QED BY <1>0, <1>10, <2>1, SameBag, SameKv, SameReq DEF ListInbox
<1>11. CASE DeleteItem(c)
  <2>1. CallType'
    <3>1. ASSUME NEW r \in call[c].ids,
                 call' = [call EXCEPT ![c].pc = IF call[c].ids = {r} THEN "clear" ELSE "delItems",
                                      ![c].ids = @ \ {r}]
          PROVE  CallType'
      BY <1>0, <1>3, <3>1, ZenonT(60) DEF CallType, CallRec, CallSteps
    <3> QED BY <1>11, <1>r, <3>1 DEF DeleteItem
  <2>2. KvType'
    BY <1>0, <1>11 DEF DeleteItem, KvType
  <2> QED BY <1>0, <1>11, <2>1, <2>2, SameBag, SameReq DEF DeleteItem
<1>12. CASE ClearKey(c)
  <2>1. PICK k \in call[c].keys :
          /\ owner' = IF k = "owner" THEN None ELSE owner
          /\ pub'   = IF k = "pub" THEN None ELSE pub
          /\ inbox' = IF k = "inbox" THEN EmptyBag ELSE inbox
          /\ index' = IF k = "index" THEN FALSE ELSE index
          /\ \/ Finish(c, "ok")
             \/ call' = [call EXCEPT ![c].keys = @ \ {k}]
             \/ Resend(c)
    BY <1>12 DEF ClearKey
  <2>2. CallType'
    <3>1. CASE Finish(c, "ok")
      BY <3>1, <1>a
    <3>2. CASE call' = [call EXCEPT ![c].keys = @ \ {k}]
      BY <1>0, <1>3, <3>2 DEF CallType, CallRec
    <3> QED BY <1>r, <2>1, <3>1, <3>2
  <2>3. BagType'
    BY <1>0, <2>1, EmptyIsBag, SameBag
  <2>4. KvType'
    BY <1>0, <1>12, <2>1 DEF ClearKey, KvType
  <2> QED BY <1>0, <1>12, <2>2, <2>3, <2>4, SameReq DEF ClearKey
<1>13. CASE RemoveId(c)
  <2>1. PICK r \in call[c].ids :
          /\ inbox' = [x \in Ids \ {r} |-> inbox[x]]
          /\ \/ call' = [call EXCEPT ![c].pc = "delItem", ![c].cur = r, ![c].ids = @ \ {r}]
             \/ Resend(c)
    BY <1>13 DEF RemoveId
  <2>2. CallType'
    <3>1. CASE Resend(c)
      BY <1>r, <3>1
    <3>2. CASE call' = [call EXCEPT ![c].pc = "delItem", ![c].cur = r, ![c].ids = @ \ {r}]
      BY <1>0, <1>3, <3>2 DEF CallType, CallRec, CallSteps
    <3> QED BY <2>1, <3>1, <3>2
  <2> QED BY <1>0, <1>13, <2>1, <2>2, RemoveBag, SameKv, SameReq DEF RemoveId
<1>14. CASE RemoveItem(c)
  <2>1. CallType'
    <3>1. ASSUME call' = [call EXCEPT ![c].pc = IF call[c].ids = {} THEN "read" ELSE "lrem",
                                      ![c].cur = None]
          PROVE  CallType'
      BY <1>0, <1>3, <3>1, ZenonT(60) DEF CallType, CallRec, CallSteps
    <3> QED BY <1>14, <1>r, <3>1 DEF RemoveItem
  <2>2. KvType'
    BY <1>0, <1>14 DEF RemoveItem, KvType
  <2> QED BY <1>0, <1>14, <2>1, <2>2, SameBag, SameReq DEF RemoveItem
<1>15. CASE ReadInbox(c)
  <2>1. CallType'
    BY <1>0, <1>3, <1>15, ZenonT(60) DEF ReadInbox, CallType, CallRec, CallSteps, BagType
  <2> QED BY <1>0, <1>15, <2>1, SameBag, SameKv, SameReq DEF ReadInbox
<1>16. CASE GetItems(c)
  <2>1. KvType'
    BY <1>0, <1>16 DEF GetItems, KvType
  <2> QED BY <1>0, <1>16, <2>1, <1>a, SameBag, SameReq DEF GetItems
<1>17. CASE GetRef(c)
  BY <1>0, <1>17, <1>a, <1>b, SameBag, SameKv, SameReq DEF GetRef, CallSteps
<1>18. CASE SetStatus(c)
  <2>1. KvType'
    BY <1>0, <1>3, <1>18 DEF SetStatus, KvType, CallRec
  <2> QED BY <1>0, <1>18, <2>1, <1>a, <1>r, SameBag, SameReq DEF SetStatus
<1>19. CASE ReadIndex(c)
  BY <1>0, <1>19, <1>a, <1>b, SameBag, SameKv, SameReq DEF ReadIndex, CallSteps
<1>20. CASE ReadCatalogs(c)
  BY <1>0, <1>20, <1>a, <1>b, SameBag, SameKv, SameReq DEF ReadCatalogs, CallSteps
<1>21. CASE RemoveFromIndex(c)
  BY <1>0, <1>21, <1>a, <1>r, SameBag, SameReq DEF RemoveFromIndex, KvType
<1>22. CASE CallStops(c)
  BY <1>0, <1>22, <1>a, SameBag, SameKv, SameReq DEF CallStops
<1>23. CASE Handle(c)
  BY <1>23, <1>4, <1>5, <1>6, <1>7, <1>8, <1>9, <1>10, <1>11, <1>12, <1>13, <1>14,
     <1>15, <1>16, <1>17, <1>18, <1>19, <1>20, <1>21 DEF Handle
<1> QED BY <1>2, <1>22, <1>23

\* Every state is well typed: whatever the handlers interleave, fail or are killed at,
\* Redis and the handlers hold what the code writes there.
THEOREM TypeCorrect == Spec => []TypeOK
<1>1. Init => TypeOK
  <2> SUFFICES ASSUME Init PROVE TypeOK
    OBVIOUS
  <2>1. KvType
    BY DEF Init, KvType
  <2>2. BagType
    BY DEF Init, BagType, IsABag, Ids, BagToSet, EmptyBag, SetToBag
  <2>3. ReqType
    BY ShopAssumption DEF Init, ReqType, Steps, ShopAssumption
  <2>4. CallType
    BY DEF Init, CallType, CallRec, CallSteps, Answered, Answer
  <2> QED BY <2>1, <2>2, <2>3, <2>4 DEF TypeOK
<1>2. TypeOK /\ [Next]_vars => TypeOK'
  <2> SUFFICES ASSUME TypeOK, [Next]_vars PROVE TypeOK'
    OBVIOUS
  <2>0. KvType /\ BagType /\ ReqType /\ CallType
    BY DEF TypeOK
  <2>1. ASSUME NEW r \in Requests, Submit(r) \/ CommandFails(r) \/ Crash(r)
        PROVE  TypeOK'
    BY <2>1, ShopAssumption, SubmitType
  <2>2. ASSUME NEW r \in Requests, ItemExpires(r)
        PROVE  TypeOK'
    <3>1. KvType'
      BY <2>0, <2>2 DEF ItemExpires, KvType
    <3> QED BY <2>0, <2>2, <3>1, SameBag, SameReq DEF ItemExpires, TypeOK, CallType
  <2>3. ASSUME NEW c \in Calls, Owners(c) \/ CallDirectory(c) \/ Handle(c) \/ CallStops(c)
        PROVE  TypeOK'
    BY <2>3, ShopAssumption, CallKeepsType
  <2>4. CASE LockExpires
    <3>1. ReqType'
      BY <2>0, <2>4 DEF LockExpires, ReqType, reqVars
    <3> QED BY <2>0, <2>4, <3>1, SameBag, SameKv DEF LockExpires, TypeOK, CallType
  <2>5. CASE CatalogExpires
    <3>1. KvType'
      BY <2>0, <2>5 DEF CatalogExpires, KvType
    <3> QED BY <2>0, <2>5, <3>1, SameBag, SameReq DEF CatalogExpires, TypeOK, CallType
  <2>6. CASE UNCHANGED vars
    BY <2>0, <2>6, SameBag, SameKv, SameReq DEF vars, kvVars, TypeOK, CallType
  <2> QED BY <2>1, <2>2, <2>3, <2>4, <2>5, <2>6 DEF Next
<1> QED BY <1>1, <1>2, PTL DEF Spec

-----------------------------------------------------------------------------
(* Bookings that wait are apart. *)

\* What checkBooking accepts excludes no time that was waiting, and exclusion goes
\* both ways.
LEMMA AcceptedIsFree ==
  ASSUME ShopAssumption, NEW r \in Bookings, NEW k, NEW waiting \in SUBSET Bookings,
         NEW w \in waiting, Fits(Seats, BusyWith(k, waiting), Slot[r])
  PROVE  ~Conflict(r, w)
<1> DEFINE busy == BusyWith(k, waiting)
           key  == <<"waiting", w>>
<1>1. key \in DOMAIN busy /\ busy[key] = Slot[w]
  BY DEF BusyWith
<1>2. SUFFICES ASSUME Conflict(r, w) PROVE FALSE
  OBVIOUS
<1>3. key \in Over(busy, Slot[r])
  BY <1>1, <1>2 DEF Over, Conflict, Excludes
<1> QED BY <1>1, <1>2, <1>3 DEF Fits, Conflict, Excludes

LEMMA ConflictSymmetric ==
  ASSUME NEW a, NEW b, Conflict(a, b)
  PROVE  Conflict(b, a)
BY DEF Conflict, Excludes, Clash

\* A step that moves no handler and adds nothing to the inbox keeps the invariant.
LEMMA Shrinks ==
  ASSUME LockInv, UNCHANGED <<pc, seen, lock>>, Ids' \subseteq Ids,
         WaitingBookings' \subseteq WaitingBookings
  PROVE  LockInv'
BY DEF LockInv, LockIsMine, OrdersPass, NotPushed, SawWaiting, StillFree, WaitingApart,
       Conflict

\* A handler that moves to s without touching the inbox keeps it when it has the
\* right to be at s.
LEMMA Moves ==
  ASSUME TypeOK, LockInv, Bookings \subseteq Requests, NEW r \in Requests, NEW s,
         pc' = [pc EXCEPT ![r] = s],
         Ids' = Ids, WaitingBookings' = WaitingBookings,
         \A x \in Requests : x # r => seen'[x] = seen[x],
         \A x \in Bookings : x # r /\ pc[x] \in Guarded => lock' = lock,
         r \in Bookings /\ s \in Guarded => lock' = r,
         r \notin Bookings => s \notin {"lock", "ids", "check"} \cup Unlocks,
         s \in {"new", "limits", "inbox", "lock", "ids", "check", "item"} => r \notin Ids,
         s = "check" => WaitingBookings \subseteq seen'[r],
         r \in Bookings /\ s \in {"item", "push"}
           => \A w \in WaitingBookings : w # r => ~Conflict(r, w)
  PROVE  LockInv'
<1>0. pc \in [Requests -> Steps] /\ \A x \in Requests : pc'[x] = IF x = r THEN s ELSE pc[x]
  BY DEF TypeOK, ReqType
<1>1. LockIsMine'
  BY <1>0 DEF LockInv, LockIsMine
<1>2. OrdersPass'
  BY <1>0 DEF LockInv, OrdersPass
<1>3. NotPushed'
  BY <1>0 DEF LockInv, NotPushed
<1>4. SawWaiting'
  BY <1>0 DEF LockInv, SawWaiting
<1>5. StillFree'
  BY <1>0 DEF LockInv, StillFree, Conflict
<1>6. WaitingApart'
  BY DEF LockInv, WaitingApart, Conflict
<1> QED BY <1>1, <1>2, <1>3, <1>4, <1>5, <1>6 DEF LockInv

\* Every step of a submit handler keeps the invariant.
LEMMA SubmitKeepsInv ==
  ASSUME ShopAssumption, LockSafe, TypeOK, LockInv, NEW r \in Requests,
         Submit(r) \/ CommandFails(r) \/ Crash(r)
  PROVE  LockInv'
<1>0. /\ Bookings \subseteq Requests /\ None \notin Requests
      /\ pc[r] \in Steps /\ pc \in [Requests -> Steps] /\ seen \in [Requests -> SUBSET Requests]
      /\ BagType
  BY DEF ShopAssumption, TypeOK, ReqType
<1>a. ASSUME UNCHANGED <<inbox, items>>
      PROVE  Ids' = Ids /\ WaitingBookings' = WaitingBookings
  BY <1>a DEF Ids, WaitingBookings, Waiting
<1> USE DEF kvVars, Guarded, Unlocks, Ends, Goto, SendAgain
<1>1. CASE ReadCatalog(r)
  <2>1. r \notin Ids
    BY <1>1 DEF ReadCatalog, LockInv, NotPushed
  <2> QED BY <1>0, <1>1, <1>a, <2>1, Moves DEF ReadCatalog
<1>2. CASE Limits(r)
  <2>1. r \notin Ids
    BY <1>2 DEF Limits, LockInv, NotPushed
  <2>2. \A x \in Requests : x # r => seen'[x] = seen[x]
    BY <1>0, <1>2 DEF Limits, Forget
  <2> QED BY <1>0, <1>2, <1>a, <2>1, <2>2, Moves DEF Limits
<1>3. CASE CheckInbox(r)
  <2>1. r \notin Ids
    BY <1>3 DEF CheckInbox, LockInv, NotPushed
  <2>2. \A x \in Requests : x # r => seen'[x] = seen[x]
    BY <1>0, <1>3 DEF CheckInbox, Forget
  <2>3. \/ r \in Bookings /\ pc' = [pc EXCEPT ![r] = "lock"]
        \/ pc' = [pc EXCEPT ![r] = "refused"]
        \/ r \notin Bookings /\ pc' = [pc EXCEPT ![r] = "item"]
    BY <1>3 DEF CheckInbox
  <2>4. UNCHANGED <<inbox, items, lock>>
    BY <1>3 DEF CheckInbox
  <2> QED BY <1>0, <1>a, <2>1, <2>2, <2>3, <2>4, Moves
<1>4. CASE TryLock(r)
  <2>1. r \notin Ids /\ r \in Bookings
    BY <1>4 DEF TryLock, LockInv, NotPushed, OrdersPass
  <2>2. \A x \in Requests : x # r => seen'[x] = seen[x]
    BY <1>0, <1>4 DEF TryLock, Missed, Forget
  <2>3. lock # None => lock' = lock
    BY <1>4 DEF TryLock
  <2>4. \A x \in Bookings : x # r /\ pc[x] \in Guarded => lock' = lock
    BY <1>0, <2>3 DEF LockInv, LockIsMine
  <2>5. UNCHANGED <<inbox, items>>
    BY <1>4 DEF TryLock
  <2>6. CASE pc' = [pc EXCEPT ![r] = "ids"] /\ lock' = r
    BY <1>0, <1>a, <2>1, <2>2, <2>4, <2>5, <2>6, Moves
  <2>7. CASE pc' = [pc EXCEPT ![r] = "refused"]
    BY <1>0, <1>a, <2>1, <2>2, <2>4, <2>5, <2>7, Moves
  <2>8. CASE pc' = pc
    <3>1. pc' = [pc EXCEPT ![r] = "lock"]
      BY <1>0, <1>4, <2>8 DEF TryLock
    <3> QED BY <1>0, <1>a, <2>1, <2>2, <2>4, <2>5, <3>1, Moves
  <2> QED BY <1>4, <2>6, <2>7, <2>8 DEF TryLock, Missed
<1>5. CASE ReadIds(r)
  <2>1. r \notin Ids /\ (r \in Bookings => lock = r) /\ r \in Bookings
    BY <1>5 DEF ReadIds, LockInv, NotPushed, LockIsMine, OrdersPass
  <2>2. /\ \A x \in Requests : x # r => seen'[x] = seen[x]
        /\ WaitingBookings \subseteq seen'[r]
    BY <1>0, <1>5 DEF ReadIds, WaitingBookings, Waiting
  <2> QED BY <1>0, <1>5, <1>a, <2>1, <2>2, Moves DEF ReadIds
<1>6. CASE CheckBooking(r)
  <2>1. r \notin Ids /\ lock = r /\ r \in Bookings /\ WaitingBookings \subseteq seen[r]
    BY <1>6 DEF CheckBooking, LockInv, NotPushed, LockIsMine, OrdersPass, SawWaiting
  <2>2. \A x \in Requests : x # r => seen'[x] = seen[x]
    BY <1>0, <1>6 DEF CheckBooking, Forget
  <2>3. UNCHANGED <<inbox, items, lock>>
    BY <1>6 DEF CheckBooking
  <2>4. CASE pc' = [pc EXCEPT ![r] = "item"]
             /\ Fits(Seats, BusyWith(cat[r], seen[r] \cap items \cap Bookings), Slot[r])
    <3>1. \A w \in WaitingBookings : ~Conflict(r, w)
      <4> SUFFICES ASSUME NEW w \in WaitingBookings PROVE ~Conflict(r, w)
        OBVIOUS
      <4>1. w \in seen[r] \cap items \cap Bookings
        BY <2>1 DEF WaitingBookings, Waiting
      <4> QED BY <2>1, <2>4, <4>1, AcceptedIsFree
    <3> QED BY <1>0, <1>a, <2>1, <2>2, <2>3, <2>4, <3>1, Moves
  <2>5. CASE pc' = [pc EXCEPT ![r] = "unlockRefused"]
    BY <1>0, <1>a, <2>1, <2>2, <2>3, <2>5, Moves
  <2> QED BY <1>6, <2>4, <2>5 DEF CheckBooking
<1>7. CASE SetItem(r)
  <2>1. r \notin Ids /\ (r \in Bookings => lock = r)
    BY <1>7 DEF SetItem, LockInv, NotPushed, LockIsMine
  <2>2. Ids' = Ids /\ WaitingBookings' = WaitingBookings
    BY <1>7, <2>1 DEF SetItem, Ids, WaitingBookings, Waiting
  <2>3. r \in Bookings => \A w \in WaitingBookings : w # r => ~Conflict(r, w)
    BY <1>7 DEF SetItem, LockInv, StillFree
  <2>4. UNCHANGED <<lock, seen>> /\ \E s \in {"push", "item"} : pc' = [pc EXCEPT ![r] = s]
    BY <1>0, <1>7 DEF SetItem
  <2> QED BY <1>0, <2>1, <2>2, <2>3, <2>4, Moves
<1>8. CASE Push(r)
  <2>0. /\ Ids' = Ids \cup {r} /\ UNCHANGED <<items, lock, seen>> /\ pc[r] = "push"
        /\ \E s \in {"unlock", "ref", "push"} :
             /\ pc' = [pc EXCEPT ![r] = s]
             /\ s \in Unlocks => r \in Bookings
    BY <1>0, <1>8, PushBag DEF Push
  <2>1. WaitingBookings' \subseteq WaitingBookings \cup {r}
    BY <2>0 DEF WaitingBookings, Waiting
  <2>2. PICK s \in {"unlock", "ref", "push"} :
          pc' = [pc EXCEPT ![r] = s] /\ (s \in Unlocks => r \in Bookings)
    BY <2>0
  <2>3. \A x \in Requests : pc'[x] = IF x = r THEN s ELSE pc[x]
    BY <1>0, <2>2
  <2>4. r \in Bookings => /\ lock = r
                          /\ \A x \in Bookings : x # r => pc[x] \notin Guarded
                          /\ \A w \in WaitingBookings : w # r => ~Conflict(r, w)
    BY <1>0, <2>0 DEF LockInv, LockIsMine, StillFree
  <2>5. LockIsMine' /\ OrdersPass' /\ NotPushed'
    BY <1>0, <2>0, <2>2, <2>3, <2>4 DEF LockInv, LockIsMine, OrdersPass, NotPushed
  <2>6. r \notin Bookings => WaitingBookings' \subseteq WaitingBookings
    BY <2>1 DEF WaitingBookings
  <2>7. SawWaiting'
    BY <1>0, <2>0, <2>2, <2>3, <2>4, <2>6 DEF LockInv, SawWaiting
  <2>8. StillFree'
    BY <1>0, <2>0, <2>1, <2>2, <2>3, <2>4, <2>6 DEF LockInv, StillFree, Conflict
  <2>9. WaitingApart'
    <3> SUFFICES ASSUME NEW a \in WaitingBookings', NEW b \in WaitingBookings', a # b
                 PROVE  ~Conflict(a, b)
      BY DEF WaitingApart, Conflict
    <3>1. CASE a # r /\ b # r
      BY <2>1, <3>1 DEF LockInv, WaitingApart
    <3>2. CASE a = r
      BY <2>1, <2>4, <2>6, <3>2 DEF LockInv, WaitingApart
    <3>3. CASE b = r
      BY <2>1, <2>4, <2>6, <3>3, ConflictSymmetric DEF LockInv, WaitingApart
    <3> QED BY <3>1, <3>2, <3>3
  <2> QED BY <2>5, <2>7, <2>8, <2>9 DEF LockInv
<1>9. CASE Unlock(r)
  <2>1. r \in Bookings /\ \A x \in Bookings : x # r => pc[x] \notin Guarded
    BY <1>0, <1>9 DEF Unlock, LockInv, LockIsMine, OrdersPass
  <2>2. \E s \in {"ref", "refused", "failed"} : pc' = [pc EXCEPT ![r] = s]
    BY <1>9 DEF Unlock, LockSafe
  <2>3. UNCHANGED <<inbox, items, seen>>
    BY <1>9 DEF Unlock
  <2> QED BY <1>0, <1>a, <2>1, <2>2, <2>3, Moves, ZenonT(60)
<1>10. CASE SetRef(r)
  <2>1. /\ UNCHANGED <<inbox, items, lock, seen>>
        /\ \E s \in {"ref", "accepted"} : pc' = [pc EXCEPT ![r] = s]
    BY <1>0, <1>10 DEF SetRef
  <2> QED BY <1>0, <1>a, <2>1, Moves
<1>11. CASE CommandFails(r)
  <2>1. \A x \in Requests : x # r => seen'[x] = seen[x]
    BY <1>0, <1>11 DEF CommandFails, Forget
  <2>2. UNCHANGED <<inbox, items, lock>>
    BY <1>11 DEF CommandFails
  <2>3. CASE Critical(r) /\ pc' = [pc EXCEPT ![r] = "unlockFailed"]
    <3>1. r \in Bookings /\ lock = r
      BY <2>3 DEF Critical, LockInv, LockIsMine
    <3> QED BY <1>0, <1>a, <2>1, <2>2, <2>3, <3>1, Moves
  <2>4. CASE pc' = [pc EXCEPT ![r] = "failed"]
    BY <1>0, <1>a, <2>1, <2>2, <2>4, Moves
  <2> QED BY <1>11, <2>3, <2>4 DEF CommandFails
<1>12. CASE Crash(r)
  <2>1. \A x \in Requests : x # r => seen'[x] = seen[x]
    BY <1>0, <1>12 DEF Crash, Forget
  <2> QED BY <1>0, <1>12, <1>a, <2>1, Moves DEF Crash
<1> QED
  BY <1>1, <1>2, <1>3, <1>4, <1>5, <1>6, <1>7, <1>8, <1>9, <1>10, <1>11, <1>12
     DEF Submit

\* Owner calls and TTLs move no submit handler and only take ids and items away.
LEMMA CallsOnlyTake ==
  ASSUME TypeOK, NEW c \in Calls, Owners(c) \/ CallDirectory(c) \/ Handle(c) \/ CallStops(c)
  PROVE  /\ UNCHANGED <<pc, seen, lock>> /\ Ids' \subseteq Ids
         /\ WaitingBookings' \subseteq WaitingBookings
<1>0. BagType
  BY DEF TypeOK
<1>1. UNCHANGED <<pc, seen, lock>>
  BY DEF Owners, CallPublish, CallUnpublish, CallPull, CallStatus, CallDirectory, Call,
         Handle, CallStops, Claim, CompareOwner, RenewOwner, SetPub, AddToIndex, Owns,
         ListInbox, DeleteItem, ClearKey, RemoveId, RemoveItem, ReadInbox, GetItems, GetRef,
         SetStatus, ReadIndex, ReadCatalogs, RemoveFromIndex, kvVars, reqVars
<1>2. \/ UNCHANGED <<inbox, items>>
      \/ DeleteItem(c) \/ ClearKey(c) \/ RemoveId(c) \/ RemoveItem(c)
  BY DEF Owners, CallPublish, CallUnpublish, CallPull, CallStatus, CallDirectory, Call,
         Handle, CallStops, Claim, CompareOwner, RenewOwner, SetPub, AddToIndex, Owns,
         ListInbox, ReadInbox, GetItems, GetRef, SetStatus, ReadIndex, ReadCatalogs,
         RemoveFromIndex, kvVars, reqVars
<1>3. Ids' \subseteq Ids /\ items' \subseteq items
  <2>1. CASE UNCHANGED <<inbox, items>>
    BY <2>1 DEF Ids
  <2>2. CASE DeleteItem(c)
    BY <2>2 DEF DeleteItem, Ids
  <2>3. CASE ClearKey(c)
    <3>1. UNCHANGED items /\ (UNCHANGED inbox \/ inbox' = EmptyBag)
      BY <2>3 DEF ClearKey
    <3> QED BY <3>1, EmptyIsBag DEF Ids
  <2>4. CASE RemoveId(c)
    BY <1>0, <2>4, RemoveBag DEF RemoveId
  <2>5. CASE RemoveItem(c)
    BY <2>5 DEF RemoveItem, Ids
  <2> QED BY <1>2, <2>1, <2>2, <2>3, <2>4, <2>5
<1> QED BY <1>1, <1>3 DEF WaitingBookings, Waiting

\* The lock's TTL runs out only behind a handler that is not inside it.
LEMMA ExpiryKeepsInv ==
  ASSUME ShopAssumption, TypeOK, LockInv, LockSafe, LockExpires
  PROVE  LockInv'
<1>1. /\ UNCHANGED <<pc, seen, inbox, items>>
      /\ Ids' = Ids /\ WaitingBookings' = WaitingBookings
  BY DEF LockExpires, reqVars, Ids, WaitingBookings, Waiting
<1>2. LockIsMine'
  BY <1>1 DEF LockExpires, Critical, LockInv, LockIsMine, LockSafe
<1>3. OrdersPass' /\ NotPushed' /\ SawWaiting'
  BY <1>1 DEF LockInv, OrdersPass, NotPushed, SawWaiting
<1>4. StillFree' /\ WaitingApart'
  BY <1>1 DEF LockInv, StillFree, WaitingApart, Conflict
<1> QED BY <1>2, <1>3, <1>4 DEF LockInv

LEMMA LockInvInit == ShopAssumption /\ Init => LockInv
<1> SUFFICES ASSUME ShopAssumption, Init PROVE LockInv
  OBVIOUS
<1>1. Ids = {}
  BY DEF Init, Ids, BagToSet, EmptyBag, SetToBag
<1>2. WaitingBookings = {}
  BY <1>1 DEF WaitingBookings, Waiting
<1>3. \A r \in Requests : pc[r] = "new"
  BY DEF Init
<1>4. LockIsMine /\ OrdersPass
  BY <1>3 DEF LockIsMine, OrdersPass, Guarded, Unlocks, ShopAssumption
<1>5. NotPushed /\ SawWaiting /\ StillFree /\ WaitingApart
  BY <1>1, <1>2 DEF NotPushed, SawWaiting, StillFree, WaitingApart
<1> QED BY <1>4, <1>5 DEF LockInv

LEMMA NextKeepsInv ==
  ASSUME ShopAssumption, LockSafe, TypeOK, LockInv, [Next]_vars
  PROVE  LockInv'
<1>1. ASSUME NEW r \in Requests, Submit(r) \/ CommandFails(r) \/ Crash(r)
      PROVE  LockInv'
  BY <1>1, SubmitKeepsInv
<1>2. ASSUME NEW r \in Requests, ItemExpires(r)
      PROVE  LockInv'
  <2>1. Ids' \subseteq Ids /\ WaitingBookings' \subseteq WaitingBookings
    BY <1>2 DEF ItemExpires, Ids, WaitingBookings, Waiting
  <2> QED BY <1>2, <2>1, Shrinks DEF ItemExpires, reqVars
<1>3. ASSUME NEW c \in Calls, Owners(c) \/ CallDirectory(c) \/ Handle(c) \/ CallStops(c)
      PROVE  LockInv'
  BY <1>3, CallsOnlyTake, Shrinks
<1>4. CASE LockExpires
  BY <1>4, ExpiryKeepsInv
<1>5. CASE CatalogExpires \/ UNCHANGED vars
  <2>1. UNCHANGED <<pc, seen, lock, inbox, items>>
    BY <1>5 DEF CatalogExpires, vars, kvVars, reqVars
  <2>2. Ids' \subseteq Ids /\ WaitingBookings' \subseteq WaitingBookings
    BY <2>1 DEF Ids, WaitingBookings, Waiting
  <2> QED BY <2>1, <2>2, Shrinks
<1> QED BY <1>1, <1>2, <1>3, <1>4, <1>5 DEF Next

\* When no handler outlives its lock and no DEL of the lock is sent again, the bookings
\* waiting for the phone never take the same time twice: whatever customers, owners,
\* crashes, failed commands, every other repeated command and expiries do in between.
THEOREM WaitingStaysApart == LockSafe /\ Spec => []WaitingApart
<1> SUFFICES ASSUME LockSafe PROVE Spec => []WaitingApart
  OBVIOUS
<1>1. TypeOK /\ LockInv /\ [Next]_vars => LockInv'
  BY ShopAssumption, NextKeepsInv
<1>2. Init => LockInv
  BY ShopAssumption, LockInvInit
<1>3. LockInv => WaitingApart
  BY DEF LockInv
<1> QED BY <1>1, <1>2, <1>3, TypeCorrect, PTL DEF Spec

-----------------------------------------------------------------------------
(* The handlers implement the clerk of Desk. *)

\* Bookings are taken one at a time, each only when no waiting one excludes it, and
\* leave by being collected, deleted or expired: the server is a Desk, under the same
\* two conditions on the lock.
THEOREM ServerIsDesk == LockSafe /\ Spec => TakesInTurn
<1> SUFFICES ASSUME LockSafe PROVE Spec => TakesInTurn
  OBVIOUS
<1>1. Init => TheDesk!Init
  BY DEF Init, TheDesk!Init, WaitingBookings, Waiting, Ids, BagToSet, EmptyBag, SetToBag
<1>2. TypeOK /\ LockInv /\ [Next]_vars => [TheDesk!Next]_WaitingBookings
  <2> SUFFICES ASSUME TypeOK, LockInv, [Next]_vars PROVE [TheDesk!Next]_WaitingBookings
    OBVIOUS
  <2>1. ASSUME WaitingBookings' \subseteq WaitingBookings
        PROVE  [TheDesk!Next]_WaitingBookings
    BY <2>1 DEF TheDesk!Next, TheDesk!Leave
  <2>2. ASSUME NEW r \in Requests, Push(r)
        PROVE  [TheDesk!Next]_WaitingBookings
    <3>1. Ids' = Ids \cup {r} /\ UNCHANGED items /\ pc[r] = "push"
      BY <2>2, PushBag DEF Push, TypeOK
    <3>2. WaitingBookings' = WaitingBookings \cup ({r} \cap items \cap Bookings)
      BY <3>1 DEF WaitingBookings, Waiting
    <3>3. CASE r \in WaitingBookings \/ r \notin items \cap Bookings
      BY <2>1, <3>2, <3>3
    <3>4. CASE r \notin WaitingBookings /\ r \in items \cap Bookings
      <4>1. \A w \in WaitingBookings : ~TheDesk!Conflict(r, w)
        BY <3>1, <3>4 DEF LockInv, StillFree, Conflict, Excludes, Clash,
                                   TheDesk!Conflict, TheDesk!Excludes, TheDesk!Clash
      <4>2. TheDesk!Take(r)
        BY <3>2, <3>4, <4>1 DEF TheDesk!Take
      <4> QED BY <3>4, <4>2 DEF TheDesk!Next
    <3> QED BY <3>3, <3>4
  <2>3. ASSUME NEW r \in Requests, Submit(r) \/ CommandFails(r) \/ Crash(r), ~Push(r)
        PROVE  [TheDesk!Next]_WaitingBookings
    <3>1. CASE SetItem(r)
      <4>1. r \notin Ids
        BY <3>1 DEF SetItem, LockInv, NotPushed
      <4> QED BY <2>1, <3>1, <4>1 DEF SetItem, WaitingBookings, Waiting, Ids
    <3>2. CASE ~SetItem(r)
      <4>1. UNCHANGED <<inbox, items>>
        BY <2>3, <3>2 DEF Submit, ReadCatalog, Limits, CheckInbox, TryLock, ReadIds,
           CheckBooking, Unlock, SetRef, CommandFails, Crash, kvVars
      <4> QED BY <2>1, <4>1 DEF WaitingBookings, Waiting, Ids
    <3> QED BY <3>1, <3>2
  <2>4. ASSUME NEW c \in Calls, Owners(c) \/ CallDirectory(c) \/ Handle(c) \/ CallStops(c)
        PROVE  [TheDesk!Next]_WaitingBookings
    BY <2>1, <2>4, CallsOnlyTake
  <2>5. ASSUME NEW r \in Requests, ItemExpires(r)
        PROVE  [TheDesk!Next]_WaitingBookings
    BY <2>1, <2>5 DEF ItemExpires, WaitingBookings, Waiting, Ids
  <2>6. CASE LockExpires \/ CatalogExpires \/ UNCHANGED vars
    BY <2>1, <2>6 DEF LockExpires, CatalogExpires, vars, kvVars, WaitingBookings, Waiting, Ids
  <2> QED BY <2>2, <2>3, <2>4, <2>5, <2>6 DEF Next
<1>3. TypeOK /\ LockInv /\ [Next]_vars => LockInv'
  BY ShopAssumption, NextKeepsInv
<1>4. Init => LockInv
  BY ShopAssumption, LockInvInit
<1> QED BY <1>1, <1>2, <1>3, <1>4, TypeCorrect, PTL DEF Spec, TakesInTurn, TheDesk!Spec

-----------------------------------------------------------------------------
(* A slug belongs to the token that claimed it. *)

\* A step of a call keeps the slug with its owner, and the page with the slug.
LEMMA CallKeepsSlug ==
  ASSUME "unpublish" \notin Ops, TypeOK, SlugInv, NEW c \in Calls,
         Owners(c) \/ CallDirectory(c) \/ Handle(c) \/ CallStops(c)
  PROVE  SlugInv' /\ owner \in {None, owner'}
<1>0. call \in [Calls -> CallRec] /\ call[c] \in CallRec /\ call[c].op # "unpublish"
  BY DEF TypeOK, CallType, CallRec
<1>a. ASSUME UNCHANGED <<owner, pub>>,
             \A d \in Calls : d # c => call'[d] = call[d],
             call'[c].pc \in {"claim", "compare", "renew", "setPub"} => call'[c].tok # None,
             call'[c].pc \in {"renew", "setPub"} => call'[c].tok = owner,
             call'[c].pc \notin {"list", "delItems", "clear"}
      PROVE  SlugInv' /\ owner \in {None, owner'}
  BY <1>a DEF SlugInv, PageIsOwners
<1>b. ASSUME NEW o \in {"ok", "refused", "failed"}, Finish(c, o), UNCHANGED <<owner, pub>>
      PROVE  SlugInv' /\ owner \in {None, owner'}
  BY <1>0, <1>a, <1>b DEF Finish, Answer
<1>c. ASSUME NEW s \in CallSteps, Step(c, s), UNCHANGED <<owner, pub>>,
             s \in {"claim", "compare", "renew", "setPub"} => call[c].tok # None,
             s \in {"renew", "setPub"} => call[c].tok = owner,
             s \notin {"list", "delItems", "clear"}
      PROVE  SlugInv' /\ owner \in {None, owner'}
  BY <1>0, <1>a, <1>c DEF Step, CallRec
<1> USE DEF kvVars
<1>d. ASSUME NEW op, NEW t, NEW first \in {"claim", "owns", "members"}, NEW ids, NEW busy,
             NEW r, NEW st, Call(c, op, t, first, ids, busy, r, st), first = "claim" => t # None
      PROVE  SlugInv' /\ owner \in {None, owner'}
  BY <1>0, <1>a, <1>d DEF Call
<1>1. CASE Owners(c) \/ CallDirectory(c)
  <2>1. CASE CallDirectory(c)
    BY <1>d, <2>1 DEF CallDirectory
  <2>2. ASSUME NEW t \in Tokens, NEW busy, CallPublish(c, t, busy)
        PROVE  SlugInv' /\ owner \in {None, owner'}
    BY <1>d, <2>2, ShopAssumption DEF CallPublish, ShopAssumption
  <2>3. ASSUME NEW t, CallUnpublish(c, t)
        PROVE  SlugInv' /\ owner \in {None, owner'}
    BY <1>d, <2>3 DEF CallUnpublish
  <2>4. ASSUME NEW t, NEW ack, CallPull(c, t, ack)
        PROVE  SlugInv' /\ owner \in {None, owner'}
    BY <1>d, <2>4 DEF CallPull
  <2>5. ASSUME NEW t, NEW r, NEW st, CallStatus(c, t, r, st)
        PROVE  SlugInv' /\ owner \in {None, owner'}
    BY <1>d, <2>5 DEF CallStatus
  <2> QED BY <1>1, <2>1, <2>2, <2>3, <2>4, <2>5 DEF Owners
<1>r. ASSUME Resend(c), UNCHANGED <<owner, pub>>
      PROVE  SlugInv' /\ owner \in {None, owner'}
  BY <1>r DEF Resend, SlugInv, PageIsOwners
<1>2. CASE Claim(c)
  <2>1. CASE owner = None
    <3>1. /\ owner' = call[c].tok /\ pub' = pub /\ call[c].tok # None /\ call[c].pc = "claim"
          /\ Step(c, "setPub") \/ call' = call
      BY <1>2, <2>1 DEF Claim, Resend, SlugInv
    <3>2. \A d \in Calls : d # c => call'[d] = call[d]
      BY <1>0, <3>1 DEF Step
    <3>3. call'[c].pc \in {"setPub", "claim"} /\ call'[c].tok = call[c].tok
      BY <1>0, <3>1 DEF CallRec, Step
    <3> QED BY <2>1, <3>1, <3>2, <3>3 DEF SlugInv, PageIsOwners
  <2>2. CASE owner # None
    BY <1>0, <1>2, <1>c, <2>2 DEF Claim, CallSteps, SlugInv
  <2> QED BY <2>1, <2>2
<1>3. CASE CompareOwner(c)
  BY <1>0, <1>3, <1>b, <1>c DEF CompareOwner, CallSteps, SlugInv
<1>4. CASE RenewOwner(c)
  <2>1. owner' = owner /\ call[c].tok = owner
    BY <1>4 DEF RenewOwner, SlugInv
  <2> QED BY <1>4, <1>c, <1>r, <2>1 DEF RenewOwner, CallSteps, SlugInv
<1>5. CASE SetPub(c)
  <2>1. pub' = [by |-> owner, busy |-> call[c].busy] /\ owner' = owner /\ owner # None
    BY <1>5 DEF SetPub, SlugInv
  <2>2. Step(c, "sadd") \/ call' = call
    BY <1>5 DEF SetPub, Resend
  <2>3. \A d \in Calls : d # c => call'[d] = call[d]
    BY <1>0, <2>2 DEF Step
  <2>4. call'[c] = call[c] \/ call'[c].pc = "sadd"
    BY <1>0, <2>2 DEF CallRec, Step
  <2> QED BY <2>1, <2>3, <2>4 DEF SlugInv, PageIsOwners
<1>6. CASE Owns(c)
  BY <1>0, <1>6, <1>b, <1>c DEF Owns, CallSteps
<1>7. CASE ListInbox(c) \/ DeleteItem(c) \/ ClearKey(c)
  BY <1>0, <1>7 DEF ListInbox, DeleteItem, ClearKey, SlugInv
<1>8. CASE RemoveId(c)
  <2>1. call'[c].pc \in {"delItem", "lrem"} /\ \A d \in Calls : d # c => call'[d] = call[d]
    BY <1>0, <1>8 DEF RemoveId, Resend, CallRec
  <2> QED BY <1>8, <1>a, <2>1 DEF RemoveId
<1>9. CASE RemoveItem(c)
  <2>1. call'[c].pc \in {"read", "lrem", "delItem"} /\ \A d \in Calls : d # c => call'[d] = call[d]
    BY <1>0, <1>9 DEF RemoveItem, Resend, CallRec
  <2> QED BY <1>9, <1>a, <2>1 DEF RemoveItem
<1>10. CASE ReadInbox(c)
  <2>1. call'[c].pc = "gets" /\ \A d \in Calls : d # c => call'[d] = call[d]
    BY <1>0, <1>10 DEF ReadInbox, CallRec
  <2> QED BY <1>10, <1>a, <2>1 DEF ReadInbox
<1>11. CASE GetRef(c) \/ ReadIndex(c) \/ ReadCatalogs(c)
  BY <1>11, <1>b, <1>c DEF GetRef, ReadIndex, ReadCatalogs, CallSteps
<1>12. CASE AddToIndex(c) \/ GetItems(c) \/ SetStatus(c) \/ RemoveFromIndex(c) \/ CallStops(c)
  BY <1>12, <1>b, <1>r DEF AddToIndex, GetItems, SetStatus, RemoveFromIndex, CallStops
<1> QED
  BY <1>1, <1>2, <1>3, <1>4, <1>5, <1>6, <1>7, <1>8, <1>9, <1>10, <1>11, <1>12 DEF Handle

LEMMA NextKeepsSlug ==
  ASSUME "unpublish" \notin Ops, "catalog" \notin Expiring, TypeOK, SlugInv, [Next]_vars
  PROVE  SlugInv' /\ owner \in {None, owner'}
<1>1. ASSUME NEW c \in Calls, Owners(c) \/ CallDirectory(c) \/ Handle(c) \/ CallStops(c)
      PROVE  SlugInv' /\ owner \in {None, owner'}
  BY <1>1, CallKeepsSlug
<1>2. ASSUME UNCHANGED <<owner, pub, call>>
      PROVE  SlugInv' /\ owner \in {None, owner'}
  BY <1>2 DEF SlugInv, PageIsOwners
<1>3. ASSUME NEW r \in Requests, Submit(r) \/ CommandFails(r) \/ Crash(r) \/ ItemExpires(r)
      PROVE  UNCHANGED <<owner, pub, call>>
  BY <1>3 DEF Submit, ReadCatalog, Limits, CheckInbox, TryLock, ReadIds, CheckBooking,
     SetItem, Push, Unlock, SetRef, CommandFails, Crash, ItemExpires, kvVars
<1>4. CASE LockExpires \/ CatalogExpires \/ UNCHANGED vars
  BY <1>2, <1>4 DEF LockExpires, CatalogExpires, vars, kvVars
<1> QED BY <1>1, <1>2, <1>3, <1>4 DEF Next

LEMMA SlugIsKept ==
  "unpublish" \notin Ops /\ "catalog" \notin Expiring /\ Spec => []PageIsOwners /\ OwnerKept
<1> SUFFICES ASSUME "unpublish" \notin Ops, "catalog" \notin Expiring
             PROVE  Spec => []PageIsOwners /\ OwnerKept
  OBVIOUS
<1>1. Init => SlugInv
  BY DEF Init, SlugInv, PageIsOwners, Answer
<1>2. TypeOK /\ SlugInv /\ [Next]_vars => SlugInv'
  BY NextKeepsSlug
<1>3. TypeOK /\ SlugInv /\ [Next]_vars
        => [owner \notin {None, owner'}
              => \E c \in Calls : call[c].op = "unpublish" /\ call[c].tok = owner]_vars
  BY NextKeepsSlug
<1>4. SlugInv => PageIsOwners
  BY DEF SlugInv
<1> QED BY <1>1, <1>2, <1>3, <1>4, TypeCorrect, PTL DEF Spec, OwnerKept

\* While the shop is not turned off and its keys do not expire, no other token ever
\* takes the slug (claim by setNx, and the comparison before every write).
THEOREM SlugStays ==
  ASSUME "unpublish" \notin Ops, "catalog" \notin Expiring PROVE Spec => OwnerKept
BY SlugIsKept, PTL

\* Under the same conditions the page under the slug is always one the slug's owner
\* published, whichever of several owners' calls were under way.
THEOREM PageStaysOwners ==
  ASSUME "unpublish" \notin Ops, "catalog" \notin Expiring PROVE Spec => []PageIsOwners
BY SlugIsKept, PTL

---------------------------------------------------------------------------
(* The handlers of submit, one command at a time *)

\* not yet past the push of its id
Before == {"new", "limits", "inbox", "lock", "ids", "check", "item"}
Told == {"unlock", "ref", "accepted"}

\* What one command of a submit handler does to the inbox and the items, by
\* where it goes.
LEMMA SubmitMoves ==
  ASSUME ShopAssumption, TypeOK, NEW r \in Requests, Submit(r) \/ CommandFails(r) \/ Crash(r)
  PROVE  /\ UNCHANGED <<owner, pub, index, collected, call>>
         /\ \A x \in Requests : x # r => pc'[x] = pc[x]
         /\ \/ SetItem(r) /\ pc[r] = "item" /\ pc'[r] \in {"push", "item"}
            \/ Push(r) /\ pc[r] = "push" /\ pc'[r] \in {"push", "unlock", "ref"}
            \/ /\ UNCHANGED <<inbox, items>>
               /\ pc'[r] \in Before => pc[r] \in Before
               /\ pc'[r] # "push"
               /\ pc'[r] \in Told => pc[r] \in Told
<1>0. pc \in [Requests -> Steps] BY DEF TypeOK, ReqType
<1>1. CASE SetItem(r) BY <1>0, <1>1 DEF SetItem, Goto, SendAgain
<1>2. CASE Push(r) BY <1>0, <1>2 DEF Push, Goto, SendAgain
<1>3. CASE ReadCatalog(r) BY <1>0, <1>3 DEF ReadCatalog, Goto, Before, Told, kvVars
<1>4. CASE Limits(r) BY <1>0, <1>4 DEF Limits, Goto, Before, Told, kvVars
<1>5. CASE CheckInbox(r) BY <1>0, <1>5 DEF CheckInbox, Goto, Before, Told, kvVars
<1>6. CASE TryLock(r) BY <1>0, <1>6 DEF TryLock, Missed, SendAgain, Goto, Before, Told, kvVars
<1>7. CASE ReadIds(r) BY <1>0, <1>7 DEF ReadIds, Goto, Before, Told, kvVars
<1>8. CASE CheckBooking(r) BY <1>0, <1>8 DEF CheckBooking, Goto, Before, Told, kvVars
<1>9. CASE Unlock(r) BY <1>0, <1>9 DEF Unlock, Unlocks, SendAgain, Goto, Before, Told, kvVars
<1>10. CASE SetRef(r) BY <1>0, <1>10 DEF SetRef, SendAgain, Goto, Before, Told, kvVars
<1>11. CASE CommandFails(r) BY <1>0, <1>11 DEF CommandFails, Goto, Before, Told, kvVars
<1>12. CASE Crash(r) BY <1>0, <1>12 DEF Crash, Goto, Before, Told, kvVars
<1> QED BY <1>1, <1>2, <1>3, <1>4, <1>5, <1>6, <1>7, <1>8, <1>9, <1>10, <1>11, <1>12 DEF Submit

---------------------------------------------------------------------------
(* What was accepted is kept, while nobody turns the shop off *)

\* A call removes only what some answer contained.
AckInv ==
  \A c \in Calls :
    /\ call[c].pc \notin {"list", "delItems", "clear"}
    /\ call[c].pc \in {"owns", "lrem", "delItem"} => call[c].ids \subseteq collected
    /\ call[c].pc = "delItem" => call[c].cur \in collected

KeptInv ==
  /\ AckInv
  /\ \A r \in Requests : pc[r] = "push" => r \in items \cup collected
  /\ \A r \in Requests : pc[r] \in Told => r \in Waiting \cup collected

\* A step of a call keeps AckInv, and takes out of the inbox and the items only
\* what was collected.
LEMMA CallKeepsAck ==
  ASSUME ShopAssumption, "unpublish" \notin Ops, TypeOK, AckInv, NEW c \in Calls,
         Owners(c) \/ CallDirectory(c) \/ Handle(c) \/ CallStops(c)
  PROVE  /\ AckInv' /\ UNCHANGED pc /\ collected \subseteq collected'
         /\ \/ UNCHANGED inbox
            \/ \E r \in call[c].ids :
                 RemoveId(c) /\ r \in collected /\ inbox' = [x \in Ids \ {r} |-> inbox[x]]
         /\ UNCHANGED items \/ (RemoveItem(c) /\ call[c].cur \in collected)
<1>0. call \in [Calls -> CallRec] /\ call[c] \in CallRec /\ call[c].op # "unpublish"
  BY DEF TypeOK, CallType, CallRec
<1>a. ASSUME collected \subseteq collected', \A d \in Calls : d # c => call'[d] = call[d],
             call'[c].pc \notin {"list", "delItems", "clear"},
             call'[c].pc \in {"owns", "lrem", "delItem"} => call'[c].ids \subseteq collected,
             call'[c].pc = "delItem" => call'[c].cur \in collected
      PROVE  AckInv'
  BY <1>a DEF AckInv
<1>b. ASSUME NEW o \in {"ok", "refused", "failed"}, Finish(c, o), collected \subseteq collected' PROVE AckInv'
  BY <1>0, <1>a, <1>b DEF Finish, Answer
<1>r. ASSUME Resend(c), UNCHANGED collected PROVE AckInv'
  BY <1>r DEF Resend, AckInv
<1>c. ASSUME NEW s \in CallSteps, Step(c, s), UNCHANGED collected, s # "owns",
             s = "lrem" => call[c].ids \subseteq collected, s # "delItem",
             s \notin {"list", "delItems", "clear"}
      PROVE  AckInv'
  BY <1>0, <1>a, <1>c DEF Step, CallRec
<1> USE DEF kvVars, reqVars
<1>d. ASSUME NEW op, NEW t, NEW first \in {"claim", "owns", "members"}, NEW ids, NEW busy,
             NEW r, NEW st, Call(c, op, t, first, ids, busy, r, st), ids \subseteq collected
      PROVE  AckInv' /\ UNCHANGED <<pc, collected, inbox, items>>
  <2>1. UNCHANGED <<pc, collected, inbox, items>> BY <1>d DEF Call
  <2>2. /\ call'[c].pc = first /\ call'[c].ids = ids
        /\ \A d \in Calls : d # c => call'[d] = call[d]
    BY <1>0, <1>d DEF Call
  <2> QED BY <1>a, <2>1, <2>2, <1>d
<1>1. CASE Owners(c) \/ CallDirectory(c)
  <2>1. CASE CallDirectory(c)
    BY <1>d, <2>1 DEF CallDirectory
  <2>2. ASSUME NEW t, NEW busy, CallPublish(c, t, busy)
        PROVE  AckInv' /\ UNCHANGED <<pc, collected, inbox, items>>
    BY <1>d, <2>2 DEF CallPublish
  <2>3. ASSUME NEW t, CallUnpublish(c, t)
        PROVE  AckInv' /\ UNCHANGED <<pc, collected, inbox, items>>
    BY <1>d, <2>3 DEF CallUnpublish
  <2>4. ASSUME NEW t, NEW ack \in SUBSET collected, CallPull(c, t, ack)
        PROVE  AckInv' /\ UNCHANGED <<pc, collected, inbox, items>>
    BY <1>d, <2>4 DEF CallPull
  <2>5. ASSUME NEW t, NEW r, NEW st, CallStatus(c, t, r, st)
        PROVE  AckInv' /\ UNCHANGED <<pc, collected, inbox, items>>
    BY <1>d, <2>5 DEF CallStatus
  <2> QED BY <1>1, <2>1, <2>2, <2>3, <2>4, <2>5 DEF Owners
<1>2. CASE Claim(c) BY <1>0, <1>2, <1>c, <1>r DEF Claim, CallSteps
<1>3. CASE CompareOwner(c) BY <1>0, <1>3, <1>b, <1>c DEF CompareOwner, CallSteps
<1>4. CASE RenewOwner(c) BY <1>4, <1>c, <1>r DEF RenewOwner, CallSteps
<1>5. CASE SetPub(c) BY <1>5, <1>c, <1>r DEF SetPub, CallSteps
<1>6. CASE Owns(c) BY <1>0, <1>6, <1>b, <1>c DEF Owns, CallSteps, AckInv
<1>7. CASE ListInbox(c) \/ DeleteItem(c) \/ ClearKey(c)
  BY <1>7 DEF ListInbox, DeleteItem, ClearKey, AckInv
<1>8. CASE RemoveId(c)
  <2>1. PICK r \in call[c].ids :
          /\ inbox' = [x \in Ids \ {r} |-> inbox[x]]
          /\ \/ call' = [call EXCEPT ![c].pc = "delItem", ![c].cur = r, ![c].ids = @ \ {r}]
             \/ Resend(c)
    BY <1>8 DEF RemoveId
  <2>3. call[c].ids \subseteq collected BY <1>8 DEF RemoveId, AckInv
  <2>4. UNCHANGED <<pc, items, collected>> BY <1>8 DEF RemoveId
  <2>5. CASE Resend(c) BY <1>8, <1>r, <2>1, <2>3, <2>4, <2>5
  <2>6. CASE call' = [call EXCEPT ![c].pc = "delItem", ![c].cur = r, ![c].ids = @ \ {r}]
    <3>1. /\ call'[c].pc = "delItem" /\ call'[c].cur = r /\ call'[c].ids \subseteq call[c].ids
          /\ \A d \in Calls : d # c => call'[d] = call[d]
      BY <1>0, <2>6 DEF CallRec
    <3>2. AckInv' BY <1>a, <2>3, <2>4, <3>1
    <3> QED BY <1>8, <2>1, <2>3, <2>4, <3>2
  <2> QED BY <2>1, <2>5, <2>6
<1>9. CASE RemoveItem(c)
  <2>1. /\ call'[c].pc \in {"read", "lrem", "delItem"} /\ \A d \in Calls : d # c => call'[d] = call[d]
        /\ call'[c].ids = call[c].ids /\ (call'[c].pc = "delItem" => call'[c].cur = call[c].cur)
    BY <1>0, <1>9 DEF RemoveItem, Resend, CallRec
  <2>2. call[c].ids \subseteq collected /\ call[c].cur \in collected /\ UNCHANGED <<pc, inbox, collected>>
    BY <1>9 DEF RemoveItem, AckInv
  <2>3. AckInv' BY <1>a, <2>1, <2>2
  <2> QED BY <1>9, <2>2, <2>3
<1>10. CASE ReadInbox(c)
  <2>1. call'[c].pc = "gets" /\ \A d \in Calls : d # c => call'[d] = call[d]
    BY <1>0, <1>10 DEF ReadInbox, CallRec
  <2> QED BY <1>10, <1>a, <2>1 DEF ReadInbox
<1>11. CASE GetRef(c) \/ ReadIndex(c) \/ ReadCatalogs(c)
  BY <1>11, <1>b, <1>c DEF GetRef, ReadIndex, ReadCatalogs, CallSteps
<1>12. CASE AddToIndex(c) \/ SetStatus(c) \/ RemoveFromIndex(c) \/ CallStops(c)
  BY <1>12, <1>b, <1>r DEF AddToIndex, SetStatus, RemoveFromIndex, CallStops
<1>13. CASE GetItems(c)
  BY <1>13, <1>b DEF GetItems
<1> QED
  BY <1>1, <1>2, <1>3, <1>4, <1>5, <1>6, <1>7, <1>8, <1>9, <1>10, <1>11, <1>12, <1>13 DEF Handle

LEMMA NextKeepsKept ==
  ASSUME ShopAssumption, "unpublish" \notin Ops, "item" \notin Expiring, TypeOK, KeptInv, [Next]_vars
  PROVE  KeptInv'
<1>0. pc \in [Requests -> Steps] /\ BagType BY DEF TypeOK, ReqType
<1>1. ASSUME NEW r \in Requests, Submit(r) \/ CommandFails(r) \/ Crash(r) PROVE KeptInv'
  <2>1. UNCHANGED <<collected, call>> /\ \A x \in Requests : x # r => pc'[x] = pc[x]
    BY <1>1, SubmitMoves
  <2>2. AckInv' BY <2>1 DEF AckInv, KeptInv
  <2>3. CASE SetItem(r) /\ pc'[r] \in {"push", "item"}
    <3>1. items' = items \cup {r} /\ UNCHANGED inbox BY <2>3 DEF SetItem
    <3>2. Ids' = Ids BY <3>1, <1>0, SameBag
    <3> QED BY <2>1, <2>2, <2>3, <3>1, <3>2 DEF KeptInv, Waiting, Told
  <2>4. CASE Push(r) /\ pc[r] = "push"
    <3>1. inbox' = inbox (+) SetToBag({r}) /\ UNCHANGED items BY <2>4 DEF Push
    <3>2. Ids' = Ids \cup {r} BY <3>1, <1>0, PushBag
    <3>3. r \in items \cup collected BY <2>4 DEF KeptInv
    <3> QED BY <2>1, <2>2, <3>1, <3>2, <3>3 DEF KeptInv, Waiting
  <2>5. CASE UNCHANGED <<inbox, items>> /\ pc'[r] # "push" /\ (pc'[r] \in Told => pc[r] \in Told)
    <3>1. Ids' = Ids BY <2>5, <1>0, SameBag
    <3> QED BY <2>1, <2>2, <2>5, <3>1 DEF KeptInv, Waiting
  <2> QED BY <1>1, <2>3, <2>4, <2>5, SubmitMoves
<1>2. ASSUME NEW c \in Calls, Owners(c) \/ CallDirectory(c) \/ Handle(c) \/ CallStops(c) PROVE KeptInv'
  <2>0. AckInv BY DEF KeptInv
  <2>1. /\ AckInv' /\ UNCHANGED pc /\ collected \subseteq collected'
        /\ \/ UNCHANGED inbox
           \/ \E r \in call[c].ids :
                RemoveId(c) /\ r \in collected /\ inbox' = [x \in Ids \ {r} |-> inbox[x]]
        /\ UNCHANGED items \/ (RemoveItem(c) /\ call[c].cur \in collected)
    BY <1>2, <2>0, CallKeepsAck
  <2>2. Ids \subseteq Ids' \cup collected
    <3>1. CASE UNCHANGED inbox BY <3>1, <1>0, SameBag
    <3>2. ASSUME NEW r \in collected, inbox' = [x \in Ids \ {r} |-> inbox[x]]
          PROVE  Ids' = Ids \ {r}
      BY <3>2, <1>0, RemoveBag
    <3> QED BY <2>1, <3>1, <3>2
  <2>3. items \subseteq items' \cup collected BY <2>1 DEF RemoveItem
  <2> QED BY <2>1, <2>2, <2>3 DEF KeptInv, Waiting
<1>3. ASSUME UNCHANGED <<inbox, items, collected, pc, call>> PROVE KeptInv'
  <2>1. Ids' = Ids BY <1>3, <1>0, SameBag
  <2> QED BY <1>3, <2>1 DEF KeptInv, AckInv, Waiting
<1>4. CASE LockExpires \/ CatalogExpires \/ UNCHANGED vars
  BY <1>3, <1>4 DEF LockExpires, CatalogExpires, vars, kvVars, reqVars
<1>5. ASSUME NEW r \in Requests, ItemExpires(r) PROVE FALSE BY <1>5 DEF ItemExpires
<1> QED BY <1>1, <1>2, <1>4, <1>5 DEF Next

\* What a customer was told is accepted waits in the inbox until an answer to
\* the owner contained it, also when commands fail, answers are lost and
\* handlers are killed - while nobody turns the shop off and no item expires.
THEOREM AcceptedStaysKept ==
  "unpublish" \notin Ops /\ "item" \notin Expiring => (Spec => []AcceptedIsKept)
<1> SUFFICES ASSUME "unpublish" \notin Ops, "item" \notin Expiring PROVE Spec => []AcceptedIsKept
  OBVIOUS
<1>1. Init => KeptInv BY DEF Init, KeptInv, AckInv, Answer, Told
<1>2. TypeOK /\ KeptInv /\ [Next]_vars => KeptInv' BY ShopAssumption, NextKeepsKept
<1>3. KeptInv => AcceptedIsKept BY DEF KeptInv, AcceptedIsKept, Told
<1> QED BY <1>1, <1>2, <1>3, TypeCorrect, PTL DEF Spec

---------------------------------------------------------------------------
(* What the owner said stands *)

\* A call about to write a reference reports a status and has found the reference.
RefFound(k) ==
  /\ k.pc = "setRef" => refs[k.cur] # "none"
  /\ k.pc \in {"getRef", "setRef"} => k.op = "status"
  /\ k.pc \in {"owns", "getRef", "setRef"} /\ k.op = "status"
       => k.cur \in Requests /\ k.st \in Statuses

\* A reference exists only when its handler has ended.
RefInv ==
  /\ \A r \in Requests : refs[r] # "none" => pc[r] = "accepted"
  /\ \A c \in Calls : RefFound(call[c])

StatusKept == \A r \in Requests :
  refs[r] \notin {"none", "pending"} /\ refs'[r] = "pending"
    => \E c \in Calls : call[c].pc = "setRef" /\ call[c].cur = r /\ call[c].st = "pending"

\* A step of a call: a reference it writes was there.
LEMMA CallKeepsRefs ==
  ASSUME ShopAssumption, TypeOK, RefInv, NEW c \in Calls,
         Owners(c) \/ CallDirectory(c) \/ Handle(c) \/ CallStops(c)
  PROVE  RefInv' /\ StatusKept
<1>0. /\ call \in [Calls -> CallRec] /\ call[c] \in CallRec
      /\ refs \in [Requests -> Statuses \cup {"none"}] /\ "none" \notin Statuses
      /\ collected \subseteq Requests
  BY DEF TypeOK, CallType, KvType, ShopAssumption
<1>a. ASSUME UNCHANGED <<refs, pc>>, \A d \in Calls : d # c => call'[d] = call[d],
             RefFound(call'[c])
      PROVE  RefInv' /\ StatusKept
  <2>1. \A d \in Calls : RefFound(call[d])' BY <1>a DEF RefInv, RefFound
  <2> QED BY <1>a, <2>1 DEF RefInv, StatusKept
<1>b. ASSUME NEW o \in {"ok", "refused", "failed"}, Finish(c, o), UNCHANGED <<refs, pc>>
      PROVE  RefInv' /\ StatusKept
  <2>1. call'[c].pc = o /\ \A d \in Calls : d # c => call'[d] = call[d]
    BY <1>0, <1>b DEF Finish, Answer
  <2>2. RefFound(call'[c]) BY <2>1, <1>b DEF RefFound
  <2> QED BY <1>a, <1>b, <2>1, <2>2
<1>c. ASSUME NEW s \in CallSteps \ {"owns", "getRef", "setRef"}, Step(c, s), UNCHANGED <<refs, pc>>
      PROVE  RefInv' /\ StatusKept
  <2>1. call'[c].pc = s /\ \A d \in Calls : d # c => call'[d] = call[d]
    BY <1>0, <1>c DEF Step, CallRec
  <2>2. RefFound(call'[c]) BY <2>1, <1>c DEF RefFound
  <2> QED BY <1>a, <1>c, <2>1, <2>2
<1> USE DEF kvVars, reqVars
<1>d. ASSUME NEW op, NEW t, NEW first \in {"claim", "owns", "members"}, NEW ids, NEW busy,
             NEW r, NEW st, Call(c, op, t, first, ids, busy, r, st),
             op = "status" => r \in Requests /\ st \in Statuses
      PROVE  RefInv' /\ StatusKept
  <2>1. /\ call'[c].pc = first /\ call'[c].op = op /\ call'[c].cur = r /\ call'[c].st = st
        /\ \A d \in Calls : d # c => call'[d] = call[d]
        /\ UNCHANGED <<refs, pc>>
    BY <1>0, <1>d DEF Call
  <2>2. RefFound(call'[c]) BY <2>1, <1>d DEF RefFound
  <2> QED BY <1>a, <2>1, <2>2
<1>e. ASSUME UNCHANGED <<refs, pc>>, \A d \in Calls : d # c => call'[d] = call[d],
             call'[c].pc \notin {"owns", "getRef", "setRef"}
      PROVE  RefInv' /\ StatusKept
  BY <1>a, <1>e DEF RefFound
<1>r. ASSUME UNCHANGED <<refs, pc>>, Resend(c) PROVE RefInv' /\ StatusKept
  <2>1. UNCHANGED call BY <1>r DEF Resend
  <2>2. \A d \in Calls : RefFound(call[d])' BY <1>r, <2>1 DEF RefInv, RefFound
  <2> QED BY <1>r, <2>1, <2>2 DEF RefInv, StatusKept
<1>1. CASE Owners(c) \/ CallDirectory(c)
  <2>1. CASE CallDirectory(c) BY <2>1, <1>d DEF CallDirectory
  <2>2. CASE Owners(c)
    <3>1. PICK t \in Tokens :
            \/ \E busy \in SUBSET (Walkins \cup (collected \cap Bookings)) : CallPublish(c, t, busy)
            \/ CallUnpublish(c, t)
            \/ \E ack \in SUBSET collected : CallPull(c, t, ack)
            \/ \E r \in collected, st \in Statuses : CallStatus(c, t, r, st)
      BY <2>2 DEF Owners
    <3>2. ASSUME NEW busy, CallPublish(c, t, busy) PROVE RefInv' /\ StatusKept
      BY <3>2, <1>d DEF CallPublish
    <3>3. ASSUME CallUnpublish(c, t) PROVE RefInv' /\ StatusKept BY <3>3, <1>d DEF CallUnpublish
    <3>4. ASSUME NEW ack, CallPull(c, t, ack) PROVE RefInv' /\ StatusKept
      BY <3>4, <1>d DEF CallPull
    <3>5. ASSUME NEW r \in collected, NEW st \in Statuses, CallStatus(c, t, r, st)
          PROVE  RefInv' /\ StatusKept
      BY <3>5, <1>0, <1>d DEF CallStatus
    <3> QED BY <3>1, <3>2, <3>3, <3>4, <3>5
  <2> QED BY <1>1, <2>1, <2>2
<1>2. CASE Claim(c)
  <2>1. UNCHANGED <<refs, pc>> /\ (Resend(c) \/ \E s \in {"setPub", "compare"} : Step(c, s))
    BY <1>2 DEF Claim
  <2> QED BY <2>1, <1>c, <1>r DEF CallSteps
<1>3. CASE CompareOwner(c) BY <1>3, <1>b, <1>c DEF CompareOwner, CallSteps
<1>4. CASE RenewOwner(c) BY <1>4, <1>c, <1>r DEF RenewOwner, CallSteps
<1>5. CASE SetPub(c) BY <1>5, <1>c, <1>r DEF SetPub, CallSteps
<1>6. CASE Owns(c)
  <2>0. UNCHANGED <<refs, pc>> BY <1>6 DEF Owns
  <2>1. CASE owner # call[c].tok BY <1>6, <2>0, <2>1, <1>b DEF Owns
  <2>2. CASE owner = call[c].tok /\ call[c].op = "status"
    <3>1. call' = [call EXCEPT ![c].pc = "getRef"] BY <1>6, <2>2 DEF Owns, Step
    <3>2. /\ call'[c].pc = "getRef" /\ call'[c].op = call[c].op
          /\ call'[c].cur = call[c].cur /\ call'[c].st = call[c].st
          /\ \A d \in Calls : d # c => call'[d] = call[d]
      BY <3>1, <1>0 DEF CallRec
    <3>3. RefFound(call[c]) /\ call[c].pc = "owns" BY <1>6 DEF Owns, RefInv
    <3>4. RefFound(call'[c]) BY <2>2, <3>2, <3>3 DEF RefFound
    <3> QED BY <1>a, <2>0, <3>2, <3>4
  <2>3. CASE owner = call[c].tok /\ call[c].op # "status"
    <3>1. \E s \in {"list", "read", "lrem"} : Step(c, s) BY <1>6, <2>3 DEF Owns
    <3> QED BY <2>0, <3>1, <1>c DEF CallSteps
  <2> QED BY <2>1, <2>2, <2>3
<1>7a. CASE ListInbox(c)
  <2>1. UNCHANGED <<refs, pc>> /\ call'[c].pc \in {"clear", "delItems"} /\ \A d \in Calls : d # c => call'[d] = call[d]
    BY <1>0, <1>7a DEF ListInbox, CallRec
  <2> QED BY <2>1, <1>e
<1>7b. CASE DeleteItem(c)
  <2>1. UNCHANGED <<refs, pc>> /\ call'[c].pc \in {"clear", "delItems"} /\ \A d \in Calls : d # c => call'[d] = call[d]
    BY <1>0, <1>7b DEF DeleteItem, Resend, CallRec
  <2> QED BY <2>1, <1>e
<1>7c. CASE ClearKey(c)
  <2>1. UNCHANGED <<refs, pc>> BY <1>7c DEF ClearKey
  <2>2. PICK k \in call[c].keys :
          Finish(c, "ok") \/ call' = [call EXCEPT ![c].keys = @ \ {k}] \/ Resend(c)
    BY <1>7c DEF ClearKey
  <2>3. CASE Finish(c, "ok") BY <2>1, <2>3, <1>b
  <2>4. CASE call' = [call EXCEPT ![c].keys = @ \ {k}]
    <3>1. call'[c].pc = "clear" /\ \A d \in Calls : d # c => call'[d] = call[d]
      BY <1>0, <2>4, <1>7c DEF CallRec, ClearKey
    <3> QED BY <2>1, <3>1, <1>e
  <2> QED BY <1>r, <2>1, <2>2, <2>3, <2>4
<1>7d. CASE RemoveId(c)
  <2>1. UNCHANGED <<refs, pc>> /\ call'[c].pc \in {"delItem", "lrem"} /\ \A d \in Calls : d # c => call'[d] = call[d]
    BY <1>0, <1>7d DEF RemoveId, Resend, CallRec
  <2> QED BY <2>1, <1>e
<1>7e. CASE RemoveItem(c)
  <2>1. /\ UNCHANGED <<refs, pc>> /\ call'[c].pc \in {"read", "lrem", "delItem"}
        /\ \A d \in Calls : d # c => call'[d] = call[d]
    BY <1>0, <1>7e DEF RemoveItem, Resend, CallRec
  <2> QED BY <2>1, <1>e
<1>7f. CASE ReadInbox(c)
  <2>1. UNCHANGED <<refs, pc>> /\ call'[c].pc = "gets" /\ \A d \in Calls : d # c => call'[d] = call[d]
    BY <1>0, <1>7f DEF ReadInbox, CallRec
  <2> QED BY <2>1, <1>e
<1>8. CASE GetRef(c)
  <2>1. CASE refs[call[c].cur] = "none" BY <1>8, <2>1, <1>b DEF GetRef
  <2>2. CASE refs[call[c].cur] # "none"
    <3>1. call' = [call EXCEPT ![c].pc = "setRef"] /\ UNCHANGED <<refs, pc>>
      BY <1>8, <2>2 DEF GetRef, Step
    <3>2. /\ call'[c].pc = "setRef" /\ call'[c].op = call[c].op
          /\ call'[c].cur = call[c].cur /\ call'[c].st = call[c].st
          /\ \A d \in Calls : d # c => call'[d] = call[d]
      BY <3>1, <1>0 DEF CallRec
    <3>3. RefFound(call[c]) /\ call[c].pc = "getRef" BY <1>8 DEF GetRef, RefInv
    <3>4. RefFound(call'[c]) BY <2>2, <3>2, <3>3 DEF RefFound
    <3> QED BY <1>a, <3>1, <3>2, <3>4
  <2> QED BY <2>1, <2>2
<1>9. CASE SetStatus(c)
  <2>1. /\ call[c].pc = "setRef" /\ refs' = [refs EXCEPT ![call[c].cur] = call[c].st]
        /\ UNCHANGED pc /\ (Finish(c, "ok") \/ call' = call)
    BY <1>9 DEF SetStatus, Resend
  <2>2. refs[call[c].cur] # "none" /\ call[c].cur \in Requests /\ call[c].st \in Statuses
    BY <2>1 DEF RefInv, RefFound
  <2>3. \A r \in Requests : refs'[r] = IF r = call[c].cur THEN call[c].st ELSE refs[r]
    BY <2>1, <2>2, <1>0
  <2>4. \A r \in Requests : refs'[r] # "none" <=> refs[r] # "none" BY <2>2, <2>3, <1>0
  <2>5. /\ call'[c].pc = "ok" \/ call'[c] = call[c]
        /\ \A d \in Calls : d # c => call'[d] = call[d]
    BY <1>0, <2>1 DEF Finish, Answer
  <2>6. \A d \in Calls : RefFound(call[d])' BY <2>4, <2>5 DEF RefInv, RefFound
  <2>7. StatusKept BY <2>1, <2>3 DEF StatusKept
  <2> QED BY <2>1, <2>4, <2>6, <2>7 DEF RefInv
<1>10. CASE ReadIndex(c) \/ ReadCatalogs(c)
  BY <1>10, <1>b, <1>c DEF ReadIndex, ReadCatalogs, CallSteps
<1>11. CASE AddToIndex(c) \/ GetItems(c) \/ RemoveFromIndex(c) \/ CallStops(c)
  BY <1>11, <1>b, <1>r DEF AddToIndex, GetItems, RemoveFromIndex, CallStops
<1> QED BY <1>1, <1>2, <1>3, <1>4, <1>5, <1>6, <1>7a, <1>7b, <1>7c, <1>7d, <1>7e, <1>7f, <1>8, <1>9,
           <1>10, <1>11 DEF Handle

\* A step of a submit handler writes a reference only as its last command.
LEMMA SubmitRefs ==
  ASSUME "ref" \notin Repeats, TypeOK, NEW r \in Requests,
         Submit(r) \/ CommandFails(r) \/ Crash(r)
  PROVE  /\ UNCHANGED call /\ pc[r] # "accepted"
         /\ \A x \in Requests : x # r => pc'[x] = pc[x]
         /\ UNCHANGED refs \/ (SetRef(r) /\ pc'[r] = "accepted")
<1>0. pc \in [Requests -> Steps] BY DEF TypeOK, ReqType
<1> USE DEF kvVars, reqVars, Goto, SendAgain
<1>1. CASE CommandFails(r) BY <1>0, <1>1 DEF CommandFails, Ends
<1>2. CASE Crash(r) BY <1>0, <1>2 DEF Crash, Ends
<1>3. CASE ReadCatalog(r) BY <1>0, <1>3 DEF ReadCatalog
<1>4. CASE Limits(r) BY <1>0, <1>4 DEF Limits
<1>5. CASE CheckInbox(r) BY <1>0, <1>5 DEF CheckInbox
<1>6. CASE TryLock(r) BY <1>0, <1>6 DEF TryLock, Missed
<1>7. CASE ReadIds(r) BY <1>0, <1>7 DEF ReadIds
<1>8. CASE CheckBooking(r) BY <1>0, <1>8 DEF CheckBooking
<1>9. CASE SetItem(r) BY <1>0, <1>9 DEF SetItem
<1>10. CASE Push(r) BY <1>0, <1>10 DEF Push
<1>11. CASE Unlock(r) BY <1>0, <1>11 DEF Unlock, Unlocks
<1>12. CASE SetRef(r) BY <1>0, <1>12 DEF SetRef
<1> QED BY <1>1, <1>2, <1>3, <1>4, <1>5, <1>6, <1>7, <1>8, <1>9, <1>10, <1>11, <1>12 DEF Submit

LEMMA NextKeepsRefs ==
  ASSUME ShopAssumption, "ref" \notin Repeats, TypeOK, RefInv, [Next]_vars
  PROVE  RefInv' /\ StatusKept
<1>0. refs \in [Requests -> Statuses \cup {"none"}] BY DEF TypeOK, KvType
<1>1. ASSUME NEW r \in Requests, Submit(r) \/ CommandFails(r) \/ Crash(r) PROVE RefInv' /\ StatusKept
  <2>0. /\ UNCHANGED call /\ pc[r] # "accepted" /\ refs[r] = "none"
        /\ \A x \in Requests : x # r => pc'[x] = pc[x]
    BY <1>1, SubmitRefs DEF RefInv
  <2>1. CASE UNCHANGED refs
    <3>1. \A d \in Calls : RefFound(call[d])' BY <2>0, <2>1 DEF RefInv, RefFound
    <3> QED BY <2>0, <2>1, <3>1 DEF RefInv, StatusKept
  <2>2. CASE SetRef(r) /\ pc'[r] = "accepted"
    <3>1. refs' = [refs EXCEPT ![r] = "pending"] BY <2>2 DEF SetRef
    <3>2. \A x \in Requests : x # r => refs'[x] = refs[x] BY <3>1, <1>0
    <3>3. \A x \in Requests \cup {call[d].cur : d \in Calls} : refs'[x] = refs[x] \/ x = r
      BY <3>1
    <3>4. refs'[r] = "pending" BY <3>1, <1>0
    <3>5. \A d \in Calls : RefFound(call[d])' BY <2>0, <3>3, <3>4 DEF RefInv, RefFound
    <3> QED BY <2>0, <2>2, <3>2, <3>5 DEF RefInv, StatusKept
  <2> QED BY <1>1, <2>1, <2>2, SubmitRefs
<1>2. ASSUME NEW c \in Calls, Owners(c) \/ CallDirectory(c) \/ Handle(c) \/ CallStops(c)
      PROVE  RefInv' /\ StatusKept
  BY <1>2, CallKeepsRefs
<1>3. ASSUME UNCHANGED <<refs, pc, call>> PROVE RefInv' /\ StatusKept
  <2>1. \A d \in Calls : RefFound(call[d])' BY <1>3 DEF RefInv, RefFound
  <2> QED BY <1>3, <2>1 DEF RefInv, StatusKept
<1>4. CASE LockExpires \/ CatalogExpires \/ UNCHANGED vars
  BY <1>3, <1>4 DEF LockExpires, CatalogExpires, vars, kvVars, reqVars
<1>5. ASSUME NEW r \in Requests, ItemExpires(r) PROVE RefInv' /\ StatusKept
  BY <1>3, <1>5 DEF ItemExpires, reqVars
<1> QED BY <1>1, <1>2, <1>4, <1>5 DEF Next

\* What the owner said became of a request is never taken back to "pending" but by
\* the owner: the accepting handler, which writes "pending" last of all, finds no
\* earlier word to overwrite.  That command alone must not be sent again after a lost
\* answer; no hypothesis on other faults, expiry or shops turned off.
THEOREM StatusesStand == "ref" \notin Repeats => (Spec => StatusStands)
<1> SUFFICES ASSUME "ref" \notin Repeats PROVE Spec => StatusStands
  OBVIOUS
<1>1. Init => RefInv
  <2> SUFFICES ASSUME Init PROVE RefInv OBVIOUS
  <2>1. \A c \in Calls : call[c].pc = "ok" BY DEF Init, Answer
  <2> QED BY <2>1 DEF Init, RefInv, RefFound
<1>2. TypeOK /\ RefInv /\ [Next]_vars => RefInv' /\ StatusKept BY ShopAssumption, NextKeepsRefs
<1>3. Spec => [][StatusKept]_vars BY <1>1, <1>2, TypeCorrect, PTL DEF Spec
<1>4. [StatusKept]_vars <=>
      [\A r \in Requests :
         refs[r] \notin {"none", "pending"} /\ refs'[r] = "pending"
           => \E c \in Calls : call[c].pc = "setRef" /\ call[c].cur = r
                                /\ call[c].st = "pending"]_vars
  BY DEF StatusKept
<1> QED BY <1>3, <1>4, PTL DEF StatusStands

---------------------------------------------------------------------------
(* No more bookings wait at an instant than the shop has places *)

Places == IF Seats = {} THEN 1 ELSE Cardinality(Seats)
GoingOn(t) == {b \in WaitingBookings : /\ Slot[b].startsAt <= t
                                       /\ t < Slot[b].startsAt + Slot[b].durationMin}

\* The waiting bookings that a booking meets leave it a place.
Meeting(r) == {w \in WaitingBookings \ {r} : Clash(Slot[r], Slot[w])}
RoomFor(r) == Cardinality(Meeting(r)) < Places

\* A handler that has not decided holds the catalog it read.
CatRead == \A r \in Requests : pc[r] \in {"limits", "inbox", "lock", "ids", "check"} => cat[r] \in Catalog

RoomInv ==
  /\ CatRead /\ WaitingFits
  /\ \A r \in Bookings : pc[r] \in {"item", "push"} => RoomFor(r)

LEMMA FitsParts ==
  WaitingFits <=> \A a \in WaitingBookings : Cardinality(GoingOn(Slot[a].startsAt)) <= Places
BY DEF WaitingFits, GoingOn, Places

LEMMA WaitingFinite ==
  ASSUME ShopAssumption, NEW S, S \subseteq Requests
  PROVE  IsFiniteSet(S) /\ Cardinality(S) \in Nat
BY FS_Subset, FS_CardinalityType DEF ShopAssumption

LEMMA PlacesCount == ShopAssumption => Places \in Nat \ {0}
BY FS_CardinalityType, FS_EmptySet DEF ShopAssumption, Places

LEMMA FewerFit ==
  ASSUME ShopAssumption, NEW S, NEW T, T \subseteq Requests, S \subseteq T, NEW n \in Nat
  PROVE  /\ Cardinality(T) <= n => Cardinality(S) <= n
         /\ Cardinality(T) < n => Cardinality(S) < n
<1>1. IsFiniteSet(T) /\ Cardinality(T) \in Nat /\ Cardinality(S) \in Nat
  BY WaitingFinite
<1>2. Cardinality(S) <= Cardinality(T)
  BY <1>1, FS_Subset
<1> QED BY <1>1, <1>2

\* What is taken out of the inbox only makes room.
LEMMA FewerKeepsRoom ==
  ASSUME ShopAssumption, RoomInv, CatRead', WaitingBookings' \subseteq WaitingBookings,
         \A r \in Bookings : pc'[r] \in {"item", "push"} => pc[r] \in {"item", "push"} \/ RoomFor(r)
  PROVE  RoomInv'
<1>0. WaitingBookings \subseteq Requests /\ Places \in Nat
  BY PlacesCount DEF WaitingBookings, ShopAssumption
<1>1. ASSUME NEW a \in WaitingBookings' PROVE Cardinality(GoingOn(Slot[a].startsAt)') <= Places
  <2> DEFINE t == Slot[a].startsAt
  <2>1. Cardinality(GoingOn(t)) <= Places
    BY <1>1, FitsParts DEF RoomInv
  <2>2. GoingOn(t)' \subseteq GoingOn(t) /\ GoingOn(t) \subseteq Requests
    BY <1>0 DEF GoingOn
  <2> QED BY <1>0, <2>1, <2>2, FewerFit
<1>2. ASSUME NEW r \in Bookings, pc'[r] \in {"item", "push"} PROVE RoomFor(r)'
  <2>1. RoomFor(r)
    BY <1>2 DEF RoomInv
  <2>2. Meeting(r)' \subseteq Meeting(r) /\ Meeting(r) \subseteq Requests
    BY <1>0 DEF Meeting
  <2>3. Cardinality(Meeting(r)') < Places
    BY <1>0, <2>1, <2>2, FewerFit DEF RoomFor
  <2> QED BY <2>3 DEF RoomFor, Places
<1>3. WaitingFits'
  BY <1>1 DEF WaitingFits, GoingOn, Places
<1> QED BY <1>2, <1>3 DEF RoomInv

\* What checkBooking accepts has a place among the bookings it read, and those
\* are all that wait.
LEMMA AcceptedHasRoom ==
  ASSUME ShopAssumption, NEW r \in Bookings, NEW k \in Catalog, NEW waiting \in SUBSET Bookings,
         WaitingBookings \subseteq waiting, Fits(Seats, BusyWith(k, waiting), Slot[r])
  PROVE  RoomFor(r)
<1> DEFINE over == Over(BusyWith(k, waiting), Slot[r])
           place == [w \in Meeting(r) |-> <<"waiting", w>>]
<1>1. IsFiniteSet(over)
  <2>1. IsFiniteSet(Times) /\ IsFiniteSet(Bookings)
    BY FS_Subset, FS_Union DEF Times, ShopAssumption
  <2>2. k.busy \subseteq Times
    BY DEF Catalog
  <2>3. IsFiniteSet(k.busy) /\ IsFiniteSet(waiting) /\ IsFiniteSet({"busy"}) /\ IsFiniteSet({"waiting"})
    BY <2>1, <2>2, FS_Subset, FS_Singleton
  <2>4. IsFiniteSet({"busy"} \X k.busy) /\ IsFiniteSet({"waiting"} \X waiting)
    BY <2>3, FS_Product
  <2>5. over \subseteq ({"busy"} \X k.busy) \cup ({"waiting"} \X waiting)
    BY DEF Over, BusyWith
  <2> HIDE DEF over
  <2>6. IsFiniteSet(({"busy"} \X k.busy) \cup ({"waiting"} \X waiting))
    BY <2>4, FS_Union
  <2> QED BY <2>5, <2>6, FS_Subset
<1>2. place \in Injection(Meeting(r), over)
  <2>1. ASSUME NEW w \in Meeting(r) PROVE <<"waiting", w>> \in over
    <3>1. w \in waiting /\ Clash(Slot[r], Slot[w])
      BY <2>1 DEF Meeting
    <3>2. <<"waiting", w>> \in DOMAIN BusyWith(k, waiting) /\ BusyWith(k, waiting)[<<"waiting", w>>] = Slot[w]
      BY <3>1 DEF BusyWith
    <3> QED BY <3>1, <3>2 DEF Over
  <2>2. place \in [Meeting(r) -> over]
    BY <2>1
  <2>3. \A v, w \in Meeting(r) : place[v] = place[w] => v = w
    OBVIOUS
  <2> HIDE DEF over, place
  <2> QED BY <2>2, <2>3 DEF Injection, IsInjective
<1>3. Cardinality(Meeting(r)) <= Cardinality(over) /\ Cardinality(Meeting(r)) \in Nat
  <2> HIDE DEF over, place
  <2> QED BY <1>1, <1>2, FS_Injection, FS_CardinalityType
<1>4. Cardinality(over) < Places /\ Cardinality(over) \in Nat
  <2>1. /\ Seats = {} => over = {}
        /\ Seats # {} => Cardinality(over) < Cardinality(Seats)
    BY DEF Fits
  <2> HIDE DEF over
  <2> QED BY <1>1, <2>1, FS_EmptySet, FS_CardinalityType DEF Places
<1> HIDE DEF over
<1> QED BY <1>3, <1>4, PlacesCount DEF RoomFor

\* A pushed booking takes the place that was left.
LEMMA PushKeepsRoom ==
  ASSUME ShopAssumption, TypeOK, LockInv, RoomInv, CatRead', NEW r \in Requests, Push(r)
  PROVE  RoomInv'
<1>0. /\ WaitingBookings \subseteq Requests /\ Places \in Nat /\ Bookings \subseteq Requests
      /\ WaitingBookings' \subseteq Requests /\ pc \in [Requests -> Steps]
  BY PlacesCount DEF WaitingBookings, ShopAssumption, TypeOK, ReqType
<1>1. /\ pc[r] = "push" /\ WaitingBookings' \subseteq WaitingBookings \cup {r}
      /\ \A x \in Requests : x # r => pc'[x] = pc[x]
      /\ r \notin Bookings => WaitingBookings' \subseteq WaitingBookings
  <2>1. Ids' = Ids \cup {r} /\ UNCHANGED items
    BY PushBag DEF Push, TypeOK
  <2> QED BY <1>0, <2>1 DEF Push, Goto, SendAgain, WaitingBookings, Waiting
<1>2. CASE r \notin Bookings
  <2>1. \A x \in Bookings : pc'[x] \in {"item", "push"} => pc[x] \in {"item", "push"}
    BY <1>0, <1>1, <1>2
  <2> QED BY <1>1, <1>2, <2>1, FewerKeepsRoom
<1>3. CASE r \in Bookings
  <2>1. RoomFor(r)
    BY <1>1, <1>3 DEF RoomInv
  <2>2. \A x \in Bookings : x # r => pc'[x] \notin {"item", "push"}
    BY <1>0, <1>1, <1>3 DEF LockInv, LockIsMine, Guarded, ShopAssumption
  <2>3. RoomFor(r)'
    <3>1. Meeting(r)' \subseteq Meeting(r) /\ Meeting(r) \subseteq Requests
      BY <1>0, <1>1 DEF Meeting
    <3>2. Cardinality(Meeting(r)') < Places
      BY <1>0, <2>1, <3>1, FewerFit DEF RoomFor
    <3> QED BY <3>2 DEF RoomFor, Places
  <2>4. ASSUME NEW a \in WaitingBookings' PROVE Cardinality(GoingOn(Slot[a].startsAt)') <= Places
    <3> DEFINE t == Slot[a].startsAt
    <3>1. GoingOn(t)' \subseteq GoingOn(t) \cup {r} /\ GoingOn(t) \subseteq Requests
      BY <1>0, <1>1 DEF GoingOn
    <3>2. CASE r \notin GoingOn(t)' \/ r \in GoingOn(t)
      <4>1. GoingOn(t)' \subseteq GoingOn(t)
        BY <3>1, <3>2
      <4>2. a # r => Cardinality(GoingOn(t)) <= Places
        BY <1>1, <2>4, FitsParts DEF RoomInv
      <4>3. a = r => r \in WaitingBookings
        <5>1. ASSUME a = r PROVE r \in GoingOn(t)'
          <6>1. Slot[r].startsAt \in Nat /\ Slot[r].durationMin \in Nat \ {0}
            BY <1>3 DEF ShopAssumption
          <6> QED BY <2>4, <5>1, <6>1 DEF GoingOn
        <5> QED BY <3>2, <5>1 DEF GoingOn
      <4>4. Cardinality(GoingOn(t)) <= Places
        BY <4>2, <4>3, FitsParts DEF RoomInv
      <4> QED BY <1>0, <3>1, <4>1, <4>4, FewerFit
    <3>3. CASE r \in GoingOn(t)' /\ r \notin GoingOn(t)
      <4>1. GoingOn(t)' \ {r} \subseteq Meeting(r)
        <5> SUFFICES ASSUME NEW w \in GoingOn(t)' \ {r} PROVE w \in Meeting(r)
          OBVIOUS
        <5>1. w \in WaitingBookings \ {r} /\ w \in Bookings /\ a \in Bookings
          BY <1>1, <2>4 DEF GoingOn, WaitingBookings
        <5>2. /\ Slot[w].startsAt \in Nat /\ Slot[w].durationMin \in Nat
              /\ Slot[r].startsAt \in Nat /\ Slot[r].durationMin \in Nat /\ t \in Nat
          BY <1>3, <5>1 DEF ShopAssumption
        <5>3. /\ Slot[w].startsAt <= t /\ t < Slot[w].startsAt + Slot[w].durationMin
              /\ Slot[r].startsAt <= t /\ t < Slot[r].startsAt + Slot[r].durationMin
          BY <3>3 DEF GoingOn
        <5>4. Clash(Slot[r], Slot[w])
          BY <5>2, <5>3 DEF Clash
        <5> QED BY <5>1, <5>4 DEF Meeting
      <4>2. GoingOn(t)' \subseteq Meeting(r) \cup {r} /\ Meeting(r) \subseteq Requests
        BY <1>0, <4>1 DEF Meeting
      <4>3. IsFiniteSet(Meeting(r)) /\ Cardinality(Meeting(r)) \in Nat
        BY <4>2, WaitingFinite
      <4>4. Cardinality(Meeting(r) \cup {r}) <= Cardinality(Meeting(r)) + 1
        <5>1. Cardinality(Meeting(r) \cup {r}) =
                IF r \in Meeting(r) THEN Cardinality(Meeting(r)) ELSE Cardinality(Meeting(r)) + 1
          BY <4>3, FS_AddElement
        <5> QED BY <4>3, <5>1
      <4>5. Meeting(r) \cup {r} \subseteq Requests /\ Cardinality(Meeting(r) \cup {r}) \in Nat
        BY <4>2, WaitingFinite
      <4>6. Cardinality(Meeting(r) \cup {r}) <= Places
        BY <1>0, <2>1, <4>3, <4>4, <4>5 DEF RoomFor
      <4> QED BY <1>0, <4>2, <4>5, <4>6, FewerFit
    <3> QED BY <3>2, <3>3
  <2>5. WaitingFits'
    BY <2>4 DEF WaitingFits, GoingOn, Places
  <2> QED BY <2>2, <2>3, <2>5 DEF RoomInv
<1> QED BY <1>2, <1>3

LEMMA CatKept ==
  ASSUME ShopAssumption, TypeOK, CatRead, NEW r \in Requests, Submit(r) \/ CommandFails(r) \/ Crash(r)
  PROVE  CatRead'
<1>0. /\ pc \in [Requests -> Steps] /\ cat \in [Requests -> Catalog \cup {None}]
      /\ pub \in Catalog \cup {None}
  BY DEF TypeOK, ReqType, KvType
<1>a. ASSUME \A x \in Requests : x # r => pc'[x] = pc[x] /\ cat'[x] = cat[x],
             pc'[r] \in {"limits", "inbox", "lock", "ids", "check"} => cat'[r] \in Catalog
      PROVE  CatRead'
  BY <1>a DEF CatRead
<1> USE DEF Goto, Forget, SendAgain
<1>1. CASE ReadCatalog(r)
  BY <1>0, <1>1, <1>a DEF ReadCatalog
<1>2. CASE Limits(r) BY <1>0, <1>2, <1>a DEF Limits, CatRead
<1>3. CASE CheckInbox(r) BY <1>0, <1>3, <1>a DEF CheckInbox, CatRead
<1>4. CASE TryLock(r) BY <1>0, <1>4, <1>a DEF TryLock, Missed, CatRead
<1>5. CASE ReadIds(r) BY <1>0, <1>5, <1>a DEF ReadIds, CatRead
<1>6. CASE CheckBooking(r) BY <1>0, <1>6, <1>a DEF CheckBooking
<1>7. CASE SetItem(r) \/ Push(r) BY <1>0, <1>7, <1>a DEF SetItem, Push
<1>8. CASE Unlock(r) \/ SetRef(r) BY <1>0, <1>8, <1>a DEF Unlock, SetRef, Unlocks
<1>9. CASE CommandFails(r) \/ Crash(r) BY <1>0, <1>9, <1>a DEF CommandFails, Crash
<1> QED BY <1>1, <1>2, <1>3, <1>4, <1>5, <1>6, <1>7, <1>8, <1>9 DEF Submit

LEMMA NextKeepsRoom ==
  ASSUME ShopAssumption, LockSafe, TypeOK, LockInv, RoomInv, [Next]_vars
  PROVE  RoomInv'
<1>0. CatRead /\ Bookings \subseteq Requests
  BY DEF RoomInv, ShopAssumption
<1>1. ASSUME NEW r \in Requests, Submit(r) \/ CommandFails(r) \/ Crash(r) PROVE RoomInv'
  <2>0. CatRead'
    BY <1>0, <1>1, CatKept
  <2>1. CASE Push(r)
    BY <2>0, <2>1, PushKeepsRoom
  <2>2. CASE CheckBooking(r)
    <3>1. UNCHANGED <<inbox, items>> /\ \A x \in Requests : x # r => pc'[x] = pc[x]
      BY <1>1, <2>2, SubmitMoves DEF CheckBooking, kvVars
    <3>2. WaitingBookings' = WaitingBookings
      BY <3>1 DEF WaitingBookings, Waiting, Ids
    <3>3. ASSUME r \in Bookings, pc'[r] \in {"item", "push"} PROVE RoomFor(r)
      <4>1. /\ Fits(Seats, BusyWith(cat[r], seen[r] \cap items \cap Bookings), Slot[r])
            /\ pc[r] = "check"
        BY <2>2, <3>3 DEF CheckBooking, Goto, TypeOK, ReqType
      <4>2. WaitingBookings \subseteq seen[r] \cap items \cap Bookings /\ cat[r] \in Catalog
        BY <1>0, <3>3, <4>1 DEF LockInv, SawWaiting, WaitingBookings, Waiting, CatRead
      <4> QED BY <3>3, <4>1, <4>2, AcceptedHasRoom
    <3>4. \A x \in Bookings : pc'[x] \in {"item", "push"} => pc[x] \in {"item", "push"} \/ RoomFor(x)
      BY <1>0, <3>1, <3>3
    <3> QED BY <2>0, <3>2, <3>4, FewerKeepsRoom
  <2>3. CASE SetItem(r)
    <3>1. r \notin Ids
      BY <2>3 DEF SetItem, LockInv, NotPushed
    <3>2. WaitingBookings' \subseteq WaitingBookings
      BY <2>3, <3>1 DEF SetItem, WaitingBookings, Waiting, Ids
    <3>3. \A x \in Bookings : pc'[x] \in {"item", "push"} => pc[x] \in {"item", "push"}
      BY <1>0, <1>1, <2>3, SubmitMoves DEF SetItem, Goto, SendAgain
    <3> QED BY <2>0, <3>2, <3>3, FewerKeepsRoom
  <2>4. CASE ~Push(r) /\ ~CheckBooking(r) /\ ~SetItem(r)
    <3>1. UNCHANGED <<inbox, items>> /\ \A x \in Requests : x # r => pc'[x] = pc[x]
      BY <1>1, <2>4, SubmitMoves
    <3>2. WaitingBookings' \subseteq WaitingBookings
      BY <3>1 DEF WaitingBookings, Waiting, Ids
    <3>3. r \in Bookings => pc'[r] \notin {"item", "push"}
      BY <1>0, <1>1, <2>4 DEF Submit, ReadCatalog, Limits, CheckInbox, TryLock, Missed, ReadIds,
         Unlock, Unlocks, SetRef, CommandFails, Crash, Goto, SendAgain, TypeOK, ReqType, LockInv, OrdersPass
    <3> QED BY <1>0, <2>0, <3>1, <3>2, <3>3, FewerKeepsRoom
  <2> QED BY <2>1, <2>2, <2>3, <2>4
<1>a. ASSUME UNCHANGED <<pc, cat>>, WaitingBookings' \subseteq WaitingBookings PROVE RoomInv'
  <2>1. CatRead'
    BY <1>0, <1>a DEF CatRead
  <2> QED BY <1>a, <2>1, FewerKeepsRoom
<1>2. ASSUME NEW r \in Requests, ItemExpires(r) PROVE RoomInv'
  BY <1>2, <1>a DEF ItemExpires, reqVars, Ids, WaitingBookings, Waiting
<1>3. ASSUME NEW c \in Calls, Owners(c) \/ CallDirectory(c) \/ Handle(c) \/ CallStops(c) PROVE RoomInv'
  <2>1. UNCHANGED cat
    BY <1>3 DEF Owners, CallPublish, CallUnpublish, CallPull, CallStatus, CallDirectory, Call,
         Handle, CallStops, Claim, CompareOwner, RenewOwner, SetPub, AddToIndex, Owns,
         ListInbox, DeleteItem, ClearKey, RemoveId, RemoveItem, ReadInbox, GetItems, GetRef,
         SetStatus, ReadIndex, ReadCatalogs, RemoveFromIndex, kvVars, reqVars
  <2> QED BY <1>3, <1>a, <2>1, CallsOnlyTake
<1>4. CASE LockExpires \/ CatalogExpires \/ UNCHANGED vars
  BY <1>4, <1>a DEF LockExpires, CatalogExpires, vars, kvVars, reqVars, Ids, WaitingBookings, Waiting
<1> QED BY <1>1, <1>2, <1>3, <1>4 DEF Next

\* At no instant do more bookings wait for the phone than the shop has places,
\* seats counted once whether asked for or not, while no handler outlives its lock and
\* no DEL of the lock is sent again (server.ts:118-125, slots.ts fits).
THEOREM WaitingAlwaysFits == LockSafe => (Spec => []WaitingFits)
<1> SUFFICES ASSUME LockSafe PROVE Spec => []WaitingFits
  OBVIOUS
<1>1. Init => LockInv /\ RoomInv
  <2> SUFFICES ASSUME Init PROVE LockInv /\ RoomInv
    OBVIOUS
  <2>1. WaitingBookings = {} /\ \A r \in Requests : pc[r] = "new"
    BY DEF Init, WaitingBookings, Waiting, Ids, BagToSet, EmptyBag, SetToBag
  <2>2. Bookings \subseteq Requests
    BY ShopAssumption DEF ShopAssumption
  <2>3. RoomInv
    BY <2>1, <2>2 DEF RoomInv, CatRead, WaitingFits
  <2> QED BY <2>3, ShopAssumption, LockInvInit
<1>2. TypeOK /\ LockInv /\ RoomInv /\ [Next]_vars => LockInv' /\ RoomInv'
  BY ShopAssumption, NextKeepsInv, NextKeepsRoom
<1>3. RoomInv => WaitingFits
  BY DEF RoomInv
<1> QED BY <1>1, <1>2, <1>3, TypeCorrect, PTL DEF Spec
=============================================================================
