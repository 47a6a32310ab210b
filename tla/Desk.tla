-------------------------------- MODULE Desk --------------------------------
(***************************************************************************)
(* What the server promises about the bookings that wait for the phone, as *)
(* if one clerk took them one at a time: a booking is taken only when no   *)
(* waiting one excludes it (lib/biz/server.ts:113), and it may leave, one  *)
(* of several or all at once, when the owner collects it or turns the shop *)
(* off.                                                                    *)
(***************************************************************************)
EXTENDS Slots

CONSTANTS Bookings, Seats, Slot

VARIABLE waiting

\* Bookings that cannot both be taken, whoever else comes.
Conflict(a, b) == Excludes(Seats, Slot[a], Slot[b])

Init == waiting = {}

Take(b) ==
  /\ b \notin waiting
  /\ \A w \in waiting : ~Conflict(b, w)
  /\ waiting' = waiting \cup {b}

Leave == waiting' \in SUBSET waiting

Next == (\E b \in Bookings : Take(b)) \/ Leave

Spec == Init /\ [][Next]_waiting
=============================================================================
