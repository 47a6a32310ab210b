---------------------------- MODULE MCOnlineShop ----------------------------
(* Small instances of OnlineShop: two hours of one morning. *)
EXTENDS OnlineShop

CONSTANTS b1, b2, o1, w1, p1, p2

At(t, d) == [startsAt |-> t, durationMin |-> d, seatId |-> NoSeat]

\* b1 and b2 meet, and the walk-in meets b2 only.
Morning ==
  [k \in Bookings \cup Walkins |->
     CASE k = b2 -> At(30, 60) [] k = w1 -> At(60, 30) [] OTHER -> At(0, 60)]
=============================================================================
