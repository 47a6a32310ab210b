---------------------------- MODULE MCShopServer ----------------------------
(* Small instances of ShopServer: two half hours of one morning. *)
EXTENDS ShopServer, TLC

CONSTANTS b1, b2, b3, o1, w1, u1, u2

At(t, d, u) == [startsAt |-> t, durationMin |-> d, seatId |-> u]

\* One customer at a time: b1 and b2 want the same hour, b3 its second half.
OneChair ==
  [k \in Bookings \cup Walkins |->
     CASE k = b3 -> At(30, 30, NoSeat)
       [] k = w1 -> At(30, 30, NoSeat)
       [] OTHER  -> At(0, 60, NoSeat)]

\* Two chairs: b1 wants the first for the whole hour, b2 and b3 either for its second
\* half, so any two of the three can be served and not all.
TwoChairs ==
  [k \in Bookings \cup Walkins |->
     IF k = b1 THEN At(0, 60, u1) ELSE At(30, 30, NoSeat)]

\* b2 and b3 ask for the same.
SameWish == Permutations({b2, b3})

\* In OneChair it is b1 and b2.
SameHour == Permutations({b1, b2})
=============================================================================
