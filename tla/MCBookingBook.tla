--------------------------- MODULE MCBookingBook ---------------------------
(* Small instances of BookingBook: one morning of three half hours. *)
EXTENDS BookingBook, TLC

CONSTANTS u1, u2

\* The shop is open all morning; no seat has shifts of its own.
AllMorning == {[seatId |-> NoSeat, from |-> 0, to |-> 90]}
NoShifts == {}

\* The first seat works the first hour only, the second all morning.
PartTime == {[seatId |-> u1, from |-> 0, to |-> 30],
             [seatId |-> u2, from |-> 0, to |-> 90]}

SeatSymmetry == Permutations(Seats) \cup Permutations(Bookings)
BookingSymmetry == Permutations(Bookings)
=============================================================================
