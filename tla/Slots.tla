------------------------------- MODULE Slots -------------------------------
(***************************************************************************)
(* Booking times: the functions of lib/biz/slots.ts that decide whether a  *)
(* time can be taken.  The phone (bookings the owner writes down) and the  *)
(* server (bookings customers make) run these same functions over plain    *)
(* data, and so do BookingBook and ShopServer.                             *)
(*                                                                         *)
(* A time is a record [startsAt, durationMin, seatId], in minutes of one   *)
(* working day.  "busy", a list in the code, is a function from the keys   *)
(* of the taken times to such records: two equal times stay two times.     *)
(***************************************************************************)
EXTENDS Integers, FiniteSets

CONSTANT NoSeat   \* a booking that names no seat (seatId: null)

\* [start, end) of the two times meet.
Clash(a, b) ==
  /\ a.startsAt < b.startsAt + b.durationMin
  /\ b.startsAt < a.startsAt + a.durationMin

\* The keys of the taken times that s would meet.
Over(busy, s) == {k \in DOMAIN busy : Clash(s, busy[k])}

\* Broken variant of Fits: as many times may meet as there are seats, and one more.
FitsOneMore(seats, busy, s) ==
  LET over == Over(busy, s)
  IN  \/ /\ seats = {}
         /\ over = {}
      \/ /\ seats # {}
         /\ s.seatId # NoSeat => \A k \in over : busy[k].seatId # s.seatId
         /\ Cardinality(over) <= Cardinality(seats)

\* Without seats any taken time at that hour blocks s.  With seats, a taken
\* time on the same seat blocks it, and no more times may meet than there are
\* seats, one without a seat counting too.
Fits(seats, busy, s) ==
  LET over == Over(busy, s)
  IN  \/ /\ seats = {}
         /\ over = {}
      \/ /\ seats # {}
         /\ s.seatId # NoSeat => \A k \in over : busy[k].seatId # s.seatId
         /\ Cardinality(over) < Cardinality(seats)

\* Two times of which fits never accepts one while the other is taken.
Excludes(seats, s, u) ==
  /\ Clash(s, u)
  /\ seats # {} => s.seatId # NoSeat /\ s.seatId = u.seatId

OnSeat(s, u) == [s EXCEPT !.seatId = u]

\* The seats freeSeat may return for s: it takes the first in the business's
\* own order, which is any of them here.
FreeSeats(seats, busy, s) == {u \in seats : Fits(seats, busy, OnSeat(s, u))}

-----------------------------------------------------------------------------
\* Working windows [seatId, from, to] of one day: the seat's own shifts, else
\* the business's, else the opening hours.
WindowsFor(shifts, hours, u) ==
  LET own     == {w \in shifts : w.seatId = u}
      general == {w \in shifts : w.seatId = NoSeat}
  IN  CASE u # NoSeat /\ own # {} -> own
        [] ~(u # NoSeat /\ own # {}) /\ general # {} -> general
        [] OTHER -> {w \in hours : w.from < w.to}

\* The seats a time is judged for: its own, else any, else the business itself.
SeatsToAsk(seats, u) ==
  CASE u # NoSeat -> {u}
    [] u = NoSeat /\ seats # {} -> seats
    [] OTHER -> {NoSeat}

Inside(s, w) == s.startsAt >= w.from /\ s.startsAt + s.durationMin <= w.to

WithinHours(seats, shifts, hours, s) ==
  \E u \in SeatsToAsk(seats, s.seatId) :
    \E w \in WindowsFor(shifts, hours, u) : Inside(s, w)

\* checkBooking's verdict on a time at the instant now: not past, on a seat there is,
\* inside working time, and free.
Accepts(seats, shifts, hours, busy, s, now) ==
  /\ s.startsAt >= now
  /\ s.seatId \in seats \cup {NoSeat}
  /\ WithinHours(seats, shifts, hours, s)
  /\ Fits(seats, busy, s)

Minute == 1   \* MIN

\* Broken variant of AvailableSlots: only the start has to be inside the window.
SlotsToTheEnd(seats, shifts, hours, busy, s, starts, step, now) ==
  {t \in starts :
     \E u \in SeatsToAsk(seats, s.seatId) :
       LET at == [OnSeat(s, u) EXCEPT !.startsAt = t]
       IN  /\ t >= now - Minute
           /\ \E w \in WindowsFor(shifts, hours, u) :
                w.from <= t /\ t < w.to /\ (t - w.from) % step = 0
           /\ Fits(seats, busy, at)}

\* The start times offered for a duration: a grid from the beginning of each
\* window, where the whole duration is inside the window and free.  A time that
\* began within the last minute is still offered.
AvailableSlots(seats, shifts, hours, busy, s, starts, step, now) ==
  {t \in starts :
     \E u \in SeatsToAsk(seats, s.seatId) :
       LET at == [OnSeat(s, u) EXCEPT !.startsAt = t]
       IN  /\ t >= now - Minute
           /\ \E w \in WindowsFor(shifts, hours, u) :
                Inside(at, w) /\ (t - w.from) % step = 0
           /\ Fits(seats, busy, at)}
=============================================================================
