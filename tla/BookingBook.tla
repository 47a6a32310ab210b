---------------------------- MODULE BookingBook ----------------------------
(***************************************************************************)
(* The owner's appointment book: the bookings in lib/biz/ops.ts and the    *)
(* seats of components/biz/BookingView.tsx.  Every operation is one        *)
(* synchronous update of the local book, so it is one action.  The money   *)
(* of a finished booking (an order) is left out: only whether the sale     *)
(* goes through decides whether the status changes.                        *)
(***************************************************************************)
EXTENDS Slots

CONSTANTS
  Bookings,      \* ids of the bookings there may ever be
  Seats,         \* seats, chairs or tables the business may have
  Starts,        \* start times, minutes of the day
  Durations,     \* what a choice of services lasts
  Shifts,        \* working windows of seats and of the business
  Hours,         \* opening hours
  Step,          \* SLOT_STEP_MIN
  Cutoff,        \* RESCHEDULE_CUTOFF_MS
  LastMinute,    \* the day ends here (bound)
  VoiceUndo,     \* the assistant's undo of a cancellation is used
  SeatsChange    \* the owner turns seats on and off or deletes them

ASSUME BookAssumption ==
  /\ NoSeat \notin Seats
  /\ IsFiniteSet(Seats) /\ IsFiniteSet(Bookings)
  /\ Starts \subseteq Nat /\ Durations \subseteq Nat \ {0}
  /\ Step \in Nat \ {0} /\ Cutoff \in Nat /\ LastMinute \in Nat
  /\ {VoiceUndo, SeatsChange} \subseteq BOOLEAN

VARIABLES
  bookings,   \* b.bookings; status "none" = not in the list
  active,     \* the active seats (calendarOf(b).seatIds)
  now         \* Date.now()

vars == <<bookings, active, now>>

Status == {"pending", "confirmed", "done", "canceled"}
Time   == [startsAt : Starts, durationMin : Durations, seatId : Seats \cup {NoSeat}]
Row    == [startsAt : Starts \cup {0}, durationMin : Durations \cup {0},
           seatId : Seats \cup {NoSeat}, status : Status \cup {"none"}, flagged : BOOLEAN]

\* Bookings that hold their time: every one that is not canceled.
Live == {i \in Bookings : bookings[i].status \notin {"none", "canceled"}}

\* calendarOf(b, excludeId).busy
Busy(exclude) == [i \in Live \ exclude |-> bookings[i]]

TimeOf(row) == [startsAt |-> row.startsAt, durationMin |-> row.durationMin,
                seatId |-> row.seatId]

RowOf(s, st, flag) == [startsAt |-> s.startsAt, durationMin |-> s.durationMin,
                       seatId |-> s.seatId, status |-> st, flagged |-> flag]

\* The seat addBooking writes down: the one asked for, else a free one, else none.
SeatGiven(s) ==
  IF s.seatId # NoSeat \/ FreeSeats(active, Busy({}), s) = {}
  THEN {s.seatId}
  ELSE FreeSeats(active, Busy({}), s)

Absent == RowOf([startsAt |-> 0, durationMin |-> 0, seatId |-> NoSeat], "none", FALSE)

Init ==
  /\ bookings = [i \in Bookings |-> Absent]
  /\ active \in SUBSET Seats
  /\ now = 0

-----------------------------------------------------------------------------
(* Broken variants, one plausible slip each: a property that holds of the code is  *)
(* expected to fail of them.                                                       *)

\* The booking is moved to the end of the chosen time.
RescheduleToEnd(i, t) ==
  LET bk == bookings[i]
      moved == [TimeOf(bk) EXCEPT !.startsAt = t]
  IN  /\ bk.status \in {"pending", "confirmed"}
      /\ t >= now /\ bk.startsAt - now >= Cutoff
      /\ WithinHours(active, Shifts, Hours, moved)
      /\ Fits(active, Busy({i}), moved)
      /\ bookings' = [bookings EXCEPT ![i].startsAt = t + bk.durationMin]
      /\ UNCHANGED <<active, now>>

\* A booking is put on a seat that is not free for it.
AssignAnySeat(i, u) ==
  /\ bookings[i].status \notin {"none", "canceled"}
  /\ u \in active \cup {NoSeat}
  /\ bookings' = [bookings EXCEPT ![i].seatId = u]
  /\ UNCHANGED <<active, now>>

-----------------------------------------------------------------------------
\* A free time is written down: by hand or by voice ("confirmed"), or taken
\* over from the online shop ("pending").
AddBooking(i, s, st) ==
  /\ bookings[i].status = "none"
  /\ Fits(active, Busy({}), s)
  /\ \E u \in SeatGiven(s) :
       bookings' = [bookings EXCEPT ![i] = RowOf(OnSeat(s, u), st, FALSE)]
  /\ UNCHANGED <<active, now>>

\* A customer's time that is taken by now, or whose services the owner deleted since
\* (in any state of the calendar), is kept without a seat, flagged.
ForceBooking(i, s) ==
  /\ bookings[i].status = "none"
  /\ bookings' = [bookings EXCEPT ![i] = RowOf(OnSeat(s, NoSeat), "pending", TRUE)]
  /\ UNCHANGED <<active, now>>

\* A time chosen by hand is one the picker drew, inside working time.  addBooking does
\* not look at the clock, so the time may have gone by while the picker was open.
TakeByHand(i, s) ==
  /\ s.seatId \in active \cup {NoSeat}
  /\ WithinHours(active, Shifts, Hours, s)
  /\ AddBooking(i, s, "confirmed")

\* A customer's item from the inbox, inside the working time of the seats that
\* were published: not always the seats there are when it is collected.
TakeFromShop(i, s) ==
  /\ \E seats \in IF SeatsChange THEN SUBSET Seats ELSE {active} :
       s.seatId \in seats \cup {NoSeat} /\ WithinHours(seats, Shifts, Hours, s)
  /\ AddBooking(i, s, "pending") \/ ForceBooking(i, s)

RescheduleBooking(i, t) ==
  LET bk == bookings[i]
      moved == [TimeOf(bk) EXCEPT !.startsAt = t]
  IN  /\ bk.status \in {"pending", "confirmed"}
      /\ t >= now /\ bk.startsAt - now >= Cutoff
      /\ WithinHours(active, Shifts, Hours, moved)   \* the picker offers no other
      /\ Fits(active, Busy({i}), moved)
      /\ bookings' = [bookings EXCEPT ![i].startsAt = t]
      /\ UNCHANGED <<active, now>>

AssignSeat(i, u) ==
  LET bk == bookings[i]
  IN  /\ bk.status \notin {"none", "canceled"}
      /\ u \in active \cup {NoSeat}
      /\ u # NoSeat => Fits(active, Busy({i}), OnSeat(TimeOf(bk), u))
      /\ bookings' = [bookings EXCEPT ![i].seatId = u]
      /\ UNCHANGED <<active, now>>

\* setBookingStatus, from the buttons the booking's row shows: a refused sale
\* ("done") changes nothing and is no step.
SetBookingStatus(i, st) ==
  /\ \/ bookings[i].status = "pending" /\ st \in {"confirmed", "done", "canceled"}
     \/ bookings[i].status = "confirmed" /\ st \in {"done", "canceled"}
     \/ bookings[i].status = "done" /\ st = "confirmed"
  /\ bookings' = [bookings EXCEPT ![i].status = st]
  /\ UNCHANGED <<active, now>>

\* undoBiz after a cancellation by voice: confirmed again, nothing is checked.
UndoCancel(i) ==
  /\ VoiceUndo
  /\ bookings[i].status = "canceled"
  /\ bookings' = [bookings EXCEPT ![i].status = "confirmed"]
  /\ UNCHANGED <<active, now>>

\* undoBiz after a booking by voice: the row is dropped.
UndoBook(i) ==
  /\ VoiceUndo
  /\ bookings[i].status # "none"
  /\ bookings' = [bookings EXCEPT ![i] = Absent]
  /\ UNCHANGED <<active, now>>

\* A seat is turned on or off.
ToggleSeat(u) ==
  /\ SeatsChange
  /\ active' = IF u \in active THEN active \ {u} ELSE active \cup {u}
  /\ UNCHANGED <<bookings, now>>

\* A seat is deleted: the bookings on it stay, without a seat.  Turned on again, it
\* stands for a new one with the same shifts.
DeleteSeat(u) ==
  /\ SeatsChange
  /\ active' = active \ {u}
  /\ bookings' = [i \in Bookings |->
                    IF bookings[i].seatId = u
                    THEN [bookings[i] EXCEPT !.seatId = NoSeat] ELSE bookings[i]]
  /\ UNCHANGED now

\* The clock moves on to a time that may be booked, to the minute after it, in which it
\* is still offered, or to the end of the day.
Tick ==
  /\ \E t \in Starts \cup {m + Minute : m \in Starts} \cup {LastMinute} :
       t > now /\ now' = t
  /\ UNCHANGED <<bookings, active>>

Next ==
  \/ \E i \in Bookings :
       \/ \E s \in Time : TakeByHand(i, s) \/ TakeFromShop(i, s)
       \/ \E t \in Starts : RescheduleBooking(i, t)
       \/ \E u \in Seats \cup {NoSeat} : AssignSeat(i, u)
       \/ \E st \in Status : SetBookingStatus(i, st)
       \/ UndoCancel(i) \/ UndoBook(i)
  \/ \E u \in Seats : ToggleSeat(u) \/ DeleteSeat(u)
  \/ Tick

Spec == Init /\ [][Next]_vars

-----------------------------------------------------------------------------
\* Type invariant: every row is a booking or absent, and the seats are the business's.
TypeOK ==
  /\ bookings \in [Bookings -> Row]
  /\ active \in SUBSET Seats
  /\ now \in Nat

\* Two bookings on the same seat never meet, whatever sequence of taking, moving,
\* seating, finishing and canceling led here, flagged ones included (fits in
\* lib/biz/slots.ts, as every operation of lib/biz/ops.ts uses it).
SeatDisjoint ==
  \A i, j \in Live :
    i # j /\ bookings[i].seatId # NoSeat /\ bookings[i].seatId = bookings[j].seatId
      => ~Clash(bookings[i], bookings[j])

\* Bookings nobody was warned about that are going on at the instant t.
GoingOn(t) ==
  {i \in Live : /\ ~bookings[i].flagged
                /\ bookings[i].startsAt <= t
                /\ t < bookings[i].startsAt + bookings[i].durationMin}

Places == IF active = {} THEN 1 ELSE Cardinality(active)

\* At no instant are more unflagged bookings going on than there are seats (one, for
\* a business without seats), although fits counts what meets a booking anywhere in
\* its time and some have no seat.  The count is highest when a booking starts.
WithinCapacity == \A t \in Starts : Cardinality(GoingOn(t)) <= Places

\* A time that fits without a seat always finds one: freeSeat, which addBooking
\* asks after fits, never comes back empty-handed.
SeatIsFound ==
  \A s \in Time :
    active # {} /\ s.seatId = NoSeat /\ Fits(active, Busy({}), s)
      => FreeSeats(active, Busy({}), s) # {}

\* A time the pickers offer (availableSlots, in the app, on the shop page and in the
\* Telegram bot) is one that checkBooking then accepts, unless it began within the last
\* minute: the pickers still offer that, and checkBooking and rescheduleBooking refuse it.
OfferedIsAccepted ==
  \A s \in Time :
    /\ s.seatId \in active \cup {NoSeat}
    /\ s.startsAt \in
         AvailableSlots(active, Shifts, Hours, Busy({}), s, Starts, Step, now)
    => \/ Accepts(active, Shifts, Hours, Busy({}), s, now)
       \/ s.startsAt < now /\ Accepts(active, Shifts, Hours, Busy({}), s, now - Minute)
=============================================================================
