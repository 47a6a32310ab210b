------------------------- MODULE BookingBookProofs -------------------------
(***************************************************************************)
(* Theorems about BookingBook, for every number of bookings and seats and  *)
(* every set of times; before them, what the functions of lib/biz/slots.ts *)
(* promise whatever times are taken and however many seats there are.      *)
(***************************************************************************)
EXTENDS BookingBook, FiniteSetTheorems, TLAPS

-----------------------------------------------------------------------------
(* The functions of Slots. *)

\* Whether two times meet does not depend on the seat.
LEMMA ClashIgnoresSeat ==
  ASSUME NEW s, s \in [startsAt : Int, durationMin : Int, seatId : {s.seatId}], NEW u, NEW b
  PROVE  Clash(OnSeat(s, u), b) <=> Clash(s, b)
BY DEF Clash, OnSeat

LEMMA ClashSymmetric ==
  ASSUME NEW a, NEW b
  PROVE  Clash(a, b) <=> Clash(b, a)
BY DEF Clash

\* A time that fits on a seat meets no taken time on that seat.
LEMMA FitsIsApart ==
  ASSUME NEW seats, NEW busy, NEW s, Fits(seats, busy, s), s.seatId # NoSeat,
         NEW k \in DOMAIN busy, busy[k].seatId = s.seatId
  PROVE  ~Clash(s, busy[k])
BY DEF Fits, Over

\* A time that fits leaves a place: what it meets is fewer than the seats, and
\* nothing when there are none.
LEMMA FitsLeavesPlace ==
  ASSUME NEW seats, NEW busy, NEW s, Fits(seats, busy, s)
  PROVE  /\ seats = {} => Over(busy, s) = {}
         /\ seats # {} => Cardinality(Over(busy, s)) < Cardinality(seats)
BY DEF Fits

\* A time that fits without a seat always finds one: freeSeat, asked after fits, does
\* not come back empty-handed, since the times it meets are fewer than the seats.
THEOREM FreeSeatExists ==
  ASSUME NEW seats, IsFiniteSet(seats), seats # {}, NoSeat \notin seats,
         NEW busy, IsFiniteSet(DOMAIN busy),
         NEW s, s \in [startsAt : Int, durationMin : Int, seatId : {NoSeat}],
         Fits(seats, busy, s)
  PROVE  FreeSeats(seats, busy, s) # {}
<1> DEFINE over == Over(busy, s)
           taker == [u \in seats |-> CHOOSE k \in over : busy[k].seatId = u]
<1>1. IsFiniteSet(over) /\ Cardinality(over) < Cardinality(seats)
  BY FS_Subset, FitsLeavesPlace DEF Over
<1>2. \A u \in seats : Over(busy, OnSeat(s, u)) = over /\ OnSeat(s, u).seatId = u
  BY ClashIgnoresSeat DEF Over, OnSeat
<1>3. SUFFICES ASSUME \A u \in seats : \E k \in over : busy[k].seatId = u
               PROVE  FALSE
  <2>1. PICK u \in seats : \A k \in over : busy[k].seatId # u
    BY <1>3
  <2>2. Fits(seats, busy, OnSeat(s, u))
    BY <1>1, <1>2, <2>1 DEF Fits
  <2> QED BY <2>2 DEF FreeSeats
<1>4. \A u \in seats : taker[u] \in over /\ busy[taker[u]].seatId = u
  BY <1>3
<1>5. taker \in [seats -> over]
  BY <1>4
<1>6. PICK x, y \in seats : x # y /\ taker[x] = taker[y]
  <2>1. IsFiniteSet(over) /\ IsFiniteSet(seats) /\ Cardinality(over) < Cardinality(seats)
    BY <1>1
  <2> HIDE DEF over, taker
  <2> QED BY <1>5, <2>1, FS_PigeonHole
<1> QED BY <1>4, <1>6

\* A start time that is offered is inside working time and free for the seat asked
\* for, or without a seat when none was, and began at most a minute ago.
THEOREM OfferedFits ==
  ASSUME NEW seats, NoSeat \notin seats, NEW shifts, NEW hours, NEW busy,
         NEW s, s \in [startsAt : Int, durationMin : Int, seatId : {s.seatId}],
         NEW starts, NEW step, NEW at,
         s.startsAt \in AvailableSlots(seats, shifts, hours, busy, s, starts, step, at)
  PROVE  /\ WithinHours(seats, shifts, hours, s) /\ Fits(seats, busy, s)
         /\ s.startsAt >= at - Minute
<1>1. PICK u \in SeatsToAsk(seats, s.seatId) :
        /\ s.startsAt >= at - Minute
        /\ \E w \in WindowsFor(shifts, hours, u) : Inside([OnSeat(s, u) EXCEPT !.startsAt = s.startsAt], w)
        /\ Fits(seats, busy, [OnSeat(s, u) EXCEPT !.startsAt = s.startsAt])
  BY DEF AvailableSlots
<1>2. [OnSeat(s, u) EXCEPT !.startsAt = s.startsAt] = OnSeat(s, u)
  BY DEF OnSeat
<1>3. Fits(seats, busy, OnSeat(s, u)) /\ \E w \in WindowsFor(shifts, hours, u) : Inside(OnSeat(s, u), w)
  BY <1>1, <1>2
<1>4. WithinHours(seats, shifts, hours, s)
  BY <1>3 DEF WithinHours, Inside, OnSeat
<1>5. Over(busy, OnSeat(s, u)) = Over(busy, s) /\ OnSeat(s, u).seatId = u
  BY ClashIgnoresSeat DEF Over, OnSeat
<1>6. Fits(seats, busy, s)
  <2>1. CASE s.seatId # NoSeat
    BY <1>3, <1>5, <2>1 DEF SeatsToAsk, Fits
  <2>2. CASE s.seatId = NoSeat
    BY <1>3, <1>5, <2>2 DEF Fits
  <2> QED BY <2>1, <2>2
<1> QED BY <1>1, <1>4, <1>6

-----------------------------------------------------------------------------
(* Typing. *)

LEMMA TypeInit == BookAssumption /\ Init => TypeOK
<1> SUFFICES ASSUME BookAssumption, Init PROVE TypeOK
  OBVIOUS
<1>1. Absent \in Row
  BY DEF Absent, Row, RowOf
<1> QED BY <1>1 DEF Init, TypeOK

\* The seat a new booking gets is a seat of the business, or none.
LEMMA SeatGivenType ==
  ASSUME TypeOK, NEW s \in Time, NEW u \in SeatGiven(s)
  PROVE  u \in Seats \cup {NoSeat}
BY DEF SeatGiven, FreeSeats, Time, TypeOK

LEMMA TypeNext == BookAssumption /\ TypeOK /\ [Next]_vars => TypeOK'
<1> SUFFICES ASSUME BookAssumption, TypeOK, [Next]_vars PROVE TypeOK'
  OBVIOUS
<1>a. ASSUME NEW i \in Bookings, NEW row \in Row, bookings' = [bookings EXCEPT ![i] = row],
             UNCHANGED <<active, now>>
      PROVE  TypeOK'
  BY <1>a DEF TypeOK
<1>b. ASSUME NEW s \in Time, NEW u \in Seats \cup {NoSeat},
             NEW st \in Status, NEW flag \in BOOLEAN
      PROVE  RowOf(OnSeat(s, u), st, flag) \in Row
  BY <1>b DEF RowOf, OnSeat, Time, Row
<1>c. ASSUME NEW i \in Bookings, NEW s \in Time, NEW st \in Status, AddBooking(i, s, st)
      PROVE  TypeOK'
  BY <1>a, <1>b, <1>c, SeatGivenType DEF AddBooking
<1>1. ASSUME NEW i \in Bookings, NEW s \in Time, TakeByHand(i, s)
      PROVE  TypeOK'
  BY <1>1, <1>c DEF TakeByHand, Status
<1>2. ASSUME NEW i \in Bookings, NEW s \in Time, TakeFromShop(i, s)
      PROVE  TypeOK'
  BY <1>2, <1>a, <1>b, <1>c DEF TakeFromShop, ForceBooking, Status
<1>3. ASSUME NEW i \in Bookings, NEW t \in Starts, RescheduleBooking(i, t)
      PROVE  TypeOK'
  BY <1>3 DEF RescheduleBooking, TypeOK, Row
<1>4. ASSUME NEW i \in Bookings, NEW u \in Seats \cup {NoSeat}, AssignSeat(i, u)
      PROVE  TypeOK'
  BY <1>4 DEF AssignSeat, TypeOK, Row
<1>5. ASSUME NEW i \in Bookings, NEW st \in Status, SetBookingStatus(i, st)
      PROVE  TypeOK'
  BY <1>5 DEF SetBookingStatus, TypeOK, Row
<1>6. ASSUME NEW i \in Bookings, UndoCancel(i)
      PROVE  TypeOK'
  BY <1>6 DEF UndoCancel, TypeOK, Row, Status
<1>7. ASSUME NEW i \in Bookings, UndoBook(i)
      PROVE  TypeOK'
  <2>1. Absent \in Row
    BY DEF Absent, Row, RowOf
  <2> QED BY <1>7, <1>a, <2>1 DEF UndoBook
<1>8. ASSUME NEW u \in Seats, ToggleSeat(u)
      PROVE  TypeOK'
  BY <1>8 DEF ToggleSeat, TypeOK
<1>9. ASSUME NEW u \in Seats, DeleteSeat(u)
      PROVE  TypeOK'
  BY <1>9 DEF DeleteSeat, TypeOK, Row
<1>10. CASE Tick
  BY <1>10 DEF Tick, TypeOK, BookAssumption
<1>11. CASE UNCHANGED vars
  BY <1>11 DEF vars, TypeOK
<1> QED BY <1>1, <1>2, <1>3, <1>4, <1>5, <1>6, <1>7, <1>8, <1>9, <1>10, <1>11 DEF Next

\* Every state is well typed: whatever the owner, the customers and the clock do, a
\* row is a booking or absent and the active seats are the business's.
THEOREM BookTypeCorrect == Spec => []TypeOK
<1>1. Init => TypeOK
  BY BookAssumption, TypeInit
<1>2. TypeOK /\ [Next]_vars => TypeOK'
  BY BookAssumption, TypeNext
<1> QED BY <1>1, <1>2, PTL DEF Spec

-----------------------------------------------------------------------------
(* Bookings on the same seat are apart. *)

\* Writing one row keeps the seats apart when the row holds no time, has no seat, or
\* meets no other booking on its seat.
LEMMA SetRow ==
  ASSUME TypeOK, SeatDisjoint, NEW i \in Bookings, NEW row,
         bookings' = [bookings EXCEPT ![i] = row],
         \/ row.status \in {"none", "canceled"}
         \/ row.seatId = NoSeat
         \/ \A j \in Live \ {i} : bookings[j].seatId = row.seatId => ~Clash(row, bookings[j])
  PROVE  SeatDisjoint'
<1>1. \A j \in Bookings : bookings'[j] = IF j = i THEN row ELSE bookings[j]
  BY DEF TypeOK
<1>2. Live' \subseteq Live \cup {i} /\ (i \in Live' => row.status \notin {"none", "canceled"})
  BY <1>1 DEF Live
<1> SUFFICES ASSUME NEW j \in Live', NEW k \in Live', j # k, bookings'[j].seatId # NoSeat,
                    bookings'[j].seatId = bookings'[k].seatId
             PROVE  ~Clash(bookings'[j], bookings'[k])
  BY DEF SeatDisjoint
<1>3. j \in Bookings /\ k \in Bookings
  BY DEF Live
<1>4. CASE j # i /\ k # i
  BY <1>1, <1>2, <1>3, <1>4 DEF SeatDisjoint
<1>5. CASE j = i
  BY <1>1, <1>2, <1>3, <1>5
<1>6. CASE k = i
  BY <1>1, <1>2, <1>3, <1>6, ClashSymmetric
<1> QED BY <1>4, <1>5, <1>6

\* A time that fits the others' busy list is apart from them on its seat.
LEMMA FitsBusy ==
  ASSUME NEW x \in SUBSET Bookings, NEW s, s.seatId # NoSeat, Fits(active, Busy(x), s)
  PROVE  \A j \in Live \ x : bookings[j].seatId = s.seatId => ~Clash(s, bookings[j])
<1> SUFFICES ASSUME NEW j \in Live \ x, bookings[j].seatId = s.seatId
             PROVE  ~Clash(s, bookings[j])
  OBVIOUS
<1>1. j \in DOMAIN Busy(x) /\ Busy(x)[j] = bookings[j]
  BY DEF Busy
<1> QED BY <1>1, FitsIsApart

LEMMA SeatsNext ==
  ASSUME BookAssumption, ~VoiceUndo, TypeOK, SeatDisjoint, [Next]_vars
  PROVE  SeatDisjoint'
<1>a. ASSUME NEW i \in Bookings, NEW s \in Time, NEW st \in Status, AddBooking(i, s, st)
      PROVE  SeatDisjoint'
  <2>1. PICK u \in SeatGiven(s) :
          bookings' = [bookings EXCEPT ![i] = RowOf(OnSeat(s, u), st, FALSE)]
    BY <1>a DEF AddBooking
  <2>2. RowOf(OnSeat(s, u), st, FALSE).seatId = u /\ OnSeat(s, u).seatId = u
    BY DEF RowOf, OnSeat, Time
  <2>3. CASE u = NoSeat
    BY <2>1, <2>2, <2>3, SetRow
  <2>4. CASE u # NoSeat
    <3>1. Fits(active, Busy({}), OnSeat(s, u))
      <4>1. CASE u \in FreeSeats(active, Busy({}), s)
        BY <4>1 DEF FreeSeats
      <4>2. CASE u = s.seatId
        <5>1. OnSeat(s, u) = s
          BY <4>2 DEF OnSeat, Time
        <5> QED BY <1>a, <5>1 DEF AddBooking
      <4> QED BY <4>1, <4>2 DEF SeatGiven
    <3>2. \A j \in Live : bookings[j].seatId = u => ~Clash(OnSeat(s, u), bookings[j])
      BY <2>2, <2>4, <3>1, FitsBusy
    <3>3. \A j \in Live :
            bookings[j].seatId = u => ~Clash(RowOf(OnSeat(s, u), st, FALSE), bookings[j])
      BY <3>2 DEF Clash, RowOf
    <3> QED BY <2>1, <2>2, <3>3, SetRow
  <2> QED BY <2>3, <2>4
<1>1. ASSUME NEW i \in Bookings, NEW s \in Time, TakeByHand(i, s)
      PROVE  SeatDisjoint'
  BY <1>1, <1>a DEF TakeByHand, Status
<1>2. ASSUME NEW i \in Bookings, NEW s \in Time, TakeFromShop(i, s)
      PROVE  SeatDisjoint'
  <2>1. CASE AddBooking(i, s, "pending")
    BY <1>a, <2>1 DEF Status
  <2>2. CASE ForceBooking(i, s)
    <3>1. RowOf(OnSeat(s, NoSeat), "pending", TRUE).seatId = NoSeat
      BY DEF RowOf, OnSeat, Time
    <3> QED BY <2>2, <3>1, SetRow DEF ForceBooking
  <2> QED BY <1>2, <2>1, <2>2 DEF TakeFromShop
<1>3. ASSUME NEW i \in Bookings, NEW t \in Starts, RescheduleBooking(i, t)
      PROVE  SeatDisjoint'
  <2> DEFINE moved == [TimeOf(bookings[i]) EXCEPT !.startsAt = t]
             row   == [bookings[i] EXCEPT !.startsAt = t]
  <2>1. bookings[i] \in Row
    BY DEF TypeOK
  <2>2. bookings' = [bookings EXCEPT ![i] = row]
    BY <1>3, <2>1 DEF RescheduleBooking, TypeOK
  <2>3. /\ moved.seatId = row.seatId /\ moved.startsAt = row.startsAt
        /\ moved.durationMin = row.durationMin
    BY <2>1 DEF TimeOf, Row
  <2>4. CASE row.seatId # NoSeat
    <3>1. \A j \in Live \ {i} : bookings[j].seatId = moved.seatId => ~Clash(moved, bookings[j])
      BY <1>3, <2>3, <2>4, FitsBusy DEF RescheduleBooking
    <3>2. \A j \in Live \ {i} : bookings[j].seatId = row.seatId => ~Clash(row, bookings[j])
      BY <2>3, <3>1 DEF Clash
    <3> QED BY <2>2, <3>2, SetRow
  <2> QED BY <2>2, <2>4, SetRow
<1>4. ASSUME NEW i \in Bookings, NEW u \in Seats \cup {NoSeat}, AssignSeat(i, u)
      PROVE  SeatDisjoint'
  <2> DEFINE placed == OnSeat(TimeOf(bookings[i]), u)
             row    == [bookings[i] EXCEPT !.seatId = u]
  <2>1. bookings[i] \in Row
    BY DEF TypeOK
  <2>2. bookings' = [bookings EXCEPT ![i] = row]
    BY <1>4, <2>1 DEF AssignSeat, TypeOK
  <2>3. /\ placed.seatId = u /\ row.seatId = u /\ placed.startsAt = row.startsAt
        /\ placed.durationMin = row.durationMin
    BY <2>1 DEF TimeOf, OnSeat, Row
  <2>4. CASE u # NoSeat
    <3>1. \A j \in Live \ {i} : bookings[j].seatId = u => ~Clash(placed, bookings[j])
      BY <1>4, <2>3, <2>4, FitsBusy DEF AssignSeat
    <3>2. \A j \in Live \ {i} : bookings[j].seatId = row.seatId => ~Clash(row, bookings[j])
      BY <2>3, <3>1 DEF Clash
    <3> QED BY <2>2, <3>2, SetRow
  <2> QED BY <2>2, <2>3, <2>4, SetRow
<1>5. ASSUME NEW i \in Bookings, NEW st \in Status, SetBookingStatus(i, st)
      PROVE  SeatDisjoint'
  <2>1. i \in Live /\ bookings[i] \in Row
    BY <1>5 DEF SetBookingStatus, Live, TypeOK
  <2>2. bookings' = [bookings EXCEPT ![i] = [bookings[i] EXCEPT !.status = st]]
    BY <1>5 DEF SetBookingStatus, TypeOK
  <2>3. \A j \in Live \ {i} :
          bookings[i].seatId # NoSeat /\ bookings[j].seatId = bookings[i].seatId
            => ~Clash([bookings[i] EXCEPT !.status = st], bookings[j])
    BY <2>1 DEF SeatDisjoint, Clash, Row
  <2>4. [bookings[i] EXCEPT !.status = st].seatId = bookings[i].seatId
    BY <2>1 DEF Row
  <2> QED BY <2>2, <2>3, <2>4, SetRow
<1>6. ASSUME NEW i \in Bookings, UndoCancel(i) \/ UndoBook(i)
      PROVE  SeatDisjoint'
  BY <1>6 DEF UndoCancel, UndoBook
<1>7. ASSUME NEW u \in Seats, DeleteSeat(u)
      PROVE  SeatDisjoint'
  <2>1. \A j \in Bookings :
          bookings'[j] = IF bookings[j].seatId = u
                         THEN [bookings[j] EXCEPT !.seatId = NoSeat] ELSE bookings[j]
    BY <1>7 DEF DeleteSeat
  <2>2. \A j \in Bookings : /\ bookings[j] \in Row
                            /\ bookings'[j].status = bookings[j].status
                            /\ bookings'[j].seatId # NoSeat => bookings'[j] = bookings[j]
    BY <2>1 DEF TypeOK, Row
  <2>3. Live' = Live
    BY <2>2 DEF Live
  <2> QED BY <2>2, <2>3 DEF SeatDisjoint, Live
<1>8. CASE UNCHANGED bookings
  BY <1>8 DEF SeatDisjoint, Live
<1>9. ASSUME NEW u \in Seats, ToggleSeat(u)
      PROVE  SeatDisjoint'
  BY <1>8, <1>9 DEF ToggleSeat
<1> QED BY <1>1, <1>2, <1>3, <1>4, <1>5, <1>6, <1>7, <1>8, <1>9 DEF Next, Tick, vars

\* Unless a cancellation is undone by voice, two bookings on the same seat never
\* meet, whatever sequence of taking, moving, seating, finishing, canceling, and of
\* turning seats on and off or deleting them, led there.
THEOREM SeatsStayApart == ~VoiceUndo /\ Spec => []SeatDisjoint
<1> SUFFICES ASSUME ~VoiceUndo PROVE Spec => []SeatDisjoint
  OBVIOUS
<1>1. Init => SeatDisjoint
  BY DEF Init, SeatDisjoint, Live, Absent, RowOf
<1>2. TypeOK /\ SeatDisjoint /\ [Next]_vars => SeatDisjoint'
  BY BookAssumption, SeatsNext
<1> QED BY <1>1, <1>2, BookTypeCorrect, PTL DEF Spec

-----------------------------------------------------------------------------
(* What is offered is accepted, and gets a seat. *)

LEMMA RowTyped ==
  ASSUME NEW row \in Row
  PROVE  row.startsAt \in Int /\ row.durationMin \in Int
<1>1. row.startsAt \in Starts \cup {0} /\ row.durationMin \in Durations \cup {0}
  BY DEF Row
<1>2. Starts \cup {0} \subseteq Int /\ Durations \cup {0} \subseteq Int
  BY BookAssumption DEF BookAssumption
<1> QED BY <1>1, <1>2

LEMMA TimeTyped ==
  ASSUME NEW s \in Time
  PROVE  s \in [startsAt : Int, durationMin : Int, seatId : {s.seatId}]
<1>1. s.startsAt \in Starts /\ s.durationMin \in Durations
  BY DEF Time
<1>2. s.startsAt \in Int /\ s.durationMin \in Int
  <2>1. Starts \subseteq Int /\ Durations \subseteq Int
    BY BookAssumption DEF BookAssumption
  <2> QED BY <1>1, <2>1
<1>3. s = [startsAt |-> s.startsAt, durationMin |-> s.durationMin, seatId |-> s.seatId]
  BY DEF Time
<1> QED BY <1>2, <1>3

\* Whenever a time without a seat fits, some seat is free for it.
THEOREM SeatIsAlwaysFound == Spec => []SeatIsFound
<1>1. TypeOK => SeatIsFound
  <2> SUFFICES ASSUME TypeOK, NEW s \in Time, active # {}, s.seatId = NoSeat,
                      Fits(active, Busy({}), s)
               PROVE  FreeSeats(active, Busy({}), s) # {}
    BY DEF SeatIsFound
  <2>1. IsFiniteSet(active) /\ NoSeat \notin active
    BY BookAssumption, FS_Subset DEF TypeOK, BookAssumption
  <2>2. DOMAIN Busy({}) \subseteq Bookings
    BY DEF Busy, Live
  <2>3. IsFiniteSet(DOMAIN Busy({}))
    BY <2>2, BookAssumption, FS_Subset DEF BookAssumption
  <2>4. s \in [startsAt : Int, durationMin : Int, seatId : {NoSeat}]
    BY TimeTyped
  <2> QED BY <2>1, <2>3, <2>4, FreeSeatExists
<1> QED BY <1>1, BookTypeCorrect, PTL

\* Every time the pickers offer is one that checkBooking accepts, or would have accepted a
\* minute ago if it began since.
THEOREM OfferedIsAlwaysAccepted == Spec => []OfferedIsAccepted
<1>1. TypeOK => OfferedIsAccepted
  <2> SUFFICES ASSUME TypeOK, NEW s \in Time,
                      s.seatId \in active \cup {NoSeat},
                      s.startsAt \in AvailableSlots(active, Shifts, Hours, Busy({}), s,
                                                   Starts, Step, now)
               PROVE  \/ Accepts(active, Shifts, Hours, Busy({}), s, now)
                      \/ /\ s.startsAt < now
                         /\ Accepts(active, Shifts, Hours, Busy({}), s, now - Minute)
    BY DEF OfferedIsAccepted
  <2>1. NoSeat \notin active
    BY BookAssumption DEF TypeOK, BookAssumption
  <2>2. s \in [startsAt : Int, durationMin : Int, seatId : {s.seatId}]
    BY TimeTyped
  <2>3. /\ WithinHours(active, Shifts, Hours, s) /\ Fits(active, Busy({}), s)
        /\ s.startsAt >= now - Minute
    BY <2>1, <2>2, OfferedFits
  <2>4. s.startsAt >= now \/ s.startsAt < now
    BY <2>2 DEF TypeOK
  <2> QED BY <2>3, <2>4 DEF Accepts
<1> QED BY <1>1, BookTypeCorrect, PTL

-----------------------------------------------------------------------------
(* No more bookings at once than places, while the seats stay as they are: a seat    *)
(* turned off, or a cancellation undone by voice, may leave too many.                *)

LEMMA GoingOnFinite ==
  ASSUME BookAssumption, TypeOK, NEW t
  PROVE  /\ IsFiniteSet(GoingOn(t)) /\ Cardinality(GoingOn(t)) \in Nat
         /\ IsFiniteSet(active) /\ Cardinality(active) \in Nat /\ Places \in Nat
<1>1. GoingOn(t) \subseteq Bookings /\ active \subseteq Seats
  BY DEF GoingOn, Live, TypeOK
<1>2. IsFiniteSet(GoingOn(t)) /\ IsFiniteSet(active)
  BY <1>1, FS_Subset DEF BookAssumption
<1>3. Cardinality(GoingOn(t)) \in Nat /\ Cardinality(active) \in Nat
  BY <1>2, FS_CardinalityType
<1> QED BY <1>2, <1>3 DEF Places

\* When no instant gains a booking, the count stays within the places.
LEMMA FewerGoOn ==
  ASSUME BookAssumption, TypeOK, WithinCapacity, UNCHANGED active,
         \A t \in Starts : GoingOn(t)' \subseteq GoingOn(t)
  PROVE  WithinCapacity'
<1> SUFFICES ASSUME NEW t \in Starts PROVE Cardinality(GoingOn(t)') <= Places
  BY DEF WithinCapacity, Places
<1>1. /\ IsFiniteSet(GoingOn(t)) /\ Cardinality(GoingOn(t)) \in Nat /\ Places \in Nat
      /\ Cardinality(GoingOn(t)) <= Places
  BY GoingOnFinite DEF WithinCapacity
<1>2. IsFiniteSet(GoingOn(t)') /\ Cardinality(GoingOn(t)') <= Cardinality(GoingOn(t))
  BY <1>1, FS_Subset
<1>3. Cardinality(GoingOn(t)') \in Nat
  BY <1>2, FS_CardinalityType
<1> QED BY <1>1, <1>2, <1>3

\* A row written at a time that fits the others leaves no instant with too many: what
\* goes on together with it is among what it meets, and that is fewer than the places.
LEMMA PlacedFits ==
  ASSUME BookAssumption, TypeOK, TypeOK', WithinCapacity, UNCHANGED active,
         NEW i \in Bookings, NEW row, NEW s, NEW x \in SUBSET {i},
         i \notin Live \/ x = {i},
         bookings' = [bookings EXCEPT ![i] = row],
         row.startsAt = s.startsAt, row.durationMin = s.durationMin,
         Fits(active, Busy(x), s)
  PROVE  WithinCapacity'
<1> SUFFICES ASSUME NEW t \in Starts PROVE Cardinality(GoingOn(t)') <= Places
  BY DEF WithinCapacity, Places
<1> DEFINE over == Over(Busy(x), s)
<1>1. \A j \in Bookings : bookings'[j] = IF j = i THEN row ELSE bookings[j]
  BY DEF TypeOK
<1>2. GoingOn(t)' \ {i} \subseteq GoingOn(t)
  BY <1>1 DEF GoingOn, Live
<1>3. CASE i \notin GoingOn(t)'
  <2>1. GoingOn(t)' \subseteq GoingOn(t)
    BY <1>2, <1>3
  <2>2. /\ IsFiniteSet(GoingOn(t)) /\ Cardinality(GoingOn(t)) \in Nat /\ Places \in Nat
        /\ Cardinality(GoingOn(t)) <= Places
    BY GoingOnFinite DEF WithinCapacity
  <2>3. IsFiniteSet(GoingOn(t)') /\ Cardinality(GoingOn(t)') <= Cardinality(GoingOn(t))
    BY <2>1, <2>2, FS_Subset
  <2>4. Cardinality(GoingOn(t)') \in Nat
    BY <2>3, FS_CardinalityType
  <2> QED BY <2>2, <2>3, <2>4
<1>4. CASE i \in GoingOn(t)'
  <2>1. s.startsAt <= t /\ t < s.startsAt + s.durationMin
    BY <1>1, <1>4 DEF GoingOn
  <2>2. GoingOn(t)' \ {i} \subseteq over
    <3> SUFFICES ASSUME NEW j \in GoingOn(t)' \ {i} PROVE j \in over
      OBVIOUS
    <3>1. j \in Live \ x /\ j \in GoingOn(t)
      BY <1>2 DEF GoingOn
    <3>2. j \in DOMAIN Busy(x) /\ Busy(x)[j] = bookings[j]
      BY <3>1 DEF Busy
    <3>3. bookings[j].startsAt <= t /\ t < bookings[j].startsAt + bookings[j].durationMin
      BY <3>1 DEF GoingOn
    <3>4. Clash(s, bookings[j])
      <4>1. bookings[j].startsAt \in Int /\ bookings[j].durationMin \in Int
        <5>1. bookings[j] \in Row
          BY <3>1 DEF TypeOK, Live
        <5> QED BY <5>1, RowTyped
      <4>2. s.startsAt \in Int /\ s.durationMin \in Int
        <5>1. bookings'[i] \in Row /\ bookings'[i] = row
          BY <1>1 DEF TypeOK
        <5> QED BY <5>1, RowTyped
      <4>3. t \in Int
        BY DEF BookAssumption
      <4> QED BY <2>1, <3>3, <4>1, <4>2, <4>3 DEF Clash
    <3> QED BY <3>2, <3>4 DEF Over
  <2>3. IsFiniteSet(over) /\ Cardinality(over) \in Nat
    <3>1. over \subseteq Bookings
      BY DEF Over, Busy, Live
    <3> QED BY <3>1, FS_Subset, FS_CardinalityType DEF BookAssumption
  <2>4. Cardinality(over) < Places /\ Places \in Nat
    <3>1. active = {} => over = {}
      BY DEF Fits
    <3>2. active # {} => Cardinality(over) < Cardinality(active)
      BY DEF Fits
    <3>3. over = {} => Cardinality(over) = 0
      BY FS_EmptySet
    <3> HIDE DEF over
    <3> QED BY <3>1, <3>2, <3>3, GoingOnFinite DEF Places
  <2>5. IsFiniteSet(over \cup {i}) /\ Cardinality(over \cup {i}) <= Cardinality(over) + 1
    <3> HIDE DEF over
    <3>1. /\ IsFiniteSet(over \cup {i})
          /\ Cardinality(over \cup {i}) = IF i \in over THEN Cardinality(over)
                                        ELSE Cardinality(over) + 1
      BY <2>3, FS_AddElement
    <3> QED BY <2>3, <3>1
  <2>6. GoingOn(t)' \subseteq over \cup {i}
    BY <2>2
  <2>7. Cardinality(GoingOn(t)') <= Cardinality(over \cup {i})
    <3> HIDE DEF over
    <3> QED BY <2>5, <2>6, FS_Subset
  <2>8. Cardinality(GoingOn(t)') \in Nat /\ Cardinality(over \cup {i}) \in Nat
    <3> HIDE DEF over
    <3> QED BY <2>5, <2>6, FS_Subset, FS_CardinalityType
  <2> HIDE DEF over
  <2> QED BY <2>3, <2>4, <2>5, <2>7, <2>8
<1> QED BY <1>3, <1>4

LEMMA CapacityNext ==
  ASSUME BookAssumption, ~VoiceUndo, ~SeatsChange, TypeOK, TypeOK', WithinCapacity, [Next]_vars
  PROVE  WithinCapacity'
<1>a. ASSUME NEW i \in Bookings, NEW s \in Time, NEW st \in Status, AddBooking(i, s, st)
      PROVE  WithinCapacity'
  <2>1. PICK u \in SeatGiven(s) :
          bookings' = [bookings EXCEPT ![i] = RowOf(OnSeat(s, u), st, FALSE)]
    BY <1>a DEF AddBooking
  <2>2. /\ RowOf(OnSeat(s, u), st, FALSE).startsAt = s.startsAt
        /\ RowOf(OnSeat(s, u), st, FALSE).durationMin = s.durationMin
    BY DEF RowOf, OnSeat, Time
  <2>3. i \notin Live /\ Fits(active, Busy({}), s) /\ UNCHANGED active
    BY <1>a DEF AddBooking, Live
  <2> QED BY <2>1, <2>2, <2>3, PlacedFits
\* A row rewritten at the same time, live only if it was and flagged as it was, or
\* written flagged, is no further booking going on.
<1>b. ASSUME NEW i \in Bookings, NEW row, bookings' = [bookings EXCEPT ![i] = row],
             UNCHANGED active,
             \/ row.flagged
             \/ /\ i \in Live
                /\ row.startsAt = bookings[i].startsAt
                /\ row.durationMin = bookings[i].durationMin
                /\ row.flagged = bookings[i].flagged
      PROVE  WithinCapacity'
  <2>1. \A j \in Bookings : bookings'[j] = IF j = i THEN row ELSE bookings[j]
    BY <1>b DEF TypeOK
  <2>2. \A t \in Starts : GoingOn(t)' \subseteq GoingOn(t)
    BY <1>b, <2>1 DEF GoingOn, Live
  <2> QED BY <1>b, <2>2, FewerGoOn
<1>c. \A i \in Bookings : bookings[i] \in Row
  BY DEF TypeOK
<1>1. ASSUME NEW i \in Bookings, NEW s \in Time, TakeByHand(i, s)
      PROVE  WithinCapacity'
  BY <1>1, <1>a DEF TakeByHand, Status
<1>2. ASSUME NEW i \in Bookings, NEW s \in Time, TakeFromShop(i, s)
      PROVE  WithinCapacity'
  <2>1. CASE AddBooking(i, s, "pending")
    BY <1>a, <2>1 DEF Status
  <2>2. CASE ForceBooking(i, s)
    <3>1. RowOf(OnSeat(s, NoSeat), "pending", TRUE).flagged
      BY DEF RowOf
    <3> QED BY <1>b, <2>2, <3>1 DEF ForceBooking
  <2> QED BY <1>2, <2>1, <2>2 DEF TakeFromShop
<1>3. ASSUME NEW i \in Bookings, NEW t \in Starts, RescheduleBooking(i, t)
      PROVE  WithinCapacity'
  <2> DEFINE moved == [TimeOf(bookings[i]) EXCEPT !.startsAt = t]
             row   == [bookings[i] EXCEPT !.startsAt = t]
  <2>1. bookings' = [bookings EXCEPT ![i] = row]
    BY <1>3 DEF RescheduleBooking, TypeOK
  <2>2. moved.startsAt = row.startsAt /\ moved.durationMin = row.durationMin
    BY <1>c DEF TimeOf, Row
  <2>3. Fits(active, Busy({i}), moved) /\ UNCHANGED active
    BY <1>3 DEF RescheduleBooking
  <2> HIDE DEF moved, row
  <2> QED BY <2>1, <2>2, <2>3, PlacedFits
<1>4. ASSUME NEW i \in Bookings, NEW u \in Seats \cup {NoSeat}, AssignSeat(i, u)
      PROVE  WithinCapacity'
  <2>1. bookings' = [bookings EXCEPT ![i] = [bookings[i] EXCEPT !.seatId = u]]
    BY <1>4 DEF AssignSeat, TypeOK
  <2>2. i \in Live /\ UNCHANGED active
    BY <1>4 DEF AssignSeat, Live
  <2>3. /\ [bookings[i] EXCEPT !.seatId = u].startsAt = bookings[i].startsAt
        /\ [bookings[i] EXCEPT !.seatId = u].durationMin = bookings[i].durationMin
        /\ [bookings[i] EXCEPT !.seatId = u].flagged = bookings[i].flagged
    BY <1>c DEF Row
  <2> QED BY <1>b, <2>1, <2>2, <2>3
<1>5. ASSUME NEW i \in Bookings, NEW st \in Status, SetBookingStatus(i, st)
      PROVE  WithinCapacity'
  <2>1. bookings' = [bookings EXCEPT ![i] = [bookings[i] EXCEPT !.status = st]]
    BY <1>5 DEF SetBookingStatus, TypeOK
  <2>2. i \in Live /\ UNCHANGED active
    BY <1>5 DEF SetBookingStatus, Live
  <2>3. /\ [bookings[i] EXCEPT !.status = st].startsAt = bookings[i].startsAt
        /\ [bookings[i] EXCEPT !.status = st].durationMin = bookings[i].durationMin
        /\ [bookings[i] EXCEPT !.status = st].flagged = bookings[i].flagged
    BY <1>c DEF Row
  <2> QED BY <1>b, <2>1, <2>2, <2>3
<1>6. CASE Tick \/ UNCHANGED vars
  BY <1>6, FewerGoOn DEF Tick, vars, GoingOn, Live
<1>7. ASSUME NEW i \in Bookings, UndoCancel(i) \/ UndoBook(i)
      PROVE  FALSE
  BY <1>7 DEF UndoCancel, UndoBook
<1>8. ASSUME NEW u \in Seats, ToggleSeat(u) \/ DeleteSeat(u)
      PROVE  FALSE
  BY <1>8 DEF ToggleSeat, DeleteSeat
<1> QED BY <1>1, <1>2, <1>3, <1>4, <1>5, <1>6, <1>7, <1>8 DEF Next

\* While the seats stay as they are and no cancellation is undone by voice, at no
\* instant are more unflagged bookings going on than the business has places, for every
\* choice of bookings, seats, times and working hours.
THEOREM NeverTooMany == ~VoiceUndo /\ ~SeatsChange /\ Spec => []WithinCapacity
<1> SUFFICES ASSUME ~VoiceUndo, ~SeatsChange PROVE Spec => []WithinCapacity
  OBVIOUS
<1>1. Init => WithinCapacity
  <2> SUFFICES ASSUME Init, NEW t \in Starts PROVE Cardinality(GoingOn(t)) <= Places
    BY DEF WithinCapacity
  <2>1. GoingOn(t) = {}
    BY DEF Init, GoingOn, Live, Absent, RowOf
  <2>2. Places \in Nat
    BY BookAssumption, TypeInit, GoingOnFinite
  <2> QED BY <2>1, <2>2, FS_EmptySet
<1>2. TypeOK /\ TypeOK' /\ WithinCapacity /\ [Next]_vars => WithinCapacity'
  BY BookAssumption, CapacityNext
<1> QED BY <1>1, <1>2, BookTypeCorrect, PTL DEF Spec
=============================================================================
