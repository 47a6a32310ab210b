SPECIFICATION Spec
CONSTANTS
  NoSeat = NoSeat
  u1 = u1
  u2 = u2
  Bookings = {b1, b2, b3}
  Seats = {u1, u2}
  Starts = {0, 30}
  Durations = {30, 60}
  Shifts <- NoShifts
  Hours <- AllMorning
  Step = 30
  Cutoff = 30
  LastMinute = 90
  VoiceUndo = FALSE
  SeatsChange = FALSE
CHECK_DEADLOCK FALSE
SYMMETRY SeatSymmetry
INVARIANTS SeatDisjoint WithinCapacity
