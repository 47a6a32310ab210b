SPECIFICATION CollectingSpec
CONSTANTS
  NoSeat = NoSeat
  b1 = b1
  b2 = b2
  o1 = o1
  w1 = w1
  p1 = p1
  p2 = p2
  Requests = {b1, b2}
  Bookings = {b1, b2}
  Deleted = {}
  Walkins = {w1}
  Slot <- Morning
  MaxInbox = 1
  SeenMax = 2
  Racers = 1
  Pullers = {p1, p2}
  Buttons = {p2}
  MaxPosts = 1
  NetworkFails = TRUE
  StorageFails = FALSE
INVARIANTS AppliedOnce NothingLost OverlapIsFlagged
PROPERTIES Delivered
