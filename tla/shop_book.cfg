SPECIFICATION Spec
CONSTANTS
  NoSeat = NoSeat
  None = None
  b1 = b1
  b2 = b2
  b3 = b3
  o1 = o1
  w1 = w1
  u1 = u1
  u2 = u2
  Requests = {b1, b2, b3}
  Bookings = {b1, b2, b3}
  Malformed = {}
  Walkins = {}
  Slot <- TwoChairs
  Seats = {u1, u2}
  Tokens = {t1}
  Calls = {c1}
  Ops = {"publish", "pull"}
  Statuses = {"pending"}
  MaxInbox = 3
  LockTries = 1
  StoreFails = FALSE
  Repeats = {}
  HandlersStall = FALSE
  Expiring = {}
SYMMETRY SameWish
INVARIANTS WaitingFits AcceptedIsKept
