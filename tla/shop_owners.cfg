SPECIFICATION FairSpec
CONSTANTS
  NoSeat = NoSeat
  None = None
  b1 = b1
  b2 = b2
  b3 = b3
  o1 = o1
  w1 = w1
  u1 = u1
  u2 = u2
  Requests = {o1, b2}
  Bookings = {b2}
  Malformed = {b2}
  Walkins = {}
  Slot <- OneChair
  Seats = {}
  Tokens = {t1, t2}
  Calls = {c1, c2}
  Ops = {"publish", "pull", "status"}
  Statuses = {"pending", "done"}
  MaxInbox = 2
  LockTries = 1
  StoreFails = FALSE
  Repeats = {"lock", "unlockRefused", "unlockFailed", "claim", "renew", "setRef"}
  HandlersStall = FALSE
  Expiring = {}
INVARIANTS PageIsOwners
PROPERTIES OwnerKept StatusStands LockFreed
