SPECIFICATION Spec
CONSTANTS
  NoSeat = NoSeat
  None = None
  b1 = b1
  b2 = b2
  b3 = b3
  o1 = o1
  w1 = w1
  u1 = u1
  u2 = u2
  Requests = {b1, b2}
  Bookings = {b1, b2}
  Malformed = {}
  Walkins = {}
  Slot <- OneChair
  Seats = {}
  Tokens = {t1}
  Calls = {c1}
  Ops = {"publish", "unpublish", "pull", "directory"}
  Statuses = {"pending"}
  MaxInbox = 2
  LockTries = 1
  StoreFails = TRUE
  Repeats = {"lock", "item", "push", "ref", "claim", "renew", "setPub", "sadd",
             "delItems", "clear", "lrem", "delItem", "srem"}
  HandlersStall = FALSE
  Expiring = {"catalog", "item"}
SYMMETRY SameHour
INVARIANTS WaitingApart
PROPERTIES TakesInTurn
