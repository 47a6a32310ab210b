SPECIFICATION FairSpec
CONSTANTS
  Handlers = {h1, h2}
  Sessions = 2
  Length = 2
  Blocks = 2
  LockLost = FALSE
  MaxKills = 1
  h1 = h1  h2 = h2
INVARIANTS ArchivedOnce TaughtOnce
PROPERTIES RunningKept Archived
