SPECIFICATION FairSpec
CONSTANTS
  Count = 3
  Bank = {1, 2}
  Asking = {1}
  Linked = {1}
  Polls = {r1, r2}
  Pages = {r2}
  Windows <- WindowSet
  FirstByHand = FALSE
  Limit = 2
  MaxCloses = 1
  r1 = r1  r2 = r2
INVARIANTS MoneyOnce AskedIsKept
PROPERTIES MarkLeavesNoGap LoanTakesSms Arrives
CHECK_DEADLOCK FALSE
