SPECIFICATION DuesSpec
CONSTANTS
  Months = 2
  Ahead = 1
  Terms = {2}
  Amounts = {1}
  MaxTxns = 3
INVARIANT SettledOnce
CHECK_DEADLOCK FALSE
