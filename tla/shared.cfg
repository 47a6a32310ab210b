SPECIFICATION Spec
CONSTANTS
  Texts = 1
  TextRial = 40
  Expenses = {e1, e2}
  Totals = {40}
  Parts = {0, 10}
  Months = 3
  Loans = {1}
  ShareRial = 20
  LoanRial = 30
  Installments = 2
  MaxRows = 4
INVARIANTS RowsAreNamed AccountIsNet BankIsKept FundIsPosition RepaidIsOwed
SYMMETRY AnyExpense
CHECK_DEADLOCK FALSE
