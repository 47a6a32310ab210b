SPECIFICATION Spec
CONSTANTS
  None = None
  o1 = o1
  o2 = o2
  p1 = p1
  p2 = p2
  g1 = g1
  ph1 = ph1
  Orders = {o1, o2}
  Products = {p1}
  Ingredients = {g1}
  Cart <- TwoOrders
  Price <- Paid
  DiscountPct = 10
  VatPct = 10
  Phones = {ph1}
  PhoneOf <- SamePhone
  RialPerPoint = 10
  Debtors = {n1}
  Accounts = {till, bank}
  Till = till
  CardAtFirst = {bank}
  Progress = {"delivered"}
  MaxMoves = 1
  Quantities = {1}
  ArchiveDays = 0
  LastDay = 1
  MaxStock = 1
CHECK_DEADLOCK FALSE
INVARIANTS DayIsBooked StockIsSales ClubIsSales NoDebtWithoutSale ReportsStand
