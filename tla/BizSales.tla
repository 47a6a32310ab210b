------------------------------ MODULE BizSales ------------------------------
(***************************************************************************)
(* Sales, stock, customers and the debts of a business (lib/biz/ops.ts).   *)
(*                                                                         *)
(* Every operation is one synchronous update of the book the phone holds,  *)
(* so it is one action.  What can go wrong is what one operation leaves to *)
(* a later one: a sale takes stock, adds to a customer's totals and to a   *)
(* debt and makes the day's row of the book; canceling it, folding it away *)
(* after ArchiveDays or removing the row from the book each undo a part.   *)
(*                                                                         *)
(* An order's lines never change after its creation and prices are frozen  *)
(* in them, so Cart says what each order asks for and Price at what price. *)
(* Unit costs (a moving average of real numbers) are left out.             *)
(***************************************************************************)
EXTENDS Integers, FiniteSets, Functions

CONSTANTS
  Orders,       \* ids of orders
  Products, Ingredients,
  Cart,         \* Cart[o][p]: the quantity of product p in order o
  Price,        \* Price[p] in rial
  DiscountPct, VatPct,
  Phones,       \* numbers of customers
  PhoneOf,      \* PhoneOf[o]: the number given with order o, or None
  RialPerPoint, \* LOYALTY_RIAL_PER_POINT
  Debtors,      \* entries of the credit book
  Accounts,     \* accounts of the book that may be the business's
  Till,         \* the one setupBusiness opens for it
  CardAtFirst,  \* what setupBusiness may choose for card payments, None for the till
  Progress,     \* what an owner sets a sale to: "preparing", "delivered"
  Quantities,   \* of a recipe line, a purchase or a waste
  ArchiveDays,  \* ARCHIVE_DAYS
  LastDay,      \* bound: the days are 0..LastDay
  MaxStock,     \* bound: purchases and counts stop at MaxStock, waste at 0
  MaxMoves,     \* bound: how often the settings move a payment method
  None

Days == 0..LastDay
SOLD == {"confirmed", "preparing", "delivered"}

\* x / n to the nearest integer, halves up: Math.round of a quotient that is not negative.
Rounded(x, n) == (2 * x + n) \div (2 * n)

Subtotal(o) == SumFunction([p \in Products |-> Cart[o][p] * Price[p]])
Discount(o) == Rounded(Subtotal(o) * DiscountPct, 100)
Vat(o) == Rounded((Subtotal(o) - Discount(o)) * VatPct, 100)
Total(o) == Subtotal(o) - Discount(o) + Vat(o)
SumOf(S) == SumFunction([o \in S |-> Total(o)])
Points(o) == Total(o) \div RialPerPoint

ASSUME SalesAssumption ==
  /\ IsFiniteSet(Orders) /\ IsFiniteSet(Products) /\ IsFiniteSet(Ingredients)
  /\ Cart \in [Orders -> [Products -> Nat]] /\ Price \in [Products -> Nat]
  /\ PhoneOf \in [Orders -> Phones \cup {None}]
  /\ {DiscountPct, VatPct} \subseteq 0..100   \* ProductsView.tsx:357, SettingsView.tsx:93
  /\ None \notin Phones \cup Accounts \cup Debtors
  /\ Quantities \subseteq Nat \ {0} /\ RialPerPoint \in Nat \ {0}
  /\ Till \in Accounts /\ CardAtFirst \subseteq Accounts \cup {None} /\ Progress \subseteq SOLD
  /\ {ArchiveDays, LastDay, MaxStock, MaxMoves} \subseteq Nat

VARIABLES
  today,    \* the day it is, as tehranParts(now).date
  order,    \* b.orders; a folded one is no longer there, its record says what it was
  stock, recipe, shelf,  \* stock and recipes per ingredient; the ingredients there are
  club,     \* b.customers: what each number has bought
  credit,   \* b.credit: the debtors there are
  debts,    \* their entries that stand for an order
  rows,     \* rows[d][a]: the amount of the day's sales row in the book, 0 for none
  skipBook, \* days and accounts whose row the user took out of the book
  cash, card, moves,  \* cashAccountId and cardAccountId, and how often they were moved
  archive,  \* one row per day for the orders folded away
  net,      \* history: all that changed the stock except orders
  asOf      \* history: the accounts at the last syncSales of each day

vars == <<today, order, stock, recipe, shelf, club, credit, debts, rows, skipBook,
          cash, card, moves, archive, net, asOf>>
stockVars == <<stock, recipe, shelf, net>>
clubVars == <<club, credit, debts>>
bookVars == <<rows, skipBook, asOf>>
settings == <<cash, card, moves>>

NoUse == [i \in Ingredients |-> 0]
NoOrder == [status |-> "none", day |-> 0, pay |-> None, used |-> NoUse, debtor |-> None]
NoClub == [orders |-> 0, spent |-> 0, points |-> 0]
NoDay == [orders |-> 0, revenue |-> 0, vat |-> 0]

Init ==
  /\ today = 0
  /\ order = [o \in Orders |-> NoOrder]
  /\ stock = NoUse /\ net = NoUse /\ shelf = Ingredients
  /\ recipe \in [Products -> [Ingredients -> Quantities \cup {0}]]
  /\ club = [ph \in Phones |-> NoClub]
  /\ credit = {} /\ debts = {}
  /\ rows = [d \in Days |-> [a \in Accounts |-> 0]]
  /\ skipBook = {}
  /\ cash = Till /\ card \in CardAtFirst /\ moves = 0
  /\ archive = [d \in Days |-> NoDay]
  /\ asOf = [d \in Days |-> [cash |-> cash, card |-> card]]

-----------------------------------------------------------------------------
\* Which account a payment method lands in.
PayAccount(pay, cs, cd) ==
  CASE pay = "cash" -> cs
    [] pay = "card" -> IF cd = None THEN cs ELSE cd
    [] OTHER -> None

\* The sales of day d whose money went to account a.
SalesInto(ord, d, a, cs, cd) ==
  {o \in Orders : /\ ord[o].status \in SOLD /\ ord[o].day = d
                  /\ PayAccount(ord[o].pay, cs, cd) = a}

\* Mutant: the row of a day without sales stays.
DayRowKept(ord, skip, d, a) ==
  LET S == SalesInto(ord, d, a, cash, card)
  IN IF <<d, a>> \in skip \/ S = {} THEN rows[d][a] ELSE SumOf(S)

\* syncSales: one row per account; created, resized or removed.
DayRow(ord, skip, d, a) ==
  LET S == SalesInto(ord, d, a, cash, card)
  IN IF <<d, a>> \in skip \/ S = {} THEN 0
     ELSE IF SumOf(S) > 0 THEN SumOf(S) ELSE rows[d][a]

SyncSales(ord, skip, d) ==
  /\ rows' = [rows EXCEPT ![d] = [a \in Accounts |-> DayRow(ord, skip, d, a)]]
  /\ asOf' = [asOf EXCEPT ![d] = [cash |-> cash, card |-> card]]

\* What the recipes take for an order, of the ingredients there are.
Use(o) ==
  [i \in Ingredients |->
     IF i \in shelf
     THEN SumFunction([p \in Products |-> recipe[p][i] * Cart[o][p]])
     ELSE 0]

AtLeast0(n) == IF n < 0 THEN 0 ELSE n

\* Mutant: canceling leaves the points.
TouchButPoints(o, sign) ==
  LET ph == PhoneOf[o] IN
  club' = IF ph = None THEN club
          ELSE [club EXCEPT ![ph] =
                 [orders |-> AtLeast0(@.orders + sign),
                  spent  |-> AtLeast0(@.spent + sign * Total(o)),
                  points |-> IF sign = 1 THEN @.points + Points(o) ELSE @.points]]

TouchCustomer(o, sign) ==
  LET ph == PhoneOf[o] IN
  club' = IF ph = None THEN club
          ELSE [club EXCEPT ![ph] =
                 [orders |-> AtLeast0(@.orders + sign),
                  spent  |-> AtLeast0(@.spent + sign * Total(o)),
                  points |-> AtLeast0(@.points + sign * Points(o))]]

\* confirmOrder, and what quickSale adds to it: the order ends up with this status.
Sell(o, pay, debtor, status) ==
  LET sold == [order EXCEPT ![o] = [status |-> status, day |-> today, pay |-> pay,
                                    used |-> Use(o), debtor |-> debtor]]
  IN /\ order' = sold
     /\ stock' = [i \in Ingredients |-> stock[i] - Use(o)[i]]
     /\ TouchCustomer(o, 1)
     /\ credit' = credit \cup ({debtor} \ {None})
     /\ debts' = IF pay = "credit" /\ Total(o) > 0
                 THEN debts \cup {[who |-> debtor, order |-> o]} ELSE debts
     /\ SyncSales(sold, skipBook, today)
     /\ UNCHANGED <<today, recipe, shelf, net, skipBook, settings, archive>>

\* Mutant: a sale on credit without a debtor.
AnyDebtor(pay) == IF pay = "credit" THEN Debtors \cup {None} ELSE {None}

\* The debtor of a sale: one of the credit book, or a new one.
Debtor(pay) == IF pay = "credit" THEN Debtors ELSE {None}

CreateOrder(o) ==
  /\ order[o].status = "none" /\ \E p \in Products : Cart[o][p] > 0
  /\ order' = [order EXCEPT ![o].status = "pending", ![o].day = today]
  /\ UNCHANGED <<today, stockVars, clubVars, bookVars, settings, archive>>

ConfirmOrder(o) ==
  /\ order[o].status = "pending"
  /\ \E pay \in {"cash", "card", "credit"} : \E c \in Debtor(pay) : Sell(o, pay, c, "confirmed")

\* The till and the voice: create, confirm, and perhaps deliver.
QuickSale(o) ==
  /\ order[o].status = "none" /\ \E p \in Products : Cart[o][p] > 0
  /\ \E pay \in {"cash", "card", "credit"}, status \in {"confirmed", "delivered"} :
       \E c \in Debtor(pay) : Sell(o, pay, c, status)

SetOrderStatus(o) ==
  /\ order[o].status \in SOLD
  /\ \E status \in Progress \ {order[o].status} :
       order' = [order EXCEPT ![o].status = status]
  /\ UNCHANGED <<today, stockVars, clubVars, bookVars, settings, archive>>

\* Mutants of what a cancellation gives back: by the recipe of today; without the debt.
GivenBackByRecipe(o) == Use(o)
DebtKept(o) == debts

\* What the order took, to the ingredients that are still there; its entry of the credit book.
GivenBack(o) == [i \in Ingredients |-> IF i \in shelf THEN order[o].used[i] ELSE 0]
DebtDropped(o) ==
  IF order[o].pay = "credit" THEN debts \ {[who |-> order[o].debtor, order |-> o]} ELSE debts

\* A pending order is only marked; a sale is undone.  Nothing reads the rest of it again.
CancelOrder(o) ==
  LET canceled == [order EXCEPT ![o] = [NoOrder EXCEPT !.status = "canceled", !.day = order[o].day]]
  IN /\ order' = canceled
     /\ \/ /\ order[o].status = "pending"
           /\ UNCHANGED <<stock, club, debts, rows, asOf>>
        \/ /\ order[o].status \in SOLD
           /\ stock' = [i \in Ingredients |-> stock[i] + GivenBack(o)[i]]
           /\ TouchCustomer(o, -1)
           /\ debts' = DebtDropped(o)
           /\ SyncSales(canceled, skipBook, order[o].day)
     /\ UNCHANGED <<today, recipe, shelf, net, credit, skipBook, settings, archive>>

-----------------------------------------------------------------------------
\* addPurchase, addWaste and the stock count of editIngredient.
Restock(i, n) ==
  /\ i \in shelf
  /\ stock' = [stock EXCEPT ![i] = n]
  /\ net' = [net EXCEPT ![i] = @ + n - stock[i]]
  /\ UNCHANGED <<today, order, recipe, shelf, clubVars, bookVars, settings, archive>>

AddPurchase(i) == \E q \in Quantities : stock[i] + q <= MaxStock /\ Restock(i, stock[i] + q)
AddWaste(i) == \E q \in Quantities : stock[i] >= q /\ Restock(i, stock[i] - q)
CountStock(i) == \E n \in (0..MaxStock) \ {stock[i]} : Restock(i, n)

\* Removing an ingredient takes it out of every recipe; added again it has a new id.
RemoveIngredient(i) ==
  /\ i \in shelf
  /\ shelf' = shelf \ {i}
  /\ recipe' = [p \in Products |-> [recipe[p] EXCEPT ![i] = 0]]
  /\ stock' = [stock EXCEPT ![i] = 0] /\ net' = [net EXCEPT ![i] = 0]
  /\ UNCHANGED <<today, order, clubVars, bookVars, settings, archive>>

SetBomLine(p, i) ==
  /\ i \in shelf
  /\ \E q \in (Quantities \cup {0}) \ {recipe[p][i]} : recipe' = [recipe EXCEPT ![p][i] = q]
  /\ UNCHANGED <<today, order, stock, shelf, net, clubVars, bookVars, settings, archive>>

\* The person and the entries go.
DeleteCreditCustomer(c) ==
  /\ c \in credit
  /\ credit' = credit \ {c}
  /\ debts' = {e \in debts : e.who # c}
  /\ UNCHANGED <<today, order, stockVars, club, bookVars, settings, archive>>

DeleteCreditEntry(e) ==
  /\ e \in debts
  /\ debts' = debts \ {e}
  /\ UNCHANGED <<today, order, stockVars, club, credit, bookVars, settings, archive>>

-----------------------------------------------------------------------------
\* deleteTxn of a day's row: forgetBizTxn remembers that it is to stay out.
DeleteDayRow(d, a) ==
  /\ rows[d][a] > 0
  /\ rows' = [rows EXCEPT ![d][a] = 0]
  /\ skipBook' = skipBook \cup {<<d, a>>}
  /\ UNCHANGED <<today, order, stockVars, clubVars, asOf, settings, archive>>

\* The button is there for the days of skipBook.
RebookDay(d) ==
  /\ \E a \in Accounts : <<d, a>> \in skipBook
  /\ skipBook' = {k \in skipBook : k[1] # d}
  /\ SyncSales(order, skipBook', d)
  /\ UNCHANGED <<today, order, stockVars, clubVars, settings, archive>>

\* The settings page moves a payment method to another account; the rows stay.
SetAccount ==
  /\ cash' \in Accounts /\ card' \in Accounts \cup {None}
  /\ (cash' # cash) # (card' # card)
  /\ moves < MaxMoves /\ moves' = moves + 1
  /\ UNCHANGED <<today, order, stockVars, clubVars, bookVars, archive>>

\* What compactBiz folds away: orders that are no longer pending, by the day of their sale.
Old == {o \in Orders : /\ order[o].status \in SOLD \cup {"canceled"}
                       /\ order[o].day < today - ArchiveDays}

\* Mutant: canceled orders are folded in.
FoldedAll(d) == {o \in Old : order[o].day = d}

Folded(d) == {o \in Old : order[o].status \in SOLD /\ order[o].day = d}

CompactBiz ==
  /\ Old # {}
  /\ archive' = [d \in Days |->
       [orders  |-> archive[d].orders + Cardinality(Folded(d)),
        revenue |-> archive[d].revenue
                      + SumFunction([o \in Folded(d) |-> Total(o) - Vat(o)]),
        vat     |-> archive[d].vat + SumFunction([o \in Folded(d) |-> Vat(o)])]]
  /\ order' = [o \in Orders |->
       IF o \notin Old THEN order[o]
       ELSE IF order[o].status = "canceled" THEN [NoOrder EXCEPT !.status = "dropped"]
       ELSE [order[o] EXCEPT !.status = "folded"]]
  /\ UNCHANGED <<today, stockVars, clubVars, bookVars, settings>>

NextDay ==
  /\ today < LastDay /\ today' = today + 1
  /\ UNCHANGED <<order, stockVars, clubVars, bookVars, settings, archive>>

Next ==
  \/ \E o \in Orders : CreateOrder(o) \/ ConfirmOrder(o) \/ QuickSale(o)
                         \/ SetOrderStatus(o) \/ CancelOrder(o)
  \/ \E i \in Ingredients : \/ AddPurchase(i) \/ AddWaste(i) \/ CountStock(i)
                            \/ RemoveIngredient(i)
                            \/ \E p \in Products : SetBomLine(p, i)
  \/ \E c \in Debtors : DeleteCreditCustomer(c)
  \/ \E e \in debts : DeleteCreditEntry(e)
  \/ \E d \in Days : RebookDay(d) \/ \E a \in Accounts : DeleteDayRow(d, a)
  \/ SetAccount \/ CompactBiz \/ NextDay

Spec == Init /\ [][Next]_vars

-----------------------------------------------------------------------------
Statuses == {"none", "pending", "canceled", "folded", "dropped"} \cup SOLD

\* Type invariant: what the book of the business holds.
TypeOK ==
  /\ today \in Days
  /\ order \in [Orders -> [status : Statuses, day : Days, used : [Ingredients -> Nat],
                           pay : {"cash", "card", "credit", None}, debtor : Debtors \cup {None}]]
  /\ stock \in [Ingredients -> Int] /\ net \in [Ingredients -> Int]
  /\ shelf \subseteq Ingredients
  /\ recipe \in [Products -> [Ingredients -> Quantities \cup {0}]]
  /\ club \in [Phones -> [orders : Nat, spent : Nat, points : Nat]]
  /\ credit \subseteq Debtors /\ debts \subseteq [who : Debtors, order : Orders]
  /\ rows \in [Days -> [Accounts -> Nat]] /\ skipBook \subseteq Days \X Accounts
  /\ cash \in Accounts /\ card \in Accounts \cup {None} /\ moves \in 0..MaxMoves
  /\ archive \in [Days -> [orders : Nat, revenue : Int, vat : Int]]
  /\ asOf \in [Days -> [cash : Accounts, card : Accounts \cup {None}]]

WasSold(o) == order[o].status \in SOLD \cup {"folded"}
HasFolded(d) == \E o \in Orders : order[o].status = "folded" /\ order[o].day = d

\* Every day's money is in the book: the row of each account is the sum of the sales paid into
\* it, as the accounts stood when the day was last booked, and nothing else is in it, whatever
\* was confirmed, canceled, taken out and booked again in between.
DayIsBooked ==
  \A d \in Days, a \in Accounts :
    ~HasFolded(d) =>
      rows[d][a] = IF <<d, a>> \in skipBook THEN 0
                   ELSE SumOf(SalesInto(order, d, a, asOf[d].cash, asOf[d].card))

\* "Cancel: a sale is undone exactly": the stock is what purchases, waste and counts make it,
\* less what the sales that stand have used, even when the recipe changed in between.
StockIsSales ==
  \A i \in shelf :
    LET S == {o \in Orders : WasSold(o)}
    IN stock[i] = net[i] - SumFunction([o \in S |-> order[o].used[i]])

\* A customer's orders, spending and points are those of the sales that stand.
ClubIsSales ==
  \A ph \in Phones :
    LET S == {o \in Orders : WasSold(o) /\ PhoneOf[o] = ph}
    IN club[ph] = [orders |-> Cardinality(S), spent |-> SumOf(S),
                   points |-> SumFunction([o \in S |-> Points(o)])]

\* Nobody owes for an order that was not sold on credit, or was canceled.
NoDebtWithoutSale ==
  \A e \in debts : /\ WasSold(e.order) /\ order[e.order].pay = "credit"
                   /\ order[e.order].debtor = e.who /\ e.who \in credit

\* Folding old orders changes no report: a day's revenue, VAT and number of sales are those of
\* all its sales, folded or not, each counted once.
ReportsStand ==
  \A d \in Days :
    LET S == {o \in Orders : order[o].status = "folded" /\ order[o].day = d}
    IN archive[d] = [orders |-> Cardinality(S), vat |-> SumFunction([o \in S |-> Vat(o)]),
                     revenue |-> SumFunction([o \in S |-> Total(o) - Vat(o)])]

\* Booking a day again takes no row of it out of the book.
RebookOnlyAdds ==
  [][\A d \in Days : RebookDay(d) =>
       \A a \in Accounts : rows[d][a] > 0 /\ cash = asOf[d].cash /\ card = asOf[d].card
                             => rows'[d][a] > 0]_vars
=============================================================================
