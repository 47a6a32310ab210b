---------------------------- MODULE Obligations ----------------------------
(* What the user owes and expects (finance/actions.ts, lending.ts, calc.ts):  *)
(* a loan in installments, a monthly bill, an expected income, a cheque and   *)
(* a loan with a person, settled from the list of due dates and re-opened by  *)
(* deleting the row in the list of transactions.  One of each; dates are      *)
(* months, and a stopped bill or income is one nobody settles.                *)
EXTENDS Integers, FiniteSetsExt

CONSTANTS Months,       \* months 1..Months
          Ahead,        \* months the list of due dates looks ahead
          Terms,        \* numbers of installments the loan may have
          Amounts,      \* of loans with the person and of repayments
          MaxTxns       \* rows ever made

ASSUME ObligationsAssumption ==
  /\ {Months, Ahead, MaxTxns} \subseteq Nat /\ Months > 0
  /\ Terms \subseteq Nat \ {0} /\ Amounts \subseteq Nat \ {0}

VARIABLES month,        \* today's
          loan,         \* the loan: installments paid, of how many
          bill,         \* paidMonths
          income,       \* repeat and receivedMonths
          cheque,       \* its status
          dueOn,        \* the person's date, 0 for none
          txns, made    \* txns: id -> row; the last id given

others == <<bill, income, cheque>>
duesVars == <<month, loan, others, dueOn, txns, made>>

Once == 0               \* the key of an income that comes once
NoLoan == [there |-> FALSE, paid |-> 0, term |-> 0]
Statuses == {"pending", "cleared", "bounced"}
Calendar == 1..Months

DuesInit ==
  /\ month = 1
  /\ loan \in {[there |-> TRUE, paid |-> p, term |-> t] : p \in 0..1, t \in Terms}
  /\ bill \in {{}, {1}}
  /\ income = [repeat |-> "monthly", received |-> {}, switched |-> FALSE]
  /\ cheque = "pending" /\ dueOn = 0
  /\ txns = <<>> /\ made = 0

\* A row and what settled: an installment, a month, or money of the person (+
\* they owe more).  The row of a bill keeps no month but its date.
Txn(of, n, rial) == [of |-> of, n |-> n, date |-> month, rial |-> rial, due |-> 0]
PushTxn(row) ==
  /\ made < MaxTxns /\ made' = made + 1
  /\ txns' = [i \in DOMAIN txns \cup {made + 1} |-> IF i = made + 1 THEN row ELSE txns[i]]
Horizon == month + Ahead

---------------------------------------------------------------------------
(* Installments *)

NextInstallment(n) == n = loan.paid + 1
\* the list has the open installments up to its horizon, from a first date the
\* user may change
SettleLoan(n) ==
  /\ loan.there /\ n \in loan.paid + 1 .. loan.term
  /\ NextInstallment(n)
  /\ loan' = [loan EXCEPT !.paid = @ + 1] /\ PushTxn(Txn("loan", n, 0))
  /\ UNCHANGED <<month, others, dueOn>>

LoanRows == {i \in DOMAIN txns : txns[i].of = "loan"}
KeepsBooked(paid) == \A i \in LoanRows : txns[i].n <= paid

EditLoan(paid, term) ==
  /\ loan.there /\ paid <= term /\ KeepsBooked(paid)
  /\ loan' = [loan EXCEPT !.paid = paid, !.term = term]
  /\ UNCHANGED <<month, others, dueOn, txns, made>>

DeleteLoan ==
  /\ loan.there /\ loan' = NoLoan
  /\ UNCHANGED <<month, others, dueOn, txns, made>>

---------------------------------------------------------------------------
(* Bills, incomes and the cheque *)

SettleBill(mk) ==
  /\ mk \in month..Horizon \ bill
  /\ bill' = bill \cup {mk} /\ PushTxn(Txn("bill", mk, 0))
  /\ UNCHANGED <<month, loan, income, cheque, dueOn>>

\* a late income stays in the list from its first month on
IncomeDue ==
  IF income.repeat = "once" THEN {Once} \ income.received ELSE 1..Horizon \ income.received
SettleIncome(mk) ==
  /\ mk \in IncomeDue
  /\ income' = [income EXCEPT !.received = @ \cup {mk}] /\ PushTxn(Txn("income", mk, 0))
  /\ UNCHANGED <<month, loan, bill, cheque, dueOn>>

\* the form forgets what was received when the repetition changes
SwitchRepeat ==
  /\ income' = [repeat |-> IF income.repeat = "once" THEN "monthly" ELSE "once",
                received |-> {}, switched |-> TRUE]
  /\ UNCHANGED <<month, loan, bill, cheque, dueOn, txns, made>>

SettleCheque ==
  /\ cheque = "pending" /\ cheque' = "cleared" /\ PushTxn(Txn("cheque", 0, 0))
  /\ UNCHANGED <<month, loan, bill, income, dueOn>>
SetCheque(status) ==
  /\ cheque' = status
  /\ UNCHANGED <<month, loan, bill, income, dueOn, txns, made>>

---------------------------------------------------------------------------
(* The person *)

LendRows == {i \in DOMAIN txns : txns[i].of = "lend"}
Position == MapThenSumSet(LAMBDA i : txns[i].rial, LendRows)

\* settledClearsDue: a position back at zero moves the date to the row
Closing(row, due) ==
  IF due # 0 /\ Position + row.rial = 0
  THEN PushTxn([row EXCEPT !.due = due]) /\ dueOn' = 0
  ELSE PushTxn(row) /\ dueOn' = due

\* bookLend: a loan given or taken, or a repayment, told or typed; a loan
\* without a date keeps the date there is
BookLend(rial, due) ==
  /\ due = 0 \/ due > month
  /\ Closing(Txn("lend", 0, rial), IF due = 0 THEN dueOn ELSE due)
  /\ UNCHANGED <<month, loan, others>>

\* from the list of due dates: against the position
SettleLend(rial) ==
  /\ dueOn \in 1..Horizon /\ Position # 0
  /\ Closing(Txn("lend", 0, IF Position > 0 THEN -rial ELSE rial), dueOn)
  /\ UNCHANGED <<month, loan, others>>

SetPersonDue(due) ==
  /\ Position # 0 /\ dueOn' = due
  /\ UNCHANGED <<month, loan, others, txns, made>>

---------------------------------------------------------------------------
(* The list of transactions *)

AlwaysReopened(n) == loan.there
LastPaid(n) == loan.there /\ n = loan.paid

DeleteTxn(i) ==
  LET t == txns[i] IN
  /\ txns' = [j \in DOMAIN txns \ {i} |-> txns[j]]
  /\ loan' = IF t.of = "loan" /\ LastPaid(t.n) THEN [loan EXCEPT !.paid = @ - 1] ELSE loan
  /\ cheque' = IF t.of = "cheque" THEN "pending" ELSE cheque
  /\ income' = IF t.of = "income" THEN [income EXCEPT !.received = @ \ {t.n}] ELSE income
  /\ bill' = IF t.of = "bill" THEN bill \ {t.date} ELSE bill
  /\ dueOn' = IF t.of = "lend" /\ t.due # 0 /\ dueOn = 0 THEN t.due ELSE dueOn
  /\ UNCHANGED <<month, made>>

Tick == month < Months /\ month' = month + 1 /\ UNCHANGED <<loan, others, dueOn, txns, made>>

DuesNext ==
  \/ \E n \in 1..loan.term : SettleLoan(n)
  \/ \E term \in Terms : \E paid \in 0..term : EditLoan(paid, term)
  \/ DeleteLoan
  \/ \E mk \in 0..Horizon : SettleBill(mk) \/ SettleIncome(mk)
  \/ SwitchRepeat \/ SettleCheque
  \/ \E status \in Statuses : SetCheque(status)
  \/ \E rial \in Amounts, due \in 0..Months : BookLend(rial, due) \/ BookLend(-rial, due)
  \/ \E rial \in Amounts : SettleLend(rial)
  \/ \E due \in 0..Months : SetPersonDue(due)
  \/ \E i \in DOMAIN txns : DeleteTxn(i)
  \/ Tick

DuesSpec == DuesInit /\ [][DuesNext]_duesVars

---------------------------------------------------------------------------
DuesTypeOK ==
  /\ month \in Calendar
  /\ loan \in [there : BOOLEAN, paid : Nat, term : Nat]
  /\ bill \subseteq Nat /\ dueOn \in Nat /\ cheque \in Statuses
  /\ income \in [repeat : {"monthly", "once"}, received : SUBSET Nat, switched : BOOLEAN]
  /\ made \in 0..MaxTxns /\ DOMAIN txns \subseteq 1..made
  /\ \A i \in DOMAIN txns :
       txns[i] \in [of : {"loan", "bill", "income", "cheque", "lend"},
                    n : Nat, date : Calendar, rial : Int, due : Nat]

\* Nothing is booked twice: no two rows pay one installment, no row pays one
\* beyond what the loan says is paid, and it never says more than it has; an
\* expected income has one row a month, and its month is not asked for again.
\* Rows may be deleted in any order and the loan edited in between
\* (actions.ts:13-16, 86, 144).
SettledOnce ==
  /\ loan.there => /\ loan.paid <= loan.term
                   /\ \A i \in LoanRows : txns[i].n <= loan.paid
                   /\ \A i, j \in LoanRows : txns[i].n = txns[j].n => i = j
  /\ LET received == {i \in DOMAIN txns : txns[i].of = "income"} IN
     ~income.switched => /\ \A i \in received : txns[i].n \in income.received
                         /\ \A i, j \in received : txns[i].n = txns[j].n => i = j

\* What actions.ts:70-72 and the test at finance-test.ts:197 say of a bill:
\* deleting the row re-opens the month it paid, and no other.
BillReopens ==
  [][ \A i \in DOMAIN txns \ DOMAIN txns' :
        txns[i].of = "bill" => bill' = bill \ {txns[i].n} ]_duesVars

\* What actions.ts:70-71 and reminders-test.ts:77 say of a loan with a person:
\* when rows are deleted until it is open again, its date is there again.
OpenHasDate ==
  \A i \in LendRows :
    (\A j \in LendRows : j <= i) /\ txns[i].due # 0 /\ Position # 0 => dueOn # 0

\* What lending.ts:92 says of a position back at zero: its date is done with,
\* so a loan told without a date has none.
DateIsDone == Position = 0 => dueOn = 0
=============================================================================
