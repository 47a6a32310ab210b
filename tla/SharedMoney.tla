---------------------------- MODULE SharedMoney ----------------------------
(* Money the user shares: a group that splits its expenses (finance/split.ts) *)
(* and a family fund that lends in turn (finance/fund.ts).  Both keep records *)
(* of their own and move the user's money through an account of the personal  *)
(* book, and each can be undone from its own screen or by deleting rows in    *)
(* the list of transactions (finance/actions.ts).  The group and the fund     *)
(* have the user and one other member; names, dates and categories are left   *)
(* out, and an account of the user's is always chosen.                        *)
EXTENDS Integers, Sequences, FiniteSets, Functions

CONSTANTS Texts,        \* number of bank messages booked as expenses before
          TextRial,     \* what each of them took from the bank
          Expenses,     \* names for the group's expenses
          Totals,       \* amounts of an expense
          Parts,        \* the user's part of it
          Months,       \* months 1..Months of the fund
          Loans,        \* names for the fund's loans
          ShareRial, LoanRial, Installments,
          MaxRows       \* rows ever made

ASSUME SharedAssumption ==
  /\ {Texts, Months} \subseteq Nat /\ Installments \in Nat \ {0}
  /\ Totals \subseteq Nat \ {0} /\ Parts \subseteq Nat
  /\ {TextRial, ShareRial, LoanRial} \subseteq Nat \ {0}
  /\ 0 \notin Loans

VARIABLES rows,         \* txns: id -> row
          made,         \* the last id given
          expenses,     \* the group's expenses
          settled,      \* the group's settlement
          payments, loans,   \* of the fund
          removed       \* kinds of rows deleted from the list so far

group == <<expenses, settled>>
fund == <<payments, loans>>
vars == <<rows, made, group, fund, removed>>

Members == {"me", "other"}
Expense(rial, from, of) == [kind |-> "expense", rial |-> rial, from |-> from, to |-> "none", of |-> of]
Transfer(rial, from, to, of) == [kind |-> "transfer", rial |-> rial, from |-> from, to |-> to, of |-> of]
Unsettled == [out |-> FALSE, rial |-> 0, txn |-> 0]
NoLink == [id |-> 0, before |-> Expense(0, "bank", "none")]

Init ==
  /\ rows = [i \in 1..Texts |-> Expense(TextRial, "bank", "none")] /\ made = Texts
  /\ expenses = <<>> /\ settled = Unsettled
  /\ payments = {} /\ loans = <<>>
  /\ removed = {}

Drop(f, S) == [i \in DOMAIN f \ S |-> f[i]]
Put(f, x, v) == [y \in DOMAIN f \cup {x} |-> IF y = x THEN v ELSE f[y]]
NewIds(new) == made + 1 .. made + Len(new)
\* the given rows pushed behind the book
Pushed(book, new) ==
  [i \in DOMAIN book \cup NewIds(new) |-> IF i \in DOMAIN book THEN book[i] ELSE new[i - made]]
Room(new) == made + Len(new) <= MaxRows
If(c, s) == IF c THEN s ELSE <<>>

---------------------------------------------------------------------------
(* The group *)

LinkCandidates(total) ==
  {i \in DOMAIN rows : rows[i].kind = "expense" /\ rows[i].rial = total /\ rows[i].of # "split"}

\* the bank's row becomes the user's part, or all of it money the others owe
Linked(t, part) ==
  IF part > 0 THEN [t EXCEPT !.rial = part] ELSE [t EXCEPT !.kind = "transfer", !.to = "group"]

RestAlways(total, part, link) ==
  If(total > part, <<Transfer(total - part, "bank", "group", "split")>>)
Rest(total, part, link) ==
  If(total > part /\ ~(link # 0 /\ part = 0), <<Transfer(total - part, "bank", "group", "split")>>)

Booked(total, part, mine, link) ==
  IF mine THEN If(part > 0 /\ link = 0, <<Expense(part, "bank", "split")>>) \o Rest(total, part, link)
  ELSE If(part > 0, <<Expense(part, "group", "split")>>)

AddExpense(e, total, part, mine, link) ==
  LET new == Booked(total, part, mine, link) IN
  /\ e \notin DOMAIN expenses /\ part <= total
  /\ link = 0 \/ (mine /\ link \in LinkCandidates(total))
  /\ Room(new) /\ made' = made + Len(new)
  /\ rows' = Pushed(IF link = 0 THEN rows ELSE [rows EXCEPT ![link] = Linked(@, part)], new)
  /\ expenses' = Put(expenses, e,
       [total |-> total, part |-> part, mine |-> mine, ids |-> NewIds(new),
        linked |-> IF link = 0 THEN NoLink ELSE [id |-> link, before |-> rows[link]]])
  /\ UNCHANGED <<settled, fund, removed>>

NotRestored(book, linked) == book
Restored(book, linked) ==
  IF linked.id \in DOMAIN book THEN [book EXCEPT ![linked.id] = linked.before] ELSE book

DeleteExpense(e) ==
  /\ e \in DOMAIN expenses
  /\ rows' = Restored(Drop(rows, expenses[e].ids), expenses[e].linked)
  /\ expenses' = Drop(expenses, {e})
  /\ UNCHANGED <<made, settled, fund, removed>>

\* what the others owe the user
Owed(x) == (IF x.mine THEN x.total ELSE 0) - x.part
PaidOut(s) == IF s.out THEN s.rial ELSE -s.rial
NetOf == SumFunction([e \in DOMAIN expenses |-> Owed(expenses[e])]) + PaidOut(settled)

\* settleUp: with two members, one of them pays the other all that is owed
Settle ==
  LET out == NetOf < 0
      rial == IF out THEN -NetOf ELSE NetOf
      new == <<Transfer(rial, IF out THEN "bank" ELSE "group", IF out THEN "group" ELSE "bank", "split")>>
  IN /\ settled = Unsettled /\ rial > 0 /\ Room(new)
     /\ rows' = Pushed(rows, new) /\ made' = made + 1
     /\ settled' = [out |-> out, rial |-> rial, txn |-> made + 1]
     /\ UNCHANGED <<expenses, fund, removed>>

UndoSettlement ==
  /\ settled # Unsettled /\ settled' = Unsettled
  /\ rows' = Drop(rows, {settled.txn})
  /\ UNCHANGED <<made, expenses, fund, removed>>

---------------------------------------------------------------------------
(* The fund.  A payment for no loan is a share. *)

\* whole tomans, the last installment takes the rest
InstallmentRial(n) ==
  LET base == 10 * (LoanRial \div (10 * Installments)) IN
  IF n < Installments THEN base ELSE LoanRial - base * (Installments - 1)
\* installments start the month after the loan
InstallmentNo(l, mk) == IF mk - loans[l].month \in 1..Installments THEN mk - loans[l].month ELSE 0

PaymentsOf(m, mk, l) == {p \in payments : p.member = m /\ p.month = mk /\ p.loan = l}
Paid(S) == SumFunction([p \in S |-> p.rial])
FundCash == Paid(payments) - Cardinality(DOMAIN loans) * LoanRial

Move(m, row) == If(m = "me", <<row>>)
TxnId(new) == IF new = <<>> THEN 0 ELSE made + 1

Pay(m, mk, l) ==
  LET rial == IF l = 0 THEN ShareRial ELSE InstallmentRial(InstallmentNo(l, mk))
      new == Move(m, Transfer(rial, "bank", "fund", "fund"))
  IN /\ l = 0 \/ (l \in DOMAIN loans /\ loans[l].member = m /\ InstallmentNo(l, mk) # 0)
     /\ PaymentsOf(m, mk, l) = {} /\ Room(new)
     /\ rows' = Pushed(rows, new) /\ made' = made + Len(new)
     /\ payments' = payments \cup {[member |-> m, month |-> mk, loan |-> l, rial |-> rial, txn |-> TxnId(new)]}
     /\ UNCHANGED <<group, loans, removed>>

GiveLoan(l, m, mk) ==
  LET new == Move(m, Transfer(LoanRial, "fund", "bank", "fund")) IN
  /\ l \notin DOMAIN loans /\ FundCash >= LoanRial /\ Room(new)
  /\ rows' = Pushed(rows, new) /\ made' = made + Len(new)
  /\ loans' = Put(loans, l, [member |-> m, month |-> mk, txn |-> TxnId(new)])
  /\ UNCHANGED <<group, payments, removed>>

UndoPayment(p) ==
  /\ p \in payments /\ payments' = payments \ {p}
  /\ rows' = Drop(rows, {p.txn})
  /\ UNCHANGED <<made, group, loans, removed>>

AnyLoan(l) == l \in DOMAIN loans
MayUndoLoan(l) == l \in DOMAIN loans /\ \A p \in payments : p.loan # l
UndoLoan(l) ==
  /\ MayUndoLoan(l)
  /\ loans' = Drop(loans, {l}) /\ rows' = Drop(rows, {loans[l].txn})
  /\ UNCHANGED <<made, group, payments, removed>>

---------------------------------------------------------------------------
(* The list of transactions *)

AnyExpenses(i) == expenses
ForgetSplitTxn(i) == [e \in DOMAIN expenses |-> [expenses[e] EXCEPT !.ids = @ \ {i}]]
EveryPayment(i) == payments
ForgetFundTxn(i) == {p \in payments : p.txn # i}

\* whose row it is: the bank's, the group's, a payment's or a loan's
KindOf(i) ==
  CASE rows[i].of = "none" -> "bank"
    [] rows[i].of = "split" -> "split"
    [] OTHER -> IF rows[i].from = "bank" THEN "payment" ELSE "loan"

DeleteTxn(i) ==
  /\ i \in DOMAIN rows /\ rows' = Drop(rows, {i}) /\ removed' = removed \cup {KindOf(i)}
  /\ \/ /\ rows[i].of = "none" /\ UNCHANGED <<group, fund>>
     \/ /\ rows[i].of = "split" /\ expenses' = ForgetSplitTxn(i)
        /\ settled' = [settled EXCEPT !.txn = IF @ = i THEN 0 ELSE @]
        /\ UNCHANGED fund
     \/ /\ rows[i].of = "fund" /\ payments' = ForgetFundTxn(i)
        /\ loans' = [l \in DOMAIN loans |-> [loans[l] EXCEPT !.txn = IF @ = i THEN 0 ELSE @]]
        /\ UNCHANGED group
  /\ UNCHANGED made

Next ==
  \/ \E e \in Expenses, total \in Totals, part \in Parts, mine \in BOOLEAN, link \in {0} \cup DOMAIN rows :
       AddExpense(e, total, part, mine, link)
  \/ \E e \in Expenses : DeleteExpense(e)
  \/ Settle \/ UndoSettlement
  \/ \E m \in Members, mk \in 1..Months :
       (\E l \in {0} \cup Loans : Pay(m, mk, l)) \/ (\E l \in Loans : GiveLoan(l, m, mk))
  \/ \E p \in payments : UndoPayment(p)
  \/ \E l \in Loans : UndoLoan(l)
  \/ \E i \in DOMAIN rows : DeleteTxn(i)

Spec == Init /\ [][Next]_vars

---------------------------------------------------------------------------
Effect(row, a) == (IF row.to = a THEN row.rial ELSE 0) - (IF row.from = a THEN row.rial ELSE 0)
Balance(a) == SumFunction([i \in DOMAIN rows |-> Effect(rows[i], a)])
Mine(S) == {p \in S : p.member = "me"}
MyLoans == {l \in DOMAIN loans : loans[l].member = "me"}
\* what an expense took from the bank without a message of its own
ByHand(x) == IF x.mine /\ x.linked.id = 0 THEN x.total ELSE 0

\* A record names only rows that are in the book, and every row made for the
\* group or the fund is named by exactly one record, of the kind it was made
\* for, whichever screen removed what: no money stays in the book that no
\* screen can take back (split.ts, fund.ts: undo, delete and forget).
RowsAreNamed ==
  LET Made(of, from) == {i \in DOMAIN rows : rows[i].of = of /\ rows[i].from \in from}
      ByExpenses == UNION {expenses[e].ids : e \in DOMAIN expenses}
  IN /\ ByExpenses \cup ({settled.txn} \ {0}) = Made("split", {"bank", "group"})
     /\ {p.txn : p \in payments} \ {0} = Made("fund", {"bank"})
     /\ {loans[l].txn : l \in DOMAIN loans} \ {0} = Made("fund", {"fund"})
     /\ settled.txn \notin ByExpenses
     /\ \A e, f \in DOMAIN expenses : e # f => expenses[e].ids \cap expenses[f].ids = {}
     /\ \A p, q \in payments : p # q /\ p.txn = q.txn => p.txn = 0
     /\ \A k, l \in DOMAIN loans : k # l /\ loans[k].txn = loans[l].txn => loans[k].txn = 0

\* The balance of the group's account is the user's net in the group, unless
\* rows of it were deleted from the list, where the group's record stays
\* (split.ts:6-7, and what netOf shows).
AccountIsNet == removed \cap {"split", "bank"} = {} => Balance("group") = NetOf

\* The bank account shows what the bank saw: its messages and what was paid by
\* hand, in full, whatever was linked to a message and whichever of it was
\* deleted again (split.ts:9, 12; deleteExpense gives a linked row its own
\* amount back).
BankIsKept ==
  removed \cap {"split", "bank", "loan"} = {} =>
    Balance("bank") =
      - Texts * TextRial
      - SumFunction([e \in DOMAIN expenses |-> ByHand(expenses[e])]) - PaidOut(settled)
      - Paid(Mine(payments)) + Cardinality(MyLoans) * LoanRial

\* The balance of the fund's account is the user's position in the fund, also
\* after rows of payments were deleted from the list; a deleted row of a loan
\* leaves the loan (fund.ts:10, and what myPosition shows).
FundIsPosition ==
  "loan" \notin removed =>
    Balance("fund") = Paid(Mine(payments)) - Cardinality(MyLoans) * LoanRial

\* An installment belongs to a loan that stands, of the member who paid it, and
\* no loan is paid back beyond its amount: taking a loan back, paying, undoing
\* and deleting rows keep the loans and their installments together (fund.ts).
RepaidIsOwed ==
  /\ \A p \in payments : p.loan # 0 => p.loan \in DOMAIN loans /\ loans[p.loan].member = p.member
  /\ \A l \in DOMAIN loans : Paid({p \in payments : p.loan = l}) <= LoanRial
=============================================================================
