--------------------------- MODULE MCSharedMoney ---------------------------
(* Instances of SharedMoney for TLC: the expenses of the group are            *)
(* interchangeable.                                                           *)
EXTENDS SharedMoney, TLC
AnyExpense == Permutations(Expenses)
=============================================================================
