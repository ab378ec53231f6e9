--------------------------- MODULE MCExpensePayroll ---------------------------
EXTENDS ExpensePayroll, TLC

CONSTANTS c1, c2, e1, e2

\* One claim of each employee, or both of one.
Apart    == c1 :> e1 @@ c2 :> e2
Together == c1 :> e1 @@ c2 :> e1

PayrollSymmetry == Permutations(Requests)
============================================================================
