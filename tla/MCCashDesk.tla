----------------------------- MODULE MCCashDesk -----------------------------
EXTENDS CashDesk, TLC

\* Rows of one kind are interchangeable.
Symmetry == Permutations(Employees) \cup Permutations(Funds)
              \cup Permutations(Shifts) \cup Permutations(Invoices)
              \cup Permutations(Handovers) \cup Permutations(Entries)
=============================================================================
