----------------------------- MODULE MCExpenses -----------------------------
\* Small instances of Expenses for TLC.  Approval rows and months are
\* interchangeable, and so are the calls of one kind.
EXTENDS Expenses, TLC

CallSymmetry ==
  Permutations(Claimants) \cup Permutations(Billers)
  \cup Permutations(Approvals) \cup Permutations(Months)
=============================================================================
