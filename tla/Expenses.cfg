CONSTANTS
  Claimants = {c1, c2}
  Billers = {b1, b2}
  Lines = {l1}
  Approvals = {a1, a2}
  Months = {m1, m2}
  MaxPayments = 2
SPECIFICATION Spec
SYMMETRY CallSymmetry
CHECK_DEADLOCK FALSE
INVARIANTS TypeOK MoneyWasApproved PayrollPaysOnce PaidAgainOnlyWhenUndone
PROPERTIES DecisionsStand
