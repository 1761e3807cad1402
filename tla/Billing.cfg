CONSTANTS
  Sessions = {s1, s2}
  Invoices = {i1, i2, i3}
  Months = {1, 2}
  Labels = {1}
  MaxAmount = 1
  MaxAttempts = 2
  OneCallPerInvoice = TRUE
SPECIFICATION Spec
SYMMETRY CallSymmetry
CHECK_DEADLOCK FALSE
INVARIANTS TypeOK NumbersHaveNoGap MonthDraftedOnce TotalsAreLines
PROPERTIES IssuedIsFrozen
