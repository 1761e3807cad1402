CONSTANTS
  Sessions = {s1, s2}
  Invoices = {i1, i2}
  Months = {1, 2}
  Labels = {0, 1}
  MaxAmount = 1
  MaxAttempts = 2
  OneCallPerInvoice = FALSE
SPECIFICATION Spec
SYMMETRY CallSymmetry
CHECK_DEADLOCK FALSE
INVARIANT MonthDraftedOnce
