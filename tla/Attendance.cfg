CONSTANTS
  Sessions = {s1, s2}
  Entries = {e1, e2}
  t1 = t1
  t2 = t2
  t3 = t3
  Timesheets = {t1, t2, t3}
  PeriodOf <- MCPeriodOf
  LastDay = 2
SYMMETRY MCSymmetry
SPECIFICATION Spec
INVARIANTS TypeOK FreezeComplete PunchesAlternate NoOverlap
PROPERTIES FrozenStays
