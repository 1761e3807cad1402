CONSTANTS
  Sessions = {s1, s2}
  Entries = {e1}
  t1 = t1
  t2 = t2
  t3 = t3
  Timesheets = {t1, t2}
  PeriodOf <- MCSharedPeriodOf
  LastDay = 3
SPECIFICATION FairSpec
PROPERTIES LockedIsImmutable
