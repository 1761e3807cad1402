CONSTANTS
  Sessions = {s1, s2}
  Employees = {e1, e2}
  OneCall = TRUE
  MaxFacts = 1
  MaxDrafts = 3
  PayableDays = {2}
  FullDays = 2
  LastRangeDay = 3
  HireDay = 2
  MaxRanges = 3
  LastLineDay = 2
  MaxAssignments = 2
  Applications = {a1}
  MaxAttempts = 3
  MaxChanges = 3
  MaxOffers = 1
  Leftover = {"absent", "closed"}
SPECIFICATION Spec
SYMMETRY ActorSymmetry
CHECK_DEADLOCK FALSE
INVARIANTS TypeOK  PayslipsAnnouncedOnce  RangesPartition GuardedDisjoint PositionFollows HiresAreAcceptances
PROPERTIES HistoryStands LineClosesNoLoop
