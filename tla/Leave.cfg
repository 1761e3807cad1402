CONSTANTS
  Sessions = {s1, s2}
  Requests = {q1, q2}
  Years <- MCYears
  MaxDays = 1
  Entitlements = {1, 2}
  Connections = 3
SPECIFICATION FairSpec
INVARIANTS TypeOK NoOversubscription TotalsMatchRequests OutcomeInStep
PROPERTIES LedgerSpec EveryCallReturns
