CONSTANTS
  e1 = e1
  e2 = e2
  c1 = c1
  c2 = c2
  Relays = {r1, r2}
  Events = {e1, e2}
  Consumers = {c1, c2}
  ConsumersOf <- MCConsumersOf
  MaxAttempts = 2
  BatchLimit = 1
  Stamps = {1, 2}
  MaxAborts = 1
SPECIFICATION FairSpec
INVARIANTS TypeOK ProcessedWasDelivered GivenUpOnlyExhausted
PROPERTIES OnceSpec EverySettles EventuallyDelivered
