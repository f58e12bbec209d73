\* Three users at once and few descriptors and threads; a user whose connection
\* got no thread waits for ever, so the system may stop.
SPECIFICATION LimitedFairSpec
CONSTANTS
  c1 = c1
  c2 = c2
  c3 = c3
  n1 = n1
  Garbled = Garbled
  Empty = Empty
  None = None
  Clients <- ThreeClients
  Names = {n1}
  Symbols <- AllSymbols
  Plan <- LeakPlan
  Source <- ThreeSources
  BadLocal = {}
  Killable = {}
  Concurrent = TRUE
  Leftovers <- OneLeftover
  MaxFiles = 3
  MaxThreads = 2
CHECK_DEADLOCK FALSE
INVARIANTS
  LeaksLeaveRoom
PROPERTIES
  EveryoneAccepted
