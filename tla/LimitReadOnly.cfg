\* Two users, one after the other, and few descriptors.
SPECIFICATION LimitedFairSpec
CONSTANTS
  c1 = c1
  c2 = c2
  c3 = c3
  n1 = n1
  Garbled = Garbled
  Empty = Empty
  None = None
  Clients <- TwoClients
  Names = {n1}
  Symbols <- AllSymbols
  Plan <- AnyPlan2
  Source <- TwoSources
  BadLocal = {}
  Killable = {}
  Concurrent = FALSE
  Leftovers <- ReadOnlyLeftover
  MaxFiles = 3
  MaxThreads = 2
PROPERTIES
  ReadOnlyStable
