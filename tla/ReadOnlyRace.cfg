\* Two users at once: is a read-only file left alone?
SPECIFICATION FairSpec
CONSTANTS
  c1 = c1
  c2 = c2
  c3 = c3
  n1 = n1
  Garbled = Garbled
  Empty = Empty
  None = None
  Clients <- TwoClients
  Names = {n1}
  Symbols <- AllSymbols
  Plan <- AnyPlan2
  Source <- TwoSources
  BadLocal = {}
  Killable = {}
  Concurrent = TRUE
  Leftovers <- OneLeftover
PROPERTIES
  ReadOnlyStable
