\* Three users, one after the other.
SPECIFICATION FairSpec
CONSTANTS
  c1 = c1
  c2 = c2
  c3 = c3
  n1 = n1
  Garbled = Garbled
  Empty = Empty
  None = None
  Clients <- ThreeClients
  Names = {n1}
  Symbols <- AllSymbols
  Plan <- AnyPlan3
  Source <- ThreeSources
  BadLocal = {}
  Killable = {}
  Concurrent = FALSE
  Leftovers <- AllLeftovers
INVARIANTS
  RequestIntegrity
  FilesWhole
PROPERTIES
  ReadOnlyStable
  GracefulStop
  FilesImplemented
