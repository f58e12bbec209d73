\* Two users at once; one client fails on its local file, the other may be killed.
SPECIFICATION FairSpec
CONSTANTS
  c1 = c1
  c2 = c2
  c3 = c3
  n1 = n1
  Garbled = Garbled
  Empty = Empty
  None = None
  Clients <- TwoClients
  Names = {n1}
  Symbols <- AllSymbols
  Plan <- ExchangePlan
  Source <- TwoSources
  BadLocal = {c1}
  Killable = {c2}
  Concurrent = TRUE
  Leftovers <- OneLeftover
INVARIANTS
  LockStep
  LeaksKnown
  EmptiedByFailure
  SignalHasCause
PROPERTIES
  EverySessionEnds
  EveryHandlerEnds
