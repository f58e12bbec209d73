\* One user after the other; the local path of one cannot be opened.
SPECIFICATION FairSpec
CONSTANTS
  c1 = c1
  c2 = c2
  c3 = c3
  n1 = n1
  Garbled = Garbled
  Empty = Empty
  None = None
  Clients <- TwoClients
  Names = {n1}
  Symbols <- AllSymbols
  Plan <- AnyPlan2
  Source <- TwoSources
  BadLocal = {c1}
  Killable = {}
  Concurrent = FALSE
  Leftovers <- OneLeftover
INVARIANTS
  ServerSurvives
