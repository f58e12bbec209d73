\* Two users at once: is what they write to one file kept whole?
SPECIFICATION FairSpec
CONSTANTS
  c1 = c1
  c2 = c2
  c3 = c3
  n1 = n1
  Garbled = Garbled
  Empty = Empty
  None = None
  Clients <- TwoClients
  Names = {n1}
  Symbols <- AllSymbols
  Plan <- TwoWriters
  Source <- TwoSources
  BadLocal = {}
  Killable = {}
  Concurrent = TRUE
  Leftovers <- NoLeftovers
INVARIANTS
  FilesWhole
