\* Three threads make directories that they share or clash in.
SPECIFICATION FairSpec
CONSTANTS
  t1 = t1
  t2 = t2
  t3 = t3
  Nobody = Nobody
  Threads <- ThreeThreads
  Wanted <- Mixed
  Before <- Tree
INVARIANTS
  FailureExcused
  SomeoneSucceeds
  DirectoryThere
PROPERTIES
  CreateDirReturns
