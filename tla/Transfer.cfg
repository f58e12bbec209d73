\* Any number of users, one at a time.
SPECIFICATION FairSpec
CONSTANTS
  Absent = Absent
  Size = 8
  Chars <- Letters
  Texts <- Files
INVARIANTS
  RoundTrip
  SuccessMeansStored
  CopyIsCurrent
  CrashOnlyWhenLong
PROPERTIES
  SessionsEnd
