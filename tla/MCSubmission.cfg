\* Five submissions through a ring of two slots: each slot is reused twice or
\* more, and a batch can hold a list twice or be one too long.
SPECIFICATION MCFairSpec
CONSTANTS
  Submissions = 5
  Slots = 2
  NullList = NullList
  MaxBatch = 3
INVARIANTS
  TypeOK
  FailBlamesStack
  GateExact
  FlagMeansReorder
  IdleAtRelease
PROPERTIES
  InFlightUntouched
  NoEarlyReturn
  ProbeEnds
