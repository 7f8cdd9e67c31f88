CONSTANTS
  MaxCommits = 4
  InstantEmptyScan = TRUE
SPECIFICATION FairSpec
INVARIANTS
  TypeOK
  AwaitSound
PROPERTIES
  PromiseKept
  WaitEnds
