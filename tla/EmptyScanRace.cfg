CONSTANTS
  MaxCommits = 3
  InstantEmptyScan = FALSE
SPECIFICATION Spec
INVARIANT AwaitSound
