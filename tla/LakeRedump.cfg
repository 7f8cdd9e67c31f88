CONSTANTS
  Key = {1}
  Txns <- MCTxns
  MaxLog = 4
  Lead <- SingleColumn
  ChunkSizes = {1, 2}
  None = None
  Adjacent = {3}
  MaxFaults = 0
  NewTargetOnDump = FALSE
SPECIFICATION LakeSpec
INVARIANT NewestIsCurrent
