CONSTANTS
  Key = {1, 2}
  Txns <- MCTxns
  MaxLog = 3
  Lead <- SingleColumn
  ChunkSizes = {1, 2}
  None = None
  Adjacent = {3}
  MaxFaults = 2
  NewTargetOnDump = TRUE
SPECIFICATION LakeSpec
INVARIANTS
  PipelineTypeOK
  TargetExact
  PageComplete
  WalkedComplete
  NoGap
  EndsOnTheTable
  NewestIsTarget
  NewestIsCurrent
PROPERTIES
  NeverBack
  KeepsReplica
