CONSTANTS
  Key = {1, 2}
  Txns <- MCTxns
  MaxLog = 3
  Lead <- SingleColumn
  ChunkSizes = {1}
  None = None
  Adjacent = {3}
  MaxFaults = 1
  NewTargetOnDump = TRUE
SPECIFICATION FairPipelineSpec
PROPERTIES
  LoopEnds
  CatchesUp
