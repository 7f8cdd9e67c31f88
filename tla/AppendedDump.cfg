CONSTANTS
  Key = {1, 2}
  Txns <- MCTxns
  MaxLog = 3
  Lead <- SingleColumn
  ChunkSizes = {1, 2}
  None = None
  Adjacent = {3}
  MaxFaults = 1
  NewTargetOnDump = FALSE
SPECIFICATION PipelineSpec
INVARIANT TargetExact
