CONSTANTS
  Key = {2, 3, 4}
  Txns <- MCTxns
  MaxLog = 3
  Lead <- PairedColumn
  ChunkSizes = {1}
  None = None
  Adjacent = {3}
  InstantEmptyScan = TRUE
  MaxFaults = 1
  NewTargetOnDump = TRUE
SPECIFICATION OnCaptureSpec
INVARIANTS
  NoStaleDumpRow
  FirstsComplete
PROPERTY ImplementsLake
