CONSTANTS
  Key = {1, 2, 3, 4}
  Txns <- MCTxns
  MaxLog = 3
  Lead <- SecondPair
  ChunkSizes = {1, 2}
  None = None
  Adjacent = {3}
  Width = 2
  Top = 3
  Lsns <- MCLsns
SPECIFICATION Spec
INVARIANTS
  TypeOK
  NoStaleDumpRow
  DumpRowsDated
  PageCompleteUpToTies
  BatchAdvances
  ComparesAsBytes
PROPERTY MovesByIncrement
