CONSTANTS
  Key = {1, 2, 3}
  Txns <- MCTxns
  MaxLog = 2
  Lead <- SecondPair
  ChunkSizes = {2}
  None = None
  Adjacent = {3}
  Width = 2
  Top = 3
  Lsns <- MCLsns
SPECIFICATION Spec
INVARIANT PageComplete
