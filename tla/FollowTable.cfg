CONSTANTS
  Name = {"id", "a", "c", "row", "start_lsn"}
  Type = {"int", "bigint", "rowversion", "binary", "sql_variant"}
  ChangeType <- MCChangeType
  Arrow <- MCArrow
  NoArrow = "none"
  LogName = {"start_lsn"}
  Instance = {"i1", "i2"}
  NoInstance = "no instance"
  InitialInstance = "i1"
  InitialColumns <- MCColumns
  InitialKey <- MCKey
  NewColumns <- OddlyNamed
  Alterations <- MCAlterations
  ReAdd = FALSE
  None = None
  Adjacent = {3}
  MaxLog = 3
  MaxUpsets = 2
SPECIFICATION FairSpec
PROPERTY FollowsTable
