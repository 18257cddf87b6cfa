SPECIFICATION Spec
CONSTANTS
  None = None
  NoTarget = None
  Loaders = {1, 2}
  Documents <- MCDocuments
  Setups = {1}
  LegacyRows <- MCLegacyRows
  Hash <- MCHash
  Bytes <- MCBytes
  BatchRows = 2
  BatchBytes = 4
  ReindexRows = 1
  MaxFaults = 1
INVARIANTS
  OneRowPerUnit
  KidsMatchRow
  LoadIsComplete
  ReindexIsComplete
PROPERTIES
  RefinesTmStore
