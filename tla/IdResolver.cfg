SPECIFICATION FairSpec
CONSTANTS
  Ids <- MCIds
  Raw <- MCRaw
  Resources <- MCResources
  Hash <- MCHash
  Seeds = {0, 1, 2}
  MaxResidentEntries = 2
  MaxResidentKeyBytes = 1
  MinDiskSlots = 2
  HeadroomThreshold = 3
  HeadroomFactor = 2
  MaxSuffix = 4
  Absent = Absent
  Error = Error
  AutoSymbol = 30
  Values = {0, 3}
  MaxCalls = 4
INVARIANTS
  UnitIdsAreUnique
  TiersAreSound
PROPERTIES
  RefinesIdMap
  ResolutionEnds
CHECK_DEADLOCK FALSE
