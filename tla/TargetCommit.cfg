SPECIFICATION FairSpec
CONSTANTS
  Locales = 3
  MaxFaults = 2
  MaxKills = 1
INVARIANTS
  AllOrNothing
  OriginalsSurvive
PROPERTIES
  CancellationHonoured
  EndsWithoutStaging
CHECK_DEADLOCK FALSE
