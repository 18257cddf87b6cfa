SPECIFICATION PipelinesSpec
CONSTANTS
  Absent = Absent
  Candidates = {1, 2, 3, 4, 5, 6}
  Equal = {1, 2, 3}
  Context = {1, 4}
  Applies = {2, 3, 5}
  Score <- Similarities
  Threshold = 2
  MatchLimit = 2
  FallbackFloor = 1
  FallbackCeiling = 1
  PageCeiling = 2
  MaxCommits = 1
  Streams = {1, 2}
  PoolSize = 1
  CursorRows = 3
  BatchSize = 2
  MaxFaults = 2
  Files <- ImportedFiles
  FetchedUnits = 2
  SplitStreams <- StreamsToSplit
  MaxDirect = 1
  MaxLocales = 2
  ExportInputs <- DocumentsToExport
  ChosenLocale = "fr"
  LoadedUnits <- UnitsToLoad
  MaxLoads = 2
  ResultKeys <- KeysOfRows
  ResultTexts = {"a", "b"}
  ResultLocales = {"de"}
  NoLocale = NoLocale
  ResultRows = 4
  Projections <- TmxFiles
  Cpus = 2
  SampleUnits = 3
  WorkPerUnit = 1
INVARIANTS
  MatchIsSound
  HandlesReleased
  CleanEndIsComplete
  MemoryReadsBack
  RoutesAgree
  MetadataComplete
  SplitIsSelection
  ExportKeepsTranslations
  FilesReadBack
  ProjectionIsBounded
CHECK_DEADLOCK FALSE
