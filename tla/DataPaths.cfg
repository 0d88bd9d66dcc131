SPECIFICATION MCSpec
CONSTANTS
  null = null
  nofilter = nofilter
  nothing = nothing
  Null = null
  NoFilter = nofilter
  Nothing = nothing
  MaxRows = 3
  Norm <- NormOf
  Core <- CoreOf
  CodeLike = {21, 22, 23, 37}
  Ratio <- RatioOf
  Kin <- KinOf
  Threshold = 86
  ClearLead = 8
  IncludeFacts = FALSE
  Override = nothing
  StepRows = 2
  Databases <- TwoFiles
  Order <- ViewOrder
  Texts <- Typed
  Views <- AllViews
  Statements <- SomeStatements
  Specs <- SomeSpecs
  Playbooks <- SomePlaybooks
  ScanViews <- ViewsScanned
  ScanRows = 2
  ScanItems = 1
  DetectRows = 4
  ItemCounts <- SomeCounts
  GivenPairs <- SomePairs
  AgentRows = 1
  WorkingSize = 2
  MaxOps = 3
INVARIANTS
  DataTypeOK
  CutIsFlagged
  FiltersAreUnderstood
  PlaybookIsAccounted
  QueuesAreRanked
  RefineSelects
CHECK_DEADLOCK FALSE
