SPECIFICATION Spec
CONSTANTS
  None = None
  MinSample = 1 BaselineDays = 1
  MinShare <- MCMinShare MinAdverse <- MCMinAdverse Tolerance <- MCTolerance
  TextBefore <- MCBefore Children <- MCChildren
  BreadthDimensions = {"channel_group"}
  RootTolerance <- MCMinAdverse MinRootAdverse <- MCMinAdverse MinEntities = 1
  BackgroundGames = 3 MinOtherBuckets = 2 FocusLimit = 3 MaxQueryModules = 2
  Limit = 2
  Tables <- MCTables Offsets = {0, 1}
  Direction = "lower_is_better" Broad = TRUE
INVARIANTS RefusedOnlyForUnseen CounterfactualComputes SubsetLoads
