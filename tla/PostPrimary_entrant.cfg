SPECIFICATION FairSpec
CONSTANTS
  None = None
  MinSample = 1 BaselineDays = 1
  MinShare <- MCMinShare MinAdverse <- MCMinAdverse Tolerance <- MCTolerance
  TextBefore <- MCBefore Children <- MCChildren
  BreadthDimensions <- MCBreadthDimensions
  RootTolerance <- MCRootTolerance MinRootAdverse <- MCMinAdverse MinEntities = 1
  BackgroundGames = 3 MinOtherBuckets = 2 FocusLimit = 3 MaxQueryModules = 2
  RepairLimit = 1
  Cases <- EntrantCases
PROPERTY AlwaysCompletes
