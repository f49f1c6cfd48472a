SPECIFICATION Spec
CONSTANTS
  Tasks <- PairTasks
  Depends <- PairDepends
  Setscene <- PairSetscene
  Targets <- AppTargets
  HardDeps <- NoHardDeps
  Rank <- PairRank
  Hashes = {"h0", "h1"}
  InitHash <- SameHash
  Fn <- PairFn
  Pn <- PairPn
  TaskName <- PairNames
  StampName <- PairStamps
  NoExec = {}
  Nostamp = {}
  NumberTasks = 2
  Modes <- PlainOrKeepGoing
  IgnoreTasks = {}
  NumberThreads <- NoLimit
  InitStamps <- Clean
  InitSstate <- AnySstateAnyHash
  MaxFail = 1
  MaxRehash = 1
  MaxCrash = 0
  Requests = {}
  ActiveFloor = 3
INVARIANTS DeferredApart StampsApart
PROPERTIES ForcedOnlyAfterFailure
