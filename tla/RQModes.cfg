SPECIFICATION Spec
CONSTANTS
  Tasks <- AppTasks
  Depends <- AppDepends
  Setscene <- AppSetscene
  Targets <- BothTargets
  HardDeps <- AppHard
  Rank <- AppRank
  Hashes = {"h0", "h1"}
  InitHash <- SameHash
  Fn <- AppFn
  Pn <- Itself
  TaskName <- AppNames
  StampName <- Itself
  NoExec = {"tool", "image"}
  Nostamp = {"prep"}
  NumberTasks = 2
  Modes <- EveryMode
  IgnoreTasks = {"build", "image"}
  NumberThreads <- NoLimit
  InitStamps <- SomeStamps
  InitSstate <- AnySstate
  MaxFail = 1
  MaxRehash = 0
  MaxCrash = 0
  Requests = {}
  ActiveFloor = 3
INVARIANTS CompleteMeansBuilt ForcedTargetsRun FailedForAReason BuildsAllItCan
