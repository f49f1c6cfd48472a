SPECIFICATION Spec
CONSTANTS
  Tasks <- AppTasks
  Depends <- AppDepends
  Setscene <- AppSetscene
  Targets <- AppTargets
  HardDeps <- AppHard
  Rank <- AppRank
  Hashes = {"h0", "h1"}
  InitHash <- SameHash
  Fn <- AppFn
  Pn <- Itself
  TaskName <- AppNames
  StampName <- Itself
  NoExec = {}
  Nostamp = {}
  NumberTasks = 2
  Modes <- Plain
  IgnoreTasks = {}
  NumberThreads <- NoLimit
  InitStamps <- Clean
  InitSstate <- AppStateAnyHash
  MaxFail = 1
  MaxRehash = 2
  MaxCrash = 0
  Requests = {}
  ActiveFloor = 3
INVARIANTS RestoreExcludesCovered NeverTooLate DepsComplete CoveredOrNot NoMissingInputs
