SPECIFICATION FairSpec
CONSTANTS
  Tasks <- WideTasks
  Depends <- WideDepends
  Setscene <- WideSetscene
  Targets <- AppTargets
  HardDeps <- NoHardDeps
  Rank <- WideRank
  Hashes = {"h0", "h1"}
  InitHash <- SameHash
  Fn <- WideFn
  Pn <- Itself
  TaskName <- WideNames
  StampName <- Itself
  NoExec = {}
  Nostamp = {}
  NumberTasks = 2
  Modes <- EnforceKeepGoing
  IgnoreTasks = {}
  NumberThreads <- NoLimit
  InitStamps <- Clean
  InitSstate <- AnySstate
  MaxFail = 1
  MaxRehash = 0
  MaxCrash = 0
  Requests = {}
  ActiveFloor = 3
PROPERTIES Terminates
