SPECIFICATION FairSpec
CONSTANTS
  Tasks <- AppTasks
  Depends <- AppDepends
  Setscene <- AppSetscene
  Targets <- AppTargets
  HardDeps <- AppHard
  Rank <- AppRank
  Hashes = {"h0", "h1"}
  InitHash <- SameHash
  Fn <- AppFn
  Pn <- Itself
  TaskName <- AppNames
  StampName <- Itself
  NoExec = {}
  Nostamp = {}
  NumberTasks = 1
  Modes <- PlainOrKeepGoing
  IgnoreTasks = {}
  NumberThreads <- NoLimit
  InitStamps <- Clean
  InitSstate <- AllOrNothing
  MaxFail = 1
  MaxRehash = 1
  MaxCrash = 1
  Requests = {"shutdown", "force"}
  ActiveFloor = 3
INVARIANTS TypeOK ActiveIsOutstanding EndsQuiet
PROPERTIES BuildsInOrder Terminates
