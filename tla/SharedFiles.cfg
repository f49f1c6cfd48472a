SPECIFICATION MCSpec
CONSTANTS
  Subjects = {"lock", "fetch"}
  Procs = {p, q, r}
  Names = {n}
  Inodes = {i, j, k, l}
  NoInode = NoInode
  Requests <- SomeRequests
  Recipes = {a, b}
  Contents = {c1, c2}
  NoSum = NoSum
  NoFile = NoFile
  Link = Link
  NoStamp = NoStamp
  Empty = Empty
  Nobody = Nobody
  Wants <- SomeWants
  Premirrors <- TwoPremirrors
  Mirrors <- OneMirror
  Meddling = TRUE
INVARIANTS MutualExclusion StampTellsTruth Delivers FailsForAReason UnpacksVerified
PROPERTIES ImplementsLock SomebodyGetsIn
