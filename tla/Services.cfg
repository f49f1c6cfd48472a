SPECIFICATION MCSpec
CONSTANTS
  Subjects = {"pr", "hash"}
  Clients = {a, b}
  Checksums = {x, y}
  NoReply = NoReply
  Imports = {1}
  Retries = 1
  Builds = {d, e}
  Resends = 1
  MaxValue = 2
  Taskhashes = {t1, t2, t3}
  Outhashes = {o1, o2}
  Marks = {m1, m2}
  None = None
  Settings <- AllSettings
  Theirs <- OneKnown
  MaxLost = 1
  t1 = t1
  t2 = t2
  t3 = t3
  o1 = o1
  o2 = o2
  up1 = up1
SYMMETRY Alike
CONSTRAINT Whole
CHECK_DEADLOCK FALSE
INVARIANTS NeverBackwards OwnValues ToldIsRecorded EqualOutputsShare
PROPERTIES SweepKeepsMarked
