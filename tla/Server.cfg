SPECIFICATION FairSpec
CONSTANTS
  c1 = c1
  c2 = c2
  Clients = {c1, c2}
  Slots = {s1, s2}
  None = None
  Plans <- SomePlans
INVARIANTS SocketReaches CleanStart EventsAreOwn AnsweredOnce
PROPERTIES EverybodyLeaves
CHECK_DEADLOCK FALSE
