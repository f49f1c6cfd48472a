SPECIFICATION MCSpec
CONSTANTS
  Tasks <- FiveTasks
  Inputs <- AllInputs
  TaskRank <- SameRank
  None = None
  first = first
  second = second
  r1 = r1
  r2 = r2
  r3 = r3
  Parsers = {first, second}
  Recipes = {r1, r2, r3}
  Plans <- SomePlans
  Room = 1
INVARIANTS Collapsed ParsingTellsTruth
PROPERTIES Collapses ParsingEnds
CHECK_DEADLOCK FALSE
