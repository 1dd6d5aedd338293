CONSTANTS
  reducer = reducer
  nester = nester
  Users <- TwoUsers
  Program <- TwoPrograms
  NestedSize = 2
  DefaultThreads = 2
  SetTo = {1, 3}
  MaxSets = 1
  MaxThrows = 1
SPECIFICATION Spec
INVARIANTS
  EachIndexOnce
  OverMeansQuiet
  ErrorsReported
  ResultsFit
  OnlyBodiesThrow
PROPERTY AllReturn
CHECK_DEADLOCK FALSE
