CONSTANTS
  Deployments <- SmallMeshes
  MaxTimeouts = 1
SPECIFICATION Spec
INVARIANTS
  ResultsRight
  BarrierHolds
  SendNeverClashes
  NoUnprovokedFailure
PROPERTY EveryoneFinishes
CHECK_DEADLOCK FALSE
