SPECIFICATION Spec
CONSTANTS
  Requests <- EveryRequest
  States <- EveryState
  InitialSt <- EveryState
  MaxFaults = 2
  CutAt <- EveryPhase
INVARIANTS TypeOK NoMutualWait
PROPERTIES SelectionPermitted
