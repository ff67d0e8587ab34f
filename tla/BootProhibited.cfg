SPECIFICATION Spec
CONSTANTS
  Requests <- OnlyNone
  States <- Prohibit
  InitialSt <- Offline
  MaxFaults = 0
  CutAt <- WhileIdle
INVARIANTS ProhibitedNeverRuns
