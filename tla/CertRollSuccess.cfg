SPECIFICATION Spec
CONSTANTS
  States <- TwoStates
  MaxKey = 3
  MaxPem = 8
  FaultKinds <- OnlySave
  CutAt <- WhileIdle
INVARIANTS SuccessIsDurable
