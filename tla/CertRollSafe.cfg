SPECIFICATION Spec
CONSTANTS
  States <- TwoStates
  MaxKey = 4
  MaxPem = 8
  FaultKinds <- AllKinds
  CutAt <- EveryPhase
INVARIANTS TypeOK IdentityIntact WindowArmed LinkAuthentic TextsArrive
PROPERTIES NoHalfRollReported RetireVerified
