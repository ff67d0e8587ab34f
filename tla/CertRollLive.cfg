SPECIFICATION FairSpec
CONSTANTS
  States <- TwoStates
  MaxKey = 4
  MaxPem = 8
  FaultKinds <- NoKind
  CutAt <- WhileIdle
PROPERTIES EveryBootConnects RequestServed GoodCertInstalled ImplementsIdentity
