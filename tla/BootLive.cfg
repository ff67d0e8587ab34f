SPECIFICATION FairSpec
CONSTANTS
  Requests <- EveryRequest
  States <- OnlineOrNot
  InitialSt <- EveryState
  MaxFaults = 0
  CutAt <- WhileIdle
PROPERTIES BootEnds OnlineBoots ImplementsPolicy
