SPECIFICATION FairSpec
CONSTANTS
  MaxPolls = 2
  Retries = 2
  MaxBusy = 1
  Responses <- SomeResponses
  Packet = 7
  LengthBytes <- SomeLengths
  MaxFaults = 2
  Configs <- SomeConfigs
INVARIANTS TypeOK DriverHeld ReadsFromStart WithinBuffer OwnResponse
  ConnectTypeOK SocketReleased EstablishedIsReal HandshakeReady
PROPERTIES ImplementsCommand ClosesOnlyOwn IdentityFromChip ConnectEnds Reconnects
