SPECIFICATION FairSpec
CONSTANTS
  home = home
  office = office
  typo = typo
  Creds <- TwoCreds
  Good <- OnlyHome
  Size <- SameSize
  NoCred = NoCred
  Garbled = Garbled
  MaxEvents = 2
  Ops <- NoOps
  Patient = FALSE
PROPERTIES DisconnectEnds
