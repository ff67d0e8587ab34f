SPECIFICATION FairSpec
CONSTANTS
  home = home
  office = office
  typo = typo
  Creds <- AllCreds
  Good <- GoodCreds
  Size <- SameSize
  NoCred = NoCred
  Garbled = Garbled
  MaxEvents = 2
  Ops <- ScanOnly
  Patient = TRUE
PROPERTIES ConnectServed SuccessSaved
