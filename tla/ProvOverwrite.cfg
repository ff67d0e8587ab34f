SPECIFICATION Spec
CONSTANTS
  home = home
  office = office
  typo = typo
  Creds <- TwoCreds
  Good <- OnlyHome
  Size <- SameSize
  NoCred = NoCred
  Garbled = Garbled
  MaxEvents = 2
  Ops <- ScanOnly
  Patient = FALSE
INVARIANTS SavedVerified
