SPECIFICATION Spec
CONSTANTS
  home = home
  office = office
  typo = typo
  Creds <- GoodCreds
  Good <- GoodCreds
  Size <- HomeShort
  NoCred = NoCred
  Garbled = Garbled
  MaxEvents = 2
  Ops <- DeleteOnly
  Patient = TRUE
PROPERTIES ResultIsConfig
