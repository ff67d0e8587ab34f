SPECIFICATION Spec
CONSTANTS
  home = home
  office = office
  typo = typo
  Creds <- AllCreds
  Good <- GoodCreds
  Size <- SameSize
  NoCred = NoCred
  Garbled = Garbled
  MaxEvents = 2
  Ops <- AllOps
  Patient = TRUE
  net = net
  cafe = cafe
  Names <- TwoNames
  NoName = hidden
  Auths <- TwoModes
  Rssis <- TwoLevels
  MaxPoints = 4
INVARIANTS TypeOK SavedVerified StatusTruthful EscapeCorrect FilterCorrect 
PROPERTIES PageStable
