SPECIFICATION Spec
CONSTANTS
  tree = tree
  flat = flat
  MaxRefcount = 3
  Win = 1
  MaxCeps = 3
  MaxArcs = 2
  MaxUtts = 1
  SfWin = 1
  NoExit = TRUE
  FlatMayFail = TRUE
PROPERTY EndUttWaitsForAll
CHECK_DEADLOCK FALSE
