SPECIFICATION Spec
CONSTANTS
  tree = tree
  flat = flat
  MaxRefcount = 3
  Win = 1
  MaxCeps = 4
  MaxArcs = 2
  MaxUtts = 2
  SfWin = 2
  NoExit = FALSE
  FlatMayFail = FALSE
INVARIANTS SeesWholeUtterance PollFindsTheFrame WindowLagsByOne WindowIsHeld ReleasesWhatIsThere
PROPERTIES EndUttReturns ShutdownStopsAll
