SPECIFICATION Spec
CONSTANTS
  MaxRefcount = 3
  s1 = s1
  s2 = s2
  Searches <- TwoSearches
  Win = 1
  MaxCeps = 2
  MaxUtts = 2
INVARIANTS SeesWholeUtterance NoFeatureLost QuietBetweenUtterances
PROPERTY EndUttReturns
