SPECIFICATION Spec
CONSTANTS
  MaxFrames = 6
  MaxEntries = 4
  RcSizes <- NoneOrTwo
INVARIANTS PredecessorsKept RcIntact ActiveSfIsABound
PROPERTIES RetiresTheCoaccessible KeepsTableContract
