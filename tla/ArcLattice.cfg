SPECIFICATION Spec
CONSTANTS
  MaxFrames = 4
  MaxArcs = 3
  MaxUtts = 2
INVARIANTS FramesCutTheArcs SweptExactlyOnce TakenInOrder
PROPERTY EndUttReturns
\* Without a word exit in the last frame the two threads wait for each other.
CHECK_DEADLOCK FALSE
