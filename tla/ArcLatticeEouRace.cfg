SPECIFICATION Spec
CONSTANTS
  MaxFrames = 4
  MaxArcs = 3
  MaxUtts = 1
INVARIANT EouMeansAllTaken
