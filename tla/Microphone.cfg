SPECIFICATION Spec
CONSTANTS
    Patient = TRUE
    MaxRecordings = 2
    MaxChunks = 2
INVARIANTS WholeUtterances LineIsThere
PROPERTIES StartAndStopReturn EndIsTaken
CHECK_DEADLOCK FALSE
