SPECIFICATION Spec
CONSTANTS
    Timeouts <- SomeTimeouts
    SampleRate = 2
    PerSecond = 2
    IntLimit = 8
    BufferSize = 2
    ReadErrors = {}
    MaxSessions = 2
    MaxPending = 1
INVARIANTS EventsOfTheSession QuietWithoutThread TimeoutAfterSilence
PROPERTY StopAndCancelReturn
CHECK_DEADLOCK FALSE
