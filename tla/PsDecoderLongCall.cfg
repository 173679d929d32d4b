SPECIFICATION Spec
CONSTANTS
    FrameSize = 3
    FrameShift = 2
    PrespchLen = 4
    PostspchLen = 2
    Win = 1
    BlockSize = 7
    NoCep <- NoCepValue
    NoFeature <- NoFeatureValue
    GrowAlloc = 5
    PlWindows = {0, 2}
    Modes = {"raw", "cep", "full"}
    Voices <- SomeVoices
    SampChunks = {1, 4, 13}
    MaxChunk = 6
    MaxSamps = 13
    MaxUtts = 2
INVARIANT SameResults
CHECK_DEADLOCK FALSE
