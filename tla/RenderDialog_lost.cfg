SPECIFICATION DialogSpec
CONSTANTS
    NumRows = 1
    MaxThreads = 1
    MaxRenders = 1
    NumSamples = 1
    BufferLen = 2
    SampleRate = 1
INVARIANTS
    ErrorsWereShown
