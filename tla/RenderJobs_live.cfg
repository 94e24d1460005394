SPECIFICATION FairSpec
CONSTANTS
    NumRows = 2
    MaxThreads = 1
    MaxRenders = 1
    NumSamples = 3
    BufferLen = 2
    SampleRate = 2
INVARIANTS
    TypeOK
    CleanFinishIsComplete
PROPERTIES
    CanceledInQueueWritesNothing
    CancelStopsWithinOneBuffer
    EveryJobFinishes
