SPECIFICATION DialogFairSpec
CONSTANTS
    NumRows = 2
    MaxThreads = 1
    MaxRenders = 1
    NumSamples = 1
    BufferLen = 2
    SampleRate = 1
INVARIANTS
    DialogTypeOK
    RenderHasDialog
    JobModelFits
    SnapshotIsConsistent
    SuccessIsReal
PROPERTIES
    DialogGetsDone
    CancelCloses
    ErrorGetsLogged
