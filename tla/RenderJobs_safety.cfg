SPECIFICATION Spec
CONSTANTS
    NumRows = 2
    MaxThreads = 2
    MaxRenders = 2
    NumSamples = 1
    BufferLen = 2
    SampleRate = 2
INVARIANTS
    OneWriterPerFile
    NoOrphan
    JobsMatchRows
PROPERTIES
    RefinesBatch
