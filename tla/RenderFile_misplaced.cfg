SPECIFICATION RenderFileSpec
CONSTANTS
    Songs <- MCSongs
    SampleRates = {1, 2, 3, 4}
    TickRate = 3
    CountLimit = 20
    BufferLen = 3
    ChunkSize = 6
    SizeLimit = 12
    RiffExtra = 1
    OldFile <- MCOldFile
INVARIANT
    HeaderIsFilledIn
