\* see MCAudioRoute.tla for the buffers
CONSTANTS
    Capacity = 3
    Chunk = 2
    SourceRate = 160
    MixRates <- TenthsKHz
    BufferFrames <- ShortBuffers
    BatchSizes = {1, 2, 4}
    MaxWritten = 7
    MaxStarts = 2
SPECIFICATION FairSpec
INVARIANTS
    Accounted
PROPERTIES
    KeepsStream
    CloseEnds
