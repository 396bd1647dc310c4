SPECIFICATION Spec
CONSTANTS
    a = a
    b = b
    c = c
    d = d
    e = e
    Source <- SourceChunks
    Earlier <- EarlierChunks
    PackFrames = 2
    MaxStops = 3
    Worlds <- TornManaged
INVARIANT CheckpointCovered
CHECK_DEADLOCK FALSE
