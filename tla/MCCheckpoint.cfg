SPECIFICATION FairSpec
CONSTANTS
    a = a
    b = b
    c = c
    d = d
    e = e
    Source <- SourceChunks
    Earlier <- EarlierChunks
    PackFrames = 2
    MaxStops = 3
    Worlds <- AllWorlds
INVARIANTS TypeOK   ManagedIndexSealed
PROPERTIES ResumePointAdvances Completes
CHECK_DEADLOCK FALSE
