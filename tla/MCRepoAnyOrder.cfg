CONSTANTS
    a = a
    b = b
    Hash = {a, b}
    MaxFrames = 3
    MaxManifests = 2
    MaxGens = 2
    MaxCrashes = 2
SPECIFICATION AnyOrderSpec
INVARIANT ReferencedChunksKept
