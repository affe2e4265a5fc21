SPECIFICATION Spec
CONSTANTS
    ChunkSizes <- TwoChunks
    MaxAttempts = 3
CHECK_DEADLOCK FALSE
INVARIANT TableReady
