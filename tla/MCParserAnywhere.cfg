SPECIFICATION Spec
CONSTANTS
    Streams <- FourLines
CHECK_DEADLOCK FALSE
INVARIANTS
    NoChunkMatters
