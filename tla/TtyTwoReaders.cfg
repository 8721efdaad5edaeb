SPECIFICATION TtySpec
CONSTANTS
    Readers = {r1, r2}
    Lens = {1}
    KeyBuff = 3
    BuffLen = 3
    MaxKeys = 3
INVARIANTS NoStrandedReader
CHECK_DEADLOCK FALSE
