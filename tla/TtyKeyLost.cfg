SPECIFICATION TtySpec
CONSTANTS
    Readers = {r1}
    Lens = {0, 1}
    KeyBuff = 3
    BuffLen = 3
    MaxKeys = 3
PROPERTIES CodeKept
CHECK_DEADLOCK FALSE
