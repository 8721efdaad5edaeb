SPECIFICATION ProcessSpec
CONSTANTS
    MaxPid = 3
    MaxGroups = 4
    MaxLeaks = 1
INVARIANTS FoundReferred
CHECK_DEADLOCK FALSE
