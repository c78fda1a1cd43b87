SPECIFICATION Safety
CONSTANTS
    MaxResults = 2
    KeyCounts = {0, 1}
INVARIANTS
    ReadyHeadIsSent
CHECK_DEADLOCK FALSE
