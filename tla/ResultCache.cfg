SPECIFICATION Spec
CONSTANTS
    Calls = {c1, c2, c3}
    MaxItems = 1
    NoDoc = NoDoc
INVARIANTS
    RefsAreAccounted
PROPERTIES
    HitsAreFresh
CHECK_DEADLOCK FALSE
