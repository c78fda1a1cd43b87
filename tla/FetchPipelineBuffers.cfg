SPECIFICATION Safety
CONSTANTS
    Fetches = {f1, f2}
    FetchData <- MCFetchData
    Roots <- MCMixed
    NoInput = NoInput
    Nothing = Nothing
INVARIANTS
    OwnData
CHECK_DEADLOCK FALSE
