SPECIFICATION Safety
CONSTANTS
    MaxResults = 3
    KeyCounts = {0, 1, 2}
INVARIANTS
    TypeOK
    PendingCountIsExact
    FetchesOfLiveItems
    ResolveAnswersItsItem
    FreedIsFinished
    NothingLeftBehind
PROPERTIES
    CancelStopsResults
    AnswersAsPromised
CHECK_DEADLOCK FALSE
