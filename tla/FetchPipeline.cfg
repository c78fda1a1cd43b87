SPECIFICATION Spec
CONSTANTS
    Fetches = {f1, f2}
    FetchData <- MCFetchData
    Roots <- MCRoots
    NoInput = NoInput
    Nothing = Nothing
INVARIANTS
    TypeOK
    AnsweredIsFinished
    InputAfterSubregexps
PROPERTIES
    FetchesAreBoundToEnd
    EveryFetchAnswers
CHECK_DEADLOCK FALSE
