SPECIFICATION Spec
CONSTANTS
    Inputs <- MCInputs
    Languages <- MCLanguages
    Elements <- MCElements
    Supported <- MCSupported
    Forced <- MCForced
    NoInput = NoInput
INVARIANTS
    TypeOK
    ConfigIsMostSpecific
    StringsAreBest
    OperationsAsDeclared
    ResultRefsAreExact
    MandatoryAreNeeded
    LoadedIsFetchable
CHECK_DEADLOCK FALSE
