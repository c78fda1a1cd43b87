SPECIFICATION Spec
CONSTANTS
    Requests <- MCRequests
    Operations <- MCOperations
    MaxOperations = 2
    KeyType <- MCKeyType
    NoMedia = NoMedia
    NoValue = NoValue
    NoKey = NoKey
INVARIANTS
    TypeOK
    FirstFitIsSelected
    YesIsKept
    
