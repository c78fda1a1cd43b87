SPECIFICATION MediaSpec
CONSTANTS
    Words <- MCWords
    Texts <- MCTexts
    NoText = NoText
    Config <- MCConfig
    Located <- MCLocated
    Data <- MCData
    NoData = NoData
    Users = {u1, u2}
    Medias <- MCMedias
    OwnData <- MCOwnData
    NoValue = NoValue
    MaxAnswers = 2
INVARIANTS
    TypeOK
    CopiesAreFreed
    ValuesAreCurrent
    LastAnswerCounts
    PrivateKeysAreMerged
CHECK_DEADLOCK FALSE
