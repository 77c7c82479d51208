SPECIFICATION Spec
CONSTANTS
    N = 2
    Rows = {1, 2, 3}
    InitialTables <- FewTables
    Requests <- AnyRequests
    Modes = {0, 1, 2}
    MaxPage <- MCMaxPage
    Infinity = Infinity
    MaxWrites = 1
INVARIANTS
    TypeOK
    NumberReturnedIsWritten
    ReadOnce
    PageSizeRespectedWhenRead
    NextAgreesWithMatched
    NumberMatchedIsTotalInside
PROPERTY
    AnswersAreStable
CHECK_DEADLOCK FALSE
