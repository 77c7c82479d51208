SPECIFICATION Spec
CONSTANTS
    TypeNames = {"place", "road", "secret"}
    Spellings = {"place", "app:place", "road", "secret", "ghost"}
    Fixed <- MCFixed
    NoName = NoName
    Denied = {"secret"}
    Elements <- MCElements
    Kind <- MCKind
    MainGeometry = "geo"
    Table <- MCTable
    Null = Null
    NoObject = NoObject
    BadValue = BadValue
    Requests <- MCRequests
INVARIANTS
    AnswersAreWhatWasAsked
    FilterRepeatsNoFeature
    PermissionsComeFirst
    AnswerableIsAnswered
CHECK_DEADLOCK FALSE
