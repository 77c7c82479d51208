SPECIFICATION Spec
CONSTANTS
    None = None
    Model <- MCModel
    FeatureTypes <- MCFeatureTypes
    PropertyNames <- MCPropertyNames
INVARIANTS
    TypeOK
    CachedIsCurrent
    AnswerHoldsWhatWasAsked
    AnswerableIsAnswered
    NothingIsReadRowByRow
    DocumentsMatchTheirSchema
