SPECIFICATION Spec
CONSTANTS
    None = None
    Model <- MCModel
    FeatureTypes <- MCFeatureTypes
    PropertyNames <- MCPropertyNames
INVARIANT
    EnvelopeIsTheSame
