SPECIFICATION PatientSpec
CONSTANTS
    None = None
    Empty = Empty
    Garbage = Garbage
    LocalAliases <- MCLocal
    StandardAliases <- MCStandard
    WfsUri = "wfs-uri"
    XyNotations <- MCXy
    StoredQueries <- MCStored
    Rewritten <- MCRewritten
    Requests <- AllInputs
    Operations = {"GetCapabilities", "DescribeFeatureType", "GetFeature", "GetPropertyValue", "ListStoredQueries", "DescribeStoredQueries"}
    AcceptVersions = {200, 202}
    DefaultVersion = 200
    UseHtml = TRUE
    AppUri = "app-uri"
    OgcUris = {"wfs-uri"}
    Types <- MCTypes
    Formats <- MCFormats
    ValueReferences <- MCElements
    MaxPageSize = 2
INVARIANTS
    TypeOK
    UnderstoodAsMeant
    MeaningIsAnswered
    NothingSelectiveIsIgnored
    HandleIsReported
PROPERTIES
    LastPageIsReached
