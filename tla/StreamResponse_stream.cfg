SPECIFICATION Spec
CONSTANTS
    Formats = {"gml", "geojson", "csv"}
    Pages <- MCPages
    ChunkSizes <- MCChunkSizes
CHECK_DEADLOCK FALSE
INVARIANTS
    TypeOK
    NothingIsLostOrRepeated
    TruncationIsTold
    DocumentIsWellFormed
    BufferIsBounded
PROPERTY ResponseEnds
