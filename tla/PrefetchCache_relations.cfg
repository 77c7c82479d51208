SPECIFICATION Spec
CONSTANTS
    ForeignKeys = {"owner", "style"}
    OneToOnes = {"permit"}
    Manys = {"hours"}
    Keys = {1, 2, 3}
    Pk <- MCPk
    Contents = {old, new}
    Null = Null
    Unloaded = Unloaded
    Results <- MCResults
    InitialTables <- MCTables
    ChunkSize = 4
    MaxWrites = 1
INVARIANTS
    TypeOK
    NumberReturnedIsCounted
    FoundRelationsAreLoaded
PROPERTIES
    RelatedObjectsAreTheRows
CHECK_DEADLOCK FALSE
