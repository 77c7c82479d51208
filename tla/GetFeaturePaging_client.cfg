SPECIFICATION PatientSpec
CONSTANTS
    N = 2
    Rows <- MCRows
    InitialTables <- FewTables
    Requests <- PagingRequests
    Modes = {0, 1, 2}
    MaxPage <- MCMaxPage
    Infinity = Infinity
    MaxWrites = 1
PROPERTIES
    PagesAreComplete
    SessionEnds
CHECK_DEADLOCK FALSE
