SPECIFICATION Spec
CONSTANTS
    Sites <- MCSites
    Declarable <- MCDeclarable
    Registrable <- MCRegistrable
    Requests <- MCRequests
    NorthEast <- MCNorthEast
    PlaceOf <- Together
    Number = 2
    MaxDeclared = 1
INVARIANT AxesAsAnnounced
