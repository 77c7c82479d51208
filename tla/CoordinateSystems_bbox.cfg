SPECIFICATION Spec
CONSTANTS
    Sites <- MCSites
    Declarable <- MCDeclarable
    Registrable <- MCRegistrable
    Requests <- MCRequests
    NorthEast <- MCNorthEast
    PlaceOf <- Apart
    Number = 2
    MaxDeclared = 1
INVARIANT BoxIsReadAsMeant
