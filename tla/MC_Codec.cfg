CONSTANTS
    NullOut = NullOut
    NoUndo = NoUndo
    DecodeFail = DecodeFail
    UIntBits = 16
    Positions <- MCPositions
    Heights <- MCHeights
    Versions <- MCVersions
SPECIFICATION Spec
INVARIANTS
    TypeOK
    RoundTrip
    UndoRestores
CHECK_DEADLOCK FALSE
