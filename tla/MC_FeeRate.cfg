CONSTANTS
    NoQuery = NoQuery
    Width <- MCWidth
    Fees <- MCFees
    Sizes <- MCSizes
SPECIFICATION Spec
INVARIANTS
    TypeOK
    ChargesStartedKilobytes
