CONSTANTS
    NoQuery = NoQuery
    Width <- MCWidth
    Fees <- MCNegativeFees
    Sizes <- MCSizes
SPECIFICATION Spec
INVARIANT
    RateFollowsPaid
