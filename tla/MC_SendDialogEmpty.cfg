CONSTANTS
    e1 = e1
    e2 = e2
    e3 = e3
    e4 = e4
    e5 = e5
    rA = rA
    rBad = rBad
    aS = aS
    rP = rP
    Blank = Blank
    NoEntry = NoEntry
    EntryIds <- MCEntryIds
    Values <- MCValues
    ValidRecipients <- MCValid
    Addresses <- MCAddresses
    Requests <- MCRequests
    MaxNest = 2
SYMMETRY MCSymmetry
SPECIFICATION Spec
INVARIANT
    AtLeastOneEntry
