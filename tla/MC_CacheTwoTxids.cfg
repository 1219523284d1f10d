CONSTANTS
    t1 = t1
    t2 = t2
    outA = 5
    outB = 7
    h1 = h1
    NullOut = NullOut
    ZeroHash = ZeroHash
    NoEntry = NoEntry
    NotFound = NotFound
    NoTxid = NoTxid
    Txids <- MCTxids
    NewRecs <- MCNewRecs
    CallTxs <- MCCallTxs
    Txs <- MCTxs
    BlockHashes <- MCNoHashes
    MaxOuts = 2
    MaxDepth = 2

SPECIFICATION Spec

INVARIANT TypeOK
INVARIANT FreshMeansParentPruned
INVARIANT CleanMeansEqual
INVARIANT BatchWriteFreshAssert
INVARIANT InputReadersAgree
PROPERTY RefinesNestedViews
