CONSTANTS
    t1 = t1
    t2 = t2
    outA = 5
    outB = 7
    h1 = h1
    NullOut = NullOut
    ZeroHash = ZeroHash
    NoEntry = NoEntry
    NotFound = NotFound
    NoTxid = NoTxid
    Txids <- MCOneTxid
    NewRecs <- MCNewRecs
    CallTxs <- MCNoTxs
    Txs <- MCOneTxidTxs
    BlockHashes <- MCBlockHashes
    MaxOuts = 2
    MaxDepth = 2

SPECIFICATION Spec

PROPERTY FlushKeepsBestBlock
