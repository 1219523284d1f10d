----------------------- MODULE MC_BreadcrumbsViewCache -----------------------
(* Model values for BreadcrumbsViewCache: two txids, two output values     *)
(* (integers, so that GetValueIn can add them),                           *)
(* and records of one and of two outputs, so that spending vout[0] leaves  *)
(* a record with a spent slot in front and spending vout[1] trims one.     *)
EXTENDS BreadcrumbsViewCache

CONSTANTS t1, t2, outA, outB, h1

MCTxids == {t1, t2}
MCOneTxid == {t1}
MCNewRecs == {<<outA>>, <<outA, outB>>}
MCBlockHashes == {h1}
MCNoHashes == {}

\* A coinbase transaction and every transaction spending one or two
\* distinct prevouts of the txids in play (CheckTransaction refuses a
\* transaction that names a prevout twice before any of these runs).
MCInputs(T) == T \X (0..(MaxOuts - 1))
MCTxsOf(T) ==
    {[coinbase |-> TRUE, vin |-> <<>>]} \cup
    {[coinbase |-> FALSE, vin |-> s] :
        s \in {<<p>> : p \in MCInputs(T)} \cup
              {<<p, q>> \in MCInputs(T) \X MCInputs(T) : p # q}}
MCTxs == MCTxsOf(MCTxids)
MCOneTxidTxs == MCTxsOf(MCOneTxid)

\* The calls of the two-txid run: a coinbase, and a transaction spending
\* output 1 of t1 and output 0 of t2 (the first input's fill stays in
\* the cache while the second is looked up).
MCCallTxs == {[coinbase |-> TRUE, vin |-> <<>>],
              [coinbase |-> FALSE, vin |-> <<<<t1, 1>>, <<t2, 0>>>>]}

\* The deep and best-block runs call no helper: their fills are those of
\* ReadBreadcrumbs, and the helpers are checked by the two-txid run.
MCNoTxs == {}
================================================================================
