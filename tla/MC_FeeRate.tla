----------------------------- MODULE MC_FeeRate -----------------------------
(* Sizes on both sides of the 1000-byte boundaries and the empty size;     *)
(* fees giving zero, sub-unit and whole rates.                             *)
EXTENDS FeeRate

\* The widest word whose values TLC's 32-bit integers still hold; every
\* product of the passing run stays below 2^(Width-1).
MCWidth == 30

\* Fees as CTxMemPoolEntry fees plus a negative prioritisetransaction
\* delta can make them.
MCNegativeFees == {-1, 7}

MCFees == {0, 1, 7, 250}
MCSizes == {0, 1, 999, 1001, 2000, 2500}
================================================================================
