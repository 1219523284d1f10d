--------------------------- MODULE BreadcrumbsRecord ---------------------------
(***************************************************************************)
(* The pruned per-transaction output record CBreadcrumbs (src/src/coins.h, *)
(* src/src/coins.cpp), reduced to what the cache layer and the encoding    *)
(* tell apart: its output vector vout.  A vout is a sequence whose         *)
(* elements are output values or NullOut, the IsNull() output that marks  *)
(* a spent slot.  Positions are 0-based in the code and 1-based here.      *)
(* nHeight, nVersion and fBreadcrumbBase are carried only where a          *)
(* definition reads them (the encoding, Spend's undo record).              *)
(***************************************************************************)
EXTENDS Integers, Sequences, SequencesExt

CONSTANT NullOut    \* the CTxOut for which IsNull() holds

IsUnspent(o) == o # NullOut

\* CBreadcrumbs::IsPruned: no output of vout is unspent.
IsPruned(vout) == \A i \in 1..Len(vout) : ~IsUnspent(vout[i])

\* CBreadcrumbs::Cleanup: drop the spent outputs at the end of vout.
Cleanup(vout) == SubSeq(vout, 1, SelectLastInSeq(vout, IsUnspent))

\* CBreadcrumbs::IsAvailable(nPos), nPos 0-based.
IsAvailable(vout, nPos) == nPos < Len(vout) /\ IsUnspent(vout[nPos + 1])

\* CBreadcrumbs::Spend(nPos): when the output is available it is nulled and
\* the trailing spent outputs are cleaned up; otherwise vout is unchanged
\* (the call returns false).
Spend(vout, nPos) ==
    IF IsAvailable(vout, nPos)
    THEN Cleanup([vout EXCEPT ![nPos + 1] = NullOut])
    ELSE vout

\* CBreadcrumbs::Clear empties vout.
Clear == <<>>

\* operator== on CBreadcrumbs: two pruned records are always equal,
\* otherwise the fields (here: vout) are compared.
RecordEq(a, b) == (IsPruned(a) /\ IsPruned(b)) \/ a = b
================================================================================
