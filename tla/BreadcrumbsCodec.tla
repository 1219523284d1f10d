--------------------------- MODULE BreadcrumbsCodec ---------------------------
(***************************************************************************)
(* The compact encoding of CBreadcrumbs (src/src/coins.h 20-71, 148-238,  *)
(* src/src/coins.cpp 16-32) and Spend with its undo record (coins.cpp     *)
(* 34-48), over one record that outputs are spent from one at a time.     *)
(*                                                                         *)
(* A stream is a sequence of tokens.  VARINT(x) and the CTxOutCompressor   *)
(* of an output (serialize.h and compressor.h, not part of this            *)
(* repository) are one token each; a mask byte is a token 0..255.  The    *)
(* unspent output at position p is written as the integer p, so a decoder *)
(* that misplaces an output is caught.                                     *)
(***************************************************************************)
EXTENDS BreadcrumbsRecord, FiniteSets, Bitwise, FiniteSetsExt

CONSTANTS
    Positions,   \* the vout positions that may hold an unspent output
    Heights,     \* nHeight values
    Versions,    \* nVersion values
    NoUndo,      \* no Spend has happened yet
    DecodeFail,  \* Unserialize ran off the end of the stream
    UIntBits     \* width of unsigned int (TLC's integers are 32-bit signed,
                 \* so a model narrower than 32 keeps the wrap-around)

VARIABLES
    coins,    \* the CBreadcrumbs
    prev,     \* the record before the last successful Spend
    undo,     \* the CTxInUndo that Spend filled
    lastPos   \* the position the last successful Spend named

vars == <<coins, prev, undo, lastPos>>

Record == [fBreadcrumbBase : BOOLEAN, vout : Seq(Positions \cup {NullOut}),
           nHeight : Heights \cup {0}, nVersion : Versions \cup {0}]

\* CTxInUndo: the spent output and, when the record became empty, the
\* record's metadata (nHeight = 0 otherwise).
Undo == [txout : Positions, nHeight : Heights \cup {0},
         fBreadcrumbBase : BOOLEAN, nVersion : Versions \cup {0}]

-----------------------------------------------------------------------------
(* Encoding.                                                               *)

\* Mask byte b describes vout[2+8b .. 2+8b+7] (0-based).
MaskBytes(vout) == IF Len(vout) <= 2 THEN {} ELSE 0..((Len(vout) - 3) \div 8)

MaskSlots(vout, b) == {i \in 0..7 : 2 + b * 8 + i < Len(vout)}

\* chAvail of Serialize: bit i set when vout[2+8b+i] is unspent.
MaskByte(vout, b) ==
    SumSet({2^i : i \in {j \in MaskSlots(vout, b) : IsUnspent(vout[3 + b * 8 + j])}})

\* CBreadcrumbs::CalcMaskSize: <<nBytes, nNonzeroBytes>>, nBytes reaching
\* up to the last non-zero mask byte.
CalcMaskSize(vout) ==
    LET nonzero == {b \in MaskBytes(vout) : MaskByte(vout, b) # 0}
    IN  <<IF nonzero = {} THEN 0 ELSE Max(nonzero) + 1, Cardinality(nonzero)>>

UIntMod == 2^UIntBits

\* The header code nCode, in unsigned int arithmetic.
HeaderCode(r) ==
    LET vout    == r.vout
        nMaskCode == CalcMaskSize(vout)[2]
        fFirst  == Len(vout) > 0 /\ IsUnspent(vout[1])
        fSecond == Len(vout) > 1 /\ IsUnspent(vout[2])
    IN  (8 * ((nMaskCode - (IF fFirst \/ fSecond THEN 0 ELSE 1)) % UIntMod)
          + (IF r.fBreadcrumbBase THEN 1 ELSE 0)
          + (IF fFirst THEN 2 ELSE 0) + (IF fSecond THEN 4 ELSE 0)) % UIntMod

\* CBreadcrumbs::Serialize (only called on an unpruned record).
Serialize(r) ==
    <<r.nVersion, HeaderCode(r)>>
    \o [k \in 1..CalcMaskSize(r.vout)[1] |-> MaskByte(r.vout, k - 1)]
    \o SelectSeq(r.vout, IsUnspent)
    \o <<r.nHeight>>

-----------------------------------------------------------------------------
(* Decoding.                                                               *)

\* A decoder that counts every mask byte read, zero or not.
RECURSIVE ReadMask_CountEveryByte(_, _, _, _)
ReadMask_CountEveryByte(s, pos, nMaskCode, vAvail) ==
    IF nMaskCode = 0 THEN <<pos, vAvail>>
    ELSE IF pos > Len(s) THEN DecodeFail
    ELSE ReadMask_CountEveryByte(s, pos + 1, nMaskCode - 1,
             vAvail \o [p \in 1..8 |-> (s[pos] & 2^(p - 1)) # 0])

\* The spentness bitmask loop of Unserialize: read bytes from position pos
\* until nMaskCode non-zero ones were read, each adding 8 availability
\* bits.  Returns <<next position, vAvail>>, or DecodeFail at the end of s.
RECURSIVE ReadMask(_, _, _, _)
ReadMask(s, pos, nMaskCode, vAvail) ==
    IF nMaskCode = 0 THEN <<pos, vAvail>>
    ELSE IF pos > Len(s) THEN DecodeFail
    ELSE LET chAvail == s[pos]
         IN  ReadMask(s, pos + 1,
                      IF chAvail # 0 THEN nMaskCode - 1 ELSE nMaskCode,
                      vAvail \o [p \in 1..8 |-> (chAvail & 2^(p - 1)) # 0])

\* CBreadcrumbs::Unserialize, ending with Cleanup.
Unserialize(s) ==
    IF Len(s) < 2 THEN DecodeFail ELSE
    LET nCode     == s[2]
        nMaskCode == (nCode \div 8) + (IF (nCode & 6) # 0 THEN 0 ELSE 1)
        mask      == ReadMask(s, 3, nMaskCode,
                              <<(nCode & 2) # 0, (nCode & 4) # 0>>)
    IN  IF mask = DecodeFail THEN DecodeFail ELSE
        LET pos    == mask[1]
            vAvail == mask[2]
            before(j) == Cardinality({i \in 1..(j - 1) : vAvail[i]})
            nOuts  == before(Len(vAvail) + 1)
        IN  IF pos + nOuts > Len(s) THEN DecodeFail
            ELSE [fBreadcrumbBase |-> (nCode & 1) # 0,
                  vout |-> Cleanup([j \in 1..Len(vAvail) |->
                                      IF vAvail[j] THEN s[pos + before(j)]
                                      ELSE NullOut]),
                  nHeight |-> s[pos + nOuts],
                  nVersion |-> s[1]]

-----------------------------------------------------------------------------
(* Spending.                                                               *)

\* Spend(out, undo) that nulls the slot before it copies it to the undo
\* record.
SpendUndo_TxoutAfterNull(r, n) ==
    LET nulled == [r.vout EXCEPT ![n + 1] = NullOut]
        vout   == Cleanup(nulled)
    IN  <<[r EXCEPT !.vout = vout],
          [txout |-> nulled[n + 1],
           nHeight |-> IF Len(vout) = 0 THEN r.nHeight ELSE 0,
           fBreadcrumbBase |-> Len(vout) = 0 /\ r.fBreadcrumbBase,
           nVersion |-> IF Len(vout) = 0 THEN r.nVersion ELSE 0]>>

\* Spend(out, undo) that tests for an empty record before Cleanup.
SpendUndo_MetaBeforeCleanup(r, n) ==
    LET vout == Cleanup([r.vout EXCEPT ![n + 1] = NullOut])
    IN  <<[r EXCEPT !.vout = vout],
          [txout |-> r.vout[n + 1],
           nHeight |-> IF Len(r.vout) = 0 THEN r.nHeight ELSE 0,
           fBreadcrumbBase |-> Len(r.vout) = 0 /\ r.fBreadcrumbBase,
           nVersion |-> IF Len(r.vout) = 0 THEN r.nVersion ELSE 0]>>

\* CBreadcrumbs::Spend(out, undo) at position n of a record that has it
\* available: the output goes to the undo record, the slot is nulled and
\* cleaned up, and when vout became empty the metadata goes to the undo
\* record too.
SpendUndo(r, n) ==
    LET vout == Cleanup([r.vout EXCEPT ![n + 1] = NullOut])
    IN  <<[r EXCEPT !.vout = vout],
          [txout |-> r.vout[n + 1],
           nHeight |-> IF Len(vout) = 0 THEN r.nHeight ELSE 0,
           fBreadcrumbBase |-> Len(vout) = 0 /\ r.fBreadcrumbBase,
           nVersion |-> IF Len(vout) = 0 THEN r.nVersion ELSE 0]>>

\* The records FromTx builds: the outputs of a transaction, trimmed.
FromTxRecords ==
    {[fBreadcrumbBase |-> cb, nHeight |-> h, nVersion |-> v,
      vout |-> Cleanup([j \in 1..(Max(Positions) + 1) |->
                          IF j - 1 \in U THEN j - 1 ELSE NullOut])] :
        cb \in BOOLEAN, h \in Heights, v \in Versions, U \in (SUBSET Positions) \ {{}}}

Init ==
    /\ coins \in FromTxRecords
    /\ prev = coins
    /\ undo = NoUndo
    /\ lastPos = 0

SpendOut(n) ==
    /\ IsAvailable(coins.vout, n)
    /\ LET res == SpendUndo(coins, n)
       IN  /\ coins' = res[1]
           /\ undo' = res[2]
    /\ prev' = coins
    /\ lastPos' = n

Next == \E n \in Positions : SpendOut(n)

Spec == Init /\ [][Next]_vars


TypeOK ==
    /\ coins \in Record
    /\ prev \in Record
    /\ undo \in Undo \cup {NoUndo}
    /\ lastPos \in Positions

-----------------------------------------------------------------------------
(* Properties.                                                             *)

\* A rollback of a spend, as the undo record is meant to support it: when
\* the record is gone (pruned, so absent from the view) it is rebuilt from
\* the undo record's metadata, which counts as present when nHeight # 0;
\* then the spent output is put back at its position.
Rollback(r, u, n) ==
    LET base == IF ~IsPruned(r.vout) THEN r
                ELSE IF u.nHeight # 0
                     THEN [fBreadcrumbBase |-> u.fBreadcrumbBase, vout |-> <<>>,
                           nHeight |-> u.nHeight, nVersion |-> u.nVersion]
                     ELSE [fBreadcrumbBase |-> FALSE, vout |-> <<>>,
                           nHeight |-> 0, nVersion |-> 0]
        len  == IF Len(base.vout) > n THEN Len(base.vout) ELSE n + 1
        vout == [j \in 1..len |-> IF j = n + 1 THEN u.txout
                                  ELSE IF j <= Len(base.vout) THEN base.vout[j]
                                  ELSE NullOut]
    IN  [base EXCEPT !.vout = vout]

\* Serialize followed by Unserialize gives back every unspent record: the
\* header code's "- 1" when neither of the first two outputs is unspent,
\* the mask bytes up to the last non-zero one, and the decoder's loop that
\* counts only non-zero mask bytes must all agree (coins.h 177-238,
\* coins.cpp 16-32).
RoundTrip == ~IsPruned(coins.vout) => Unserialize(Serialize(coins)) = coins

\* The undo record Spend(out, undo) fills is enough to roll the spend back,
\* also when the spend emptied the record and it is gone from the view
\* (coins.cpp 34-48).
UndoRestores == undo # NoUndo => Rollback(coins, undo, lastPos) = prev

================================================================================
