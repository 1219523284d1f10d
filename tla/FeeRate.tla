------------------------------- MODULE FeeRate -------------------------------
(***************************************************************************)
(* CFeeRate (src/src/amount.h 24-53, src/src/amount.cpp 10-30): a fee     *)
(* rate in silvios per 1000 bytes, its constructors, and GetFee, whose     *)
(* results the model records so that they can be compared with what a fee *)
(* per started kilobyte should be.  Both divisions mix a signed CAmount  *)
(* with an unsigned size_t, so C++ converts the amount to unsigned: the   *)
(* model does the same at a word width of Width bits (64 in the build).   *)
(***************************************************************************)
EXTENDS Integers

CONSTANTS
    Width,   \* bits of CAmount and size_t
    Fees,    \* nFeePaid and _nSilviosPerK arguments
    Sizes,   \* nSize arguments, in bytes
    NoQuery  \* no GetFee call yet

VARIABLES
    nSilviosPerK,  \* the rate of the CFeeRate object
    query,         \* the last GetFee call: [rate, size, fee], or NoQuery
    paid           \* the arguments of the last CFeeRate(nFeePaid, nSize)
                   \* behind nSilviosPerK, or NoQuery

vars == <<nSilviosPerK, query, paid>>

ASSUME Width \in 8..30

\* The usual arithmetic conversions of a mixed int64 / size_t expression:
\* the signed operand is taken modulo 2^Width, and the unsigned result is
\* read back into a CAmount as a two's-complement value.
ToUnsigned(x) == x % (2 ^ Width)
ToSigned(u) == IF u >= 2 ^ (Width - 1) THEN u - 2 ^ Width ELSE u

\* CFeeRate(nFeePaid, nSize): the rate of a transaction of nSize bytes that
\* paid nFeePaid; 0 for an empty size.
RateFromPaid(nFeePaid, nSize) ==
    IF nSize > 0 THEN ToSigned(ToUnsigned(nFeePaid * 1000) \div nSize) ELSE 0

\* GetFee with the size rounded down instead of up.
GetFee_RoundDownward(rate, nSize) ==
    LET mod    == nSize % 1000
        size   == IF mod > 0 THEN nSize - mod - 1000 ELSE nSize
        nFee   == (rate * size) \div 1000
    IN  IF nFee = 0 /\ rate > 0 THEN rate ELSE nFee

\* GetFee without rounding the size.
GetFee_NoRoundUp(rate, nSize) ==
    LET nFee == (rate * nSize) \div 1000
    IN  IF nFee = 0 /\ rate > 0 THEN rate ELSE nFee

\* CFeeRate::GetFee: round nSize up to a multiple of 1000, scale the rate,
\* and charge at least the rate itself when that comes to zero.
GetFee(rate, nSize) ==
    LET mod    == nSize % 1000
        size   == IF mod > 0 THEN nSize - mod + 1000 ELSE nSize
        nFee   == ToSigned(ToUnsigned(rate * size) \div 1000)
    IN  IF nFee = 0 /\ rate > 0 THEN rate ELSE nFee

Init ==
    /\ nSilviosPerK = 0          \* CFeeRate()
    /\ query = NoQuery
    /\ paid = NoQuery

\* Assignment from CFeeRate(nFeePaid, nSize).
FromPaid(nFeePaid, nSize) ==
    /\ nSilviosPerK' = RateFromPaid(nFeePaid, nSize)
    /\ paid' = [fee |-> nFeePaid, size |-> nSize]
    /\ UNCHANGED query

\* Assignment from the explicit CFeeRate(_nSilviosPerK).
FromRate(k) ==
    /\ nSilviosPerK' = k
    /\ paid' = NoQuery
    /\ UNCHANGED query

\* GetFee(nSize), and GetFeePerK() as GetFee(1000).
QueryFee(nSize) ==
    /\ query' = [rate |-> nSilviosPerK, size |-> nSize,
                  fee |-> GetFee(nSilviosPerK, nSize)]
    /\ UNCHANGED <<nSilviosPerK, paid>>

Next ==
    \/ \E f \in Fees, s \in Sizes : FromPaid(f, s)
    \/ \E k \in Fees : FromRate(k)
    \/ \E s \in Sizes \cup {1000} : QueryFee(s)

Spec == Init /\ [][Next]_vars

TypeOK ==
    /\ nSilviosPerK \in Nat
    /\ query \in [rate : Nat, size : Nat, fee : Nat] \cup {NoQuery}
    /\ paid \in [fee : Fees, size : Sizes] \cup {NoQuery}

\* The kilobytes a size starts: ceil(size / 1000).
StartedKB(nSize) == (nSize + 999) \div 1000

\* GetFee charges the rate once for every kilobyte the size starts, and a
\* positive rate at least once (the nFee == 0 bump in GetFee).
ChargesStartedKilobytes ==
    query # NoQuery =>
        query.fee = query.rate *
                    (IF query.rate > 0 /\ StartedKB(query.size) = 0
                     THEN 1 ELSE StartedKB(query.size))

\* Signed int64 division, which truncates toward zero.
TruncDiv(a, b) == IF a >= 0 THEN a \div b ELSE -((-a) \div b)

\* A rate made from a paid fee is that fee per 1000 bytes as a signed
\* division gives it (CFeeRate(nFeePaid, nSize) in amount.cpp): in
\* particular a negative fee, as a negative prioritisetransaction delta
\* can make it, yields a negative rate and not a huge positive one.
RateFollowsPaid ==
    paid # NoQuery =>
        nSilviosPerK = IF paid.size > 0
                       THEN TruncDiv(paid.fee * 1000, paid.size) ELSE 0
================================================================================
