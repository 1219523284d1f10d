------------------------- MODULE BreadcrumbsViewCache -------------------------
(***************************************************************************)
(* A stack of CBreadcrumbsViewCache layers (src/src/coins.cpp) over the   *)
(* base view CBreadcrumbsViewTest of src/src/test/coins_tests.cpp, driven *)
(* the way coins_cache_simulation_test and the validation code drive it:  *)
(* entries are modified, flushed and the stack changed only at the tip;   *)
(* reads may go to any layer.  stack[1] sits on the base, stack[i] on      *)
(* stack[i-1]; view index 0 denotes the base.                              *)
(***************************************************************************)
EXTENDS BreadcrumbsRecord, FiniteSets, Functions

CONSTANTS
    Txids,        \* the txids the simulation draws from
    NewRecs,      \* vouts a modifier may assign (CBreadcrumbs built by FromTx)
    MaxOuts,      \* vout positions a Spend may name are 0..MaxOuts-1
    MaxDepth,     \* bound on the number of stacked caches (the test uses 4)
    BlockHashes,  \* block hashes SetBestBlock may be given
    ZeroHash,     \* uint256(0)
    NoEntry,      \* absence of a key in a map
    NotFound,     \* GetBreadcrumbs returned false
    NoTxid,       \* no CBreadcrumbsModifier is alive
    Txs,          \* transactions whose inputs the read helpers look up
    CallTxs       \* those the model also calls a helper on (a subset, to
                  \* keep the runs short; the fills are those of ReadBreadcrumbs)

DIRTY == "DIRTY"
FRESH == "FRESH"

VARIABLES
    mapBase,        \* CBreadcrumbsViewTest::map_
    hashBestBlock,  \* CBreadcrumbsViewTest::hashBestBlock_
    stack,          \* per cache: cacheBreadcrumbs, hashBlock, hasModifier
    modTxid         \* txid the live CBreadcrumbsModifier's iterator points at

vars == <<mapBase, hashBestBlock, stack, modTxid>>

OutValues == UNION {Range(r) : r \in NewRecs}

Vout == BoundedSeq(OutValues \cup {NullOut}, MaxOuts)

\* CBreadcrumbsCacheEntry: the cached record and its DIRTY/FRESH flags.
Entry == [coins : Vout, flags : SUBSET {DIRTY, FRESH}]

\* A CBreadcrumbsViewCache with an empty map, as constructed.
EmptyCache == [cacheBreadcrumbs |-> [t \in Txids |-> NoEntry],
               hashBlock        |-> ZeroHash,
               hasModifier      |-> FALSE]

Top == Len(stack)

TypeOK ==
    /\ mapBase \in [Txids -> Vout \cup {NoEntry}]
    /\ hashBestBlock \in BlockHashes \cup {ZeroHash}
    /\ stack \in Seq([cacheBreadcrumbs : [Txids -> Entry \cup {NoEntry}],
                      hashBlock : BlockHashes \cup {ZeroHash},
                      hasModifier : BOOLEAN])
    /\ Top <= MaxDepth
    /\ modTxid \in Txids \cup {NoTxid}

-----------------------------------------------------------------------------
(* Reads.  A read of layer i returns <<stack after the read, result>>:     *)
(* the const getters of the cache fill the maps of every layer they pass. *)

\* CBreadcrumbsViewTest::GetBreadcrumbs: a pruned entry is reported as
\* missing or as present, at random (hide).
BaseGetBreadcrumbs(t, hide) ==
    IF mapBase[t] = NoEntry \/ (IsPruned(mapBase[t]) /\ hide)
    THEN NotFound ELSE mapBase[t]

\* CBreadcrumbsViewCache::FetchBreadcrumbs at layer i, which for i-1 > 0
\* recurses through base->GetBreadcrumbs into the layer below.
RECURSIVE FetchBreadcrumbs(_, _, _, _)
FetchBreadcrumbs(st, i, t, hide) ==
    IF i = 0 THEN <<st, BaseGetBreadcrumbs(t, hide)>>
    ELSE IF st[i].cacheBreadcrumbs[t] # NoEntry
    THEN <<st, st[i].cacheBreadcrumbs[t].coins>>
    ELSE LET below == FetchBreadcrumbs(st, i - 1, t, hide)
         IN  IF below[2] = NotFound THEN below
             ELSE <<[below[1] EXCEPT ![i].cacheBreadcrumbs[t] =
                        [coins |-> below[2],
                         flags |-> IF IsPruned(below[2]) THEN {FRESH} ELSE {}]],
                    below[2]>>

\* CBreadcrumbsViewCache::GetBestBlock at layer i: a zero hashBlock is
\* replaced by the hash of the view below (and the base's hashBestBlock_).
RECURSIVE GetBestBlockAt(_, _)
GetBestBlockAt(st, i) ==
    IF i = 0 THEN <<st, hashBestBlock>>
    ELSE IF st[i].hashBlock # ZeroHash THEN <<st, st[i].hashBlock>>
    ELSE LET below == GetBestBlockAt(st, i - 1)
         IN  <<[below[1] EXCEPT ![i].hashBlock = below[2]], below[2]>>


-----------------------------------------------------------------------------
(* The read helpers over a transaction tx = [coinbase, vin], vin a         *)
(* sequence of prevouts <<txid, n>>.  Each AccessBreadcrumbs is a          *)
(* FetchBreadcrumbs whose call into the base draws its own hide[j].  A     *)
(* helper returns <<stack after the reads, result>>.                       *)

\* HaveInputs that only checks that the record was found.
HaveInputsAt_NoAvailCheck(st, i, tx, hide) ==
    IF tx.coinbase THEN <<st, TRUE>>
    ELSE LET step(acc, j) ==
               IF ~acc[2] THEN acc
               ELSE LET r == FetchBreadcrumbs(acc[1], i, tx.vin[j][1], hide[j])
                    IN  <<r[1], r[2] # NotFound>>
         IN  FoldLeftDomain(step, <<st, TRUE>>, tx.vin)

\* CBreadcrumbsViewCache::HaveInputs: the inputs are looked up in order and
\* the loop returns false at the first one that is missing or spent.
HaveInputsAt(st, i, tx, hide) ==
    IF tx.coinbase THEN <<st, TRUE>>
    ELSE LET step(acc, j) ==
               IF ~acc[2] THEN acc
               ELSE LET r == FetchBreadcrumbs(acc[1], i, tx.vin[j][1], hide[j])
                    IN  <<r[1], r[2] # NotFound /\ IsAvailable(r[2], tx.vin[j][2])>>
         IN  FoldLeftDomain(step, <<st, TRUE>>, tx.vin)

\* CBreadcrumbsViewCache::GetValueIn: the sum of GetOutputFor over the
\* inputs; GetOutputFor asserts that the output is available.  The result
\* is <<stack, nResult, no assertion failed>>.
GetValueInAt(st, i, tx, hide) ==
    IF tx.coinbase THEN <<st, 0, TRUE>>
    ELSE LET step(acc, j) ==
               LET r  == FetchBreadcrumbs(acc[1], i, tx.vin[j][1], hide[j])
                   ok == r[2] # NotFound /\ IsAvailable(r[2], tx.vin[j][2])
               IN  <<r[1], IF ok THEN acc[2] + r[2][tx.vin[j][2] + 1] ELSE acc[2],
                     acc[3] /\ ok>>
         IN  FoldLeftDomain(step, <<st, 0, TRUE>>, tx.vin)

\* CBreadcrumbsViewCache::GetPriority without the arithmetic (nHeight is
\* not part of this model's records): every input's record is accessed and
\* assert(coins) must hold; spent inputs are skipped.  The result is
\* <<stack, no assertion failed>>.
GetPriorityAt(st, i, tx, hide) ==
    IF tx.coinbase THEN <<st, TRUE>>
    ELSE LET step(acc, j) ==
               LET r == FetchBreadcrumbs(acc[1], i, tx.vin[j][1], hide[j])
               IN  <<r[1], acc[2] /\ r[2] # NotFound>>
         IN  FoldLeftDomain(step, <<st, TRUE>>, tx.vin)

Hides(tx) == [1..Len(tx.vin) -> BOOLEAN]

-----------------------------------------------------------------------------
(* Writes.                                                                 *)

\* CBreadcrumbsViewCache::BatchWrite, the effect on one txid: us is this
\* cache's entry, it the child's.
MergeEntry_EraseNotFresh(us, it) ==
    IF it = NoEntry \/ DIRTY \notin it.flags THEN us
    ELSE IF us = NoEntry
         THEN IF IsPruned(it.coins) THEN NoEntry
              ELSE [coins |-> it.coins, flags |-> {DIRTY, FRESH}]
    ELSE IF IsPruned(it.coins) THEN NoEntry
    ELSE [coins |-> it.coins, flags |-> us.flags \cup {DIRTY}]
MergeEntry(us, it) ==
    IF it = NoEntry \/ DIRTY \notin it.flags THEN us
    ELSE IF us = NoEntry
         THEN IF IsPruned(it.coins) THEN NoEntry
              ELSE [coins |-> it.coins, flags |-> {DIRTY, FRESH}]
    ELSE IF FRESH \in us.flags /\ IsPruned(it.coins) THEN NoEntry
    ELSE [coins |-> it.coins, flags |-> us.flags \cup {DIRTY}]

BatchWrite(us, child, hashBlockIn) ==
    [us EXCEPT !.cacheBreadcrumbs = [t \in Txids |-> MergeEntry(@[t], child[t])],
               !.hashBlock = hashBlockIn]

\* CBreadcrumbsViewTest::BatchWrite: every entry is written; a pruned one
\* may be erased instead (erase names those).
BaseBatchWrite(child, erase) ==
    [t \in Txids |-> IF child[t] = NoEntry THEN mapBase[t]
                     ELSE IF t \in erase THEN NoEntry
                     ELSE child[t].coins]

-----------------------------------------------------------------------------
(* Actions.                                                                *)

Init ==
    /\ mapBase = [t \in Txids |-> NoEntry]
    /\ hashBestBlock = ZeroHash
    /\ stack = <<EmptyCache>>
    /\ modTxid = NoTxid

ModifierAlive == modTxid # NoTxid

\* AccessBreadcrumbs / GetBreadcrumbs / HaveBreadcrumbs on layer i: all
\* three are FetchBreadcrumbs followed by a read of the result.
ReadBreadcrumbs(i, t) ==
    /\ \E hide \in BOOLEAN : stack' = FetchBreadcrumbs(stack, i, t, hide)[1]
    /\ UNCHANGED <<mapBase, hashBestBlock, modTxid>>

\* GetBestBlock on layer i.
GetBestBlock(i) ==
    /\ stack' = GetBestBlockAt(stack, i)[1]
    /\ UNCHANGED <<mapBase, hashBestBlock, modTxid>>

\* SetBestBlock on the tip.
SetBestBlock(h) ==
    /\ Top >= 1
    /\ stack' = [stack EXCEPT ![Top].hashBlock = h]
    /\ UNCHANGED <<mapBase, hashBestBlock, modTxid>>

\* The entry ModifyBreadcrumbs inserts when the cache has none, from what
\* the view below returned: empty and FRESH when it has no record, FRESH
\* when its record is pruned.
NewEntry_FreshAlways(found) ==
    [coins |-> IF found = NotFound THEN Clear ELSE found, flags |-> {FRESH}]
NewEntry_NoFreshWhenMissing(found) ==
    IF found = NotFound THEN [coins |-> Clear, flags |-> {}]
    ELSE [coins |-> found, flags |-> IF IsPruned(found) THEN {FRESH} ELSE {}]
NewEntry(found) ==
    IF found = NotFound THEN [coins |-> Clear, flags |-> {FRESH}]
    ELSE [coins |-> found, flags |-> IF IsPruned(found) THEN {FRESH} ELSE {}]

\* "Assume that whenever ModifyBreadcrumbs is called, the entry will be
\* modified": the entry is marked DIRTY.
MarkDirty_Skipped(entry) == entry
MarkDirty(entry) == [entry EXCEPT !.flags = @ \cup {DIRTY}]

\* ModifyBreadcrumbs(txid) on the tip: insert NewEntry if the cache has no
\* entry, mark it DIRTY and hand out the modifier, whose constructor sets
\* hasModifier.  assert(!hasModifier) is the guard.
ModifyBreadcrumbs(t) ==
    /\ Top >= 1
    /\ ~stack[Top].hasModifier
    /\ \E hide \in BOOLEAN :
         LET have  == stack[Top].cacheBreadcrumbs[t] # NoEntry
             below == FetchBreadcrumbs(stack, Top - 1, t, hide)
             st    == IF have THEN stack ELSE below[1]
             entry == IF have THEN stack[Top].cacheBreadcrumbs[t] ELSE NewEntry(below[2])
         IN  stack' = [st EXCEPT ![Top].cacheBreadcrumbs[t] = MarkDirty(entry),
                                 ![Top].hasModifier = TRUE]
    /\ modTxid' = t
    /\ UNCHANGED <<mapBase, hashBestBlock>>

\* The record the live modifier points at (operator* / operator->).
ModCoins == stack[Top].cacheBreadcrumbs[modTxid].coins

\* A mutation through the live modifier: the record becomes c.
Mutate(c) ==
    /\ ModifierAlive
    /\ stack' = [stack EXCEPT ![Top].cacheBreadcrumbs[modTxid].coins = c]
    /\ UNCHANGED <<mapBase, hashBestBlock, modTxid>>

\* *entry = CBreadcrumbs(tx, nHeight): the record of a new transaction.
ModifierAssign(r) == Mutate(r)

\* entry->Clear().
ModifierClear == Mutate(Clear)

\* entry->Spend(nPos).
ModifierSpend(nPos) == Mutate(Spend(ModCoins, nPos))

\* ~CBreadcrumbsModifier: clear hasModifier, clean the record up and erase
\* the entry when it is FRESH and pruned.
ReleaseModifier ==
    /\ ModifierAlive
    /\ LET e == stack[Top].cacheBreadcrumbs[modTxid]
            c == Cleanup(e.coins)
        IN  stack' = [stack EXCEPT
                ![Top].hasModifier = FALSE,
                ![Top].cacheBreadcrumbs[modTxid] =
                    IF FRESH \in e.flags /\ IsPruned(c) THEN NoEntry
                    ELSE [e EXCEPT !.coins = c]]
    /\ modTxid' = NoTxid
    /\ UNCHANGED <<mapBase, hashBestBlock>>

\* CBreadcrumbsViewCache::Flush of layer i: base->BatchWrite(cacheBreadcrumbs,
\* hashBlock) into the layer below (the test's base for i = 1), then the
\* map is cleared.  Flush checks neither hasModifier nor whether another
\* cache is stacked on layer i.
FlushLayer(i) ==
    LET tip     == stack[i]
        cleared == [stack EXCEPT ![i].cacheBreadcrumbs = [t \in Txids |-> NoEntry]]
    IN  /\ IF i = 1
           THEN /\ \E erase \in SUBSET {t \in Txids : tip.cacheBreadcrumbs[t] # NoEntry
                                           /\ IsPruned(tip.cacheBreadcrumbs[t].coins)} :
                     mapBase' = BaseBatchWrite(tip.cacheBreadcrumbs, erase)
                /\ hashBestBlock' = tip.hashBlock
                /\ stack' = cleared
           ELSE /\ stack' = [cleared EXCEPT ![i - 1] =
                                BatchWrite(@, tip.cacheBreadcrumbs, tip.hashBlock)]
                /\ UNCHANGED <<mapBase, hashBestBlock>>
        /\ UNCHANGED modTxid

\* The test flushes the tip, and only once its modifier is released.
Flush ==
    /\ Top >= 1
    /\ ~ModifierAlive
    /\ FlushLayer(Top)

\* new CBreadcrumbsViewCache(tip): a cache pushed onto the stack.
PushCache_OffByOne ==
    /\ Top <= MaxDepth
    /\ ~ModifierAlive
    /\ stack' = Append(stack, EmptyCache)
    /\ UNCHANGED <<mapBase, hashBestBlock, modTxid>>
PushCache ==
    /\ Top < MaxDepth
    /\ ~ModifierAlive
    /\ stack' = Append(stack, EmptyCache)
    /\ UNCHANGED <<mapBase, hashBestBlock, modTxid>>

\* delete stack.back(): the destructor asserts !hasModifier; what was not
\* flushed is dropped.
DeleteCache ==
    /\ Top >= 1
    /\ ~stack[Top].hasModifier
    /\ stack' = Front(stack)
    /\ UNCHANGED <<mapBase, hashBestBlock, modTxid>>

\* HaveInputs(tx) on layer i: its only effect on the state is the fills.
HaveInputs(i, tx) ==
    /\ \E hide \in Hides(tx) : stack' = HaveInputsAt(stack, i, tx, hide)[1]
    /\ UNCHANGED <<mapBase, hashBestBlock, modTxid>>

\* GetValueIn(tx) on layer i, in the runs where none of its GetOutputFor
\* assertions fires.
GetValueIn(i, tx) ==
    /\ \E hide \in Hides(tx) :
         LET r == GetValueInAt(stack, i, tx, hide)
         IN  r[3] /\ stack' = r[1]
    /\ UNCHANGED <<mapBase, hashBestBlock, modTxid>>

\* GetPriority(tx, nHeight) on layer i, where assert(coins) holds.
GetPriority(i, tx) ==
    /\ \E hide \in Hides(tx) :
         LET r == GetPriorityAt(stack, i, tx, hide)
         IN  r[2] /\ stack' = r[1]
    /\ UNCHANGED <<mapBase, hashBestBlock, modTxid>>

Next ==
    \/ \E i \in 1..Top, t \in Txids : ReadBreadcrumbs(i, t)
    \/ \E tx \in CallTxs : HaveInputs(Top, tx)
    \/ \E tx \in CallTxs : GetValueIn(Top, tx)
    \/ \E tx \in CallTxs : GetPriority(Top, tx)
    \/ \E i \in 1..Top : GetBestBlock(i)
    \/ \E h \in BlockHashes : SetBestBlock(h)
    \/ \E t \in Txids : ModifyBreadcrumbs(t)
    \/ \E r \in NewRecs : ModifierAssign(r)
    \/ ModifierClear
    \/ \E n \in 0..(MaxOuts - 1) : ModifierSpend(n)
    \/ ReleaseModifier
    \/ Flush
    \/ PushCache
    \/ DeleteCache

Spec == Init /\ [][Next]_vars

-----------------------------------------------------------------------------
(* Properties.                                                             *)

\* The record view i presents for t: the entry of the highest layer <= i
\* that has one, else the base's; NotFound when nobody has one.
RECURSIVE ViewAt(_, _)
ViewAt(i, t) ==
    IF i = 0 THEN (IF mapBase[t] = NoEntry THEN NotFound ELSE mapBase[t])
    ELSE IF stack[i].cacheBreadcrumbs[t] # NoEntry
    THEN stack[i].cacheBreadcrumbs[t].coins
    ELSE ViewAt(i - 1, t)

\* A missing record and a pruned one mean the same: no unspent output.
ViewPruned(i, t) == ViewAt(i, t) = NotFound \/ IsPruned(ViewAt(i, t))

\* FRESH, as coins.h documents it: "the parent view does not have this
\* entry (or it is pruned)".  BatchWrite and ~CBreadcrumbsModifier erase
\* a FRESH entry that became pruned instead of passing the deletion down;
\* if the view below still had unspent outputs they would come back.
FreshMeansParentPruned ==
    \A i \in 1..Top, t \in Txids :
        LET e == stack[i].cacheBreadcrumbs[t]
        IN  e # NoEntry /\ FRESH \in e.flags => ViewPruned(i - 1, t)

\* An entry without DIRTY equals the record of the view below (pruned
\* records being equal); BatchWrite skips such entries, so a change held
\* only in a non-DIRTY entry would be lost on Flush.
CleanMeansEqual ==
    \A i \in 1..Top, t \in Txids :
        LET e == stack[i].cacheBreadcrumbs[t]
        IN  e # NoEntry /\ DIRTY \notin e.flags =>
              IF ViewAt(i - 1, t) = NotFound THEN IsPruned(e.coins)
              ELSE RecordEq(e.coins, ViewAt(i - 1, t))

\* The assertion of CBreadcrumbsViewCache::BatchWrite: a DIRTY unpruned
\* entry of a child whose parent has no entry for it is FRESH.  Checked
\* for every layer over a cache, so a Flush of any state never aborts.
BatchWriteFreshAssert ==
    \A i \in 2..Top, t \in Txids :
        LET e == stack[i].cacheBreadcrumbs[t]
        IN  /\ e # NoEntry /\ DIRTY \in e.flags /\ ~IsPruned(e.coins)
            /\ stack[i - 1].cacheBreadcrumbs[t] = NoEntry
            => FRESH \in e.flags

\* The refinement mapping: view k of NestedViews is what layer k-1 of the
\* stack presents, a pruned or missing record read as NotFound.
AbstractViews ==
    [k \in 1..(Top + 1) |->
        [t \in Txids |-> LET v == ViewAt(k - 1, t)
                         IN  IF v # NotFound /\ IsPruned(v) THEN NotFound ELSE v]]

Abstract == INSTANCE NestedViews WITH
    views <- AbstractViews, Recs <- {v \in Vout : ~IsPruned(v)}, Absent <- NotFound

\* The stack implements nested views: reads, fills, the modifier's release
\* and the FRESH/DIRTY shortcuts of BatchWrite never change what any level
\* presents; a mutation changes only the tip's view; Flush publishes the
\* tip's view into the level below; deleting a cache drops its view.
RefinesNestedViews == Abstract!Spec


\* The outputs tx spends are all unspent in the record view i presents.
ViewHasInputs(i, tx) ==
    tx.coinbase \/
    \A j \in 1..Len(tx.vin) :
        LET v == ViewAt(i, tx.vin[j][1])
        IN  v # NotFound /\ IsAvailable(v, tx.vin[j][2])

\* The sum of the values of the outputs tx spends, in view i.
ViewValueIn(i, tx) ==
    IF tx.coinbase THEN 0
    ELSE SumFunction([j \in 1..Len(tx.vin) |->
                        ViewAt(i, tx.vin[j][1])[tx.vin[j][2] + 1]])

\* The validation helpers read through the stack what the stack presents:
\* on every layer, whatever the base answers for pruned records, HaveInputs
\* accepts tx exactly when view i has all its inputs unspent, and then
\* GetValueIn and GetPriority never fail their assertions and GetValueIn
\* returns the sum of the inputs' values.  This ties the first-hit lookup
\* of FetchBreadcrumbs, with fills done by earlier inputs of the same tx,
\* to the nested view, in every state the cache operations reach.
InputReadersAgree ==
    \A i \in 1..Top, tx \in Txs : \A hide \in Hides(tx) :
        /\ HaveInputsAt(stack, i, tx, hide)[2] = ViewHasInputs(i, tx)
        /\ ViewHasInputs(i, tx) =>
              LET v == GetValueInAt(stack, i, tx, hide)
              IN  /\ v[3] /\ v[2] = ViewValueIn(i, tx)
                  /\ GetPriorityAt(stack, i, tx, hide)[2]


\* What GetBestBlock on layer i returns (i = 0: the base's).
BestBlockOf(i) == GetBestBlockAt(stack, i)[2]

\* Flush hands the tip's best block to the layer below: afterwards that
\* layer reports, through GetBestBlock, the block the tip reported before
\* (spec.md 4.4: flush passes the cache's current best block; BatchWrite
\* sets the receiving view's best block to it).
FlushKeepsBestBlock ==
    [][Flush => BestBlockOf(Top - 1)' = BestBlockOf(Top)]_vars

================================================================================
