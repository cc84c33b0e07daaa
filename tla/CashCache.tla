----------------------------- MODULE CashCache -----------------------------
(***************************************************************************)
(* The layered UTXO cache of src/cash.cpp: a stack of CCashViewCache      *)
(* layers 1..depth over the CCashViewTest base view of src/cash_tests.cpp. *)
(* Layer i's base is layer i-1; layer 1's base is the base view.  Callers  *)
(* address the top layer (depth), as the simulation tests do; Uncache and  *)
(* Flush may address any layer of the stack.                               *)
(*                                                                         *)
(* A Cash record is abstracted to its output: a member of Values, or the   *)
(* sentinel SPENT for a record whose output is null (Cash::IsSpent).       *)
(* Height and the cashbase bit are not modelled: no operation of the cache *)
(* reads them.  The DIRTY and FRESH bits of CCashCacheEntry::flags are two *)
(* Booleans.                                                               *)
(***************************************************************************)
EXTENDS Integers

CONSTANTS
    Outpoints,      \* the outpoints the run uses (COutPoint)
    Values,         \* the unspent outputs a Cash record may hold
    Unspendable,    \* outputs whose script IsUnspendable() (OP_RETURN)
    ScriptSize,     \* ScriptSize[v]: memusage::DynamicUsage of v's script
    Blocks,         \* block hashes callers may set as best block
    NullHash,       \* uint256(): the null block hash
    SPENT,          \* the output of a spent (null) Cash record
    ABSENT,         \* no entry for an outpoint in a map
    MaxDepth,       \* the largest number of cache layers on the stack
    CallerChecksOverwrite
        \* TRUE: callers pass possible_overwrite = FALSE to AddCash only for
        \* an outpoint the view holds no unspent Cash for (the contract of
        \* AddCash in cash.h; BIP30 for non-cashbase outputs).

ASSUME ConstantsAssumption ==
    /\ Unspendable \subseteq Values
    /\ ScriptSize \in [Values -> Nat]
    /\ NullHash \notin Blocks
    /\ SPENT \notin Values
    /\ ABSENT \notin Values \cup {SPENT}
    /\ ABSENT \notin [coin : Values \cup {SPENT}, dirty : BOOLEAN, fresh : BOOLEAN]
    /\ MaxDepth \in Nat \ {0}
    /\ CallerChecksOverwrite \in BOOLEAN

VARIABLES
    cacheCash,        \* cacheCash[i][o]: the entry of layer i for o, or ABSENT
    cachedCashUsage,  \* cachedCashUsage[i][o]: what layer i's counter holds for o
    hashBlock,        \* hashBlock[i]: layer i's cached best block
    depth,            \* the number of cache layers on the stack
    baseMap,          \* CCashViewTest::map_
    hashBestBlock,    \* CCashViewTest::hashBestBlock_
    logicError        \* a std::logic_error was thrown

vars == <<cacheCash, cachedCashUsage, hashBlock, depth, baseMap,
          hashBestBlock, logicError>>

(***************************************************************************)
(* The counter cachedCashUsage is a single size_t in the code.  Every     *)
(* update of it adds or subtracts the size of one outpoint's record, and   *)
(* Flush resets it to 0, so the model keeps it as the per-outpoint         *)
(* contributions it is the sum of (CounterValue below).                    *)
(***************************************************************************)

Layers == 1..MaxDepth
Coin == Values \cup {SPENT}
Entry == [coin : Coin, dirty : BOOLEAN, fresh : BOOLEAN]
EmptyMap == [o \in Outpoints |-> ABSENT]
ZeroUsage == [o \in Outpoints |-> 0]

\* Cash::DynamicMemoryUsage; a cleared script owns no memory.
DynamicMemoryUsage(c) == IF c = SPENT THEN 0 ELSE ScriptSize[c]

\* The usage an entry contributes to its layer's counter (0 for no entry).
EntryUsage(e) == IF e = ABSENT THEN 0 ELSE DynamicMemoryUsage(e.coin)

\* The sum of an integer-valued function over a finite domain.
SumOver(f) ==
    LET s[S \in SUBSET DOMAIN f] ==
            IF S = {} THEN 0
            ELSE LET x == CHOOSE x \in S : TRUE IN f[x] + s[S \ {x}]
    IN  s[DOMAIN f]

\* The value of layer i's size_t counter.
CounterValue(i) == SumOver(cachedCashUsage[i])

-----------------------------------------------------------------------------
(* Reads through the stack.                                                *)

\* The highest of a non-empty set of layers.
Highest(S) == CHOOSE i \in S : \A m \in S : m <= i

\* The highest layer among 1..d that has an entry for o, 0 if none has.
Holder(d, o) ==
    LET H == {i \in 1..d : cacheCash[i][o] # ABSENT}
    IN  IF H = {} THEN 0 ELSE Highest(H)

\* The output the base view holds for o (an erased or absent one is SPENT).
BaseCoin(o) == IF baseMap[o] = ABSENT THEN SPENT ELSE baseMap[o]

\* The output a read of o through layers d, d-1, ..., 1 and the base finds.
ViewAt(d, o) ==
    LET j == Holder(d, o) IN IF j = 0 THEN BaseCoin(o) ELSE cacheCash[j][o].coin

(***************************************************************************)
(* FetchCash on the top layer.  On a miss it calls base->GetCash, which on *)
(* a cache layer is again FetchCash, so a miss travels down to the highest *)
(* layer j holding an entry, or to the base view.  CCashViewCache::GetCash *)
(* reports only an unspent record, so every layer above j inserts a clean *)
(* copy when j's record is unspent, and none does when it is spent.  The   *)
(* base view holds a spent record only after a BatchWrite that did not     *)
(* erase it; CCashViewTest::GetCash then returns it or reports a miss      *)
(* (pullSpent), and layer 1 inserts it as FRESH.                           *)
(***************************************************************************)
FetchLayers(o, pullSpent) ==
    LET j == Holder(depth, o) IN
    IF j > 0
    THEN IF cacheCash[j][o].coin # SPENT THEN (j+1)..depth ELSE {}
    ELSE IF baseMap[o] \in Values THEN 1..depth
    ELSE IF baseMap[o] = SPENT /\ pullSpent THEN {1}
    ELSE {}

FetchEntry(o) ==
    [coin |-> ViewAt(depth, o), dirty |-> FALSE, fresh |-> ViewAt(depth, o) = SPENT]

Fetched(o, pullSpent) ==
    [i \in Layers |->
        IF i \in FetchLayers(o, pullSpent)
        THEN [cacheCash[i] EXCEPT ![o] = FetchEntry(o)]
        ELSE cacheCash[i]]

FetchedUsage(o, pullSpent) ==
    [i \in Layers |->
        IF i \in FetchLayers(o, pullSpent)
        THEN [cachedCashUsage[i] EXCEPT ![o] = @ + DynamicMemoryUsage(FetchEntry(o).coin)]
        ELSE cachedCashUsage[i]]

FetchCash(o, pullSpent) ==
    /\ cacheCash' = Fetched(o, pullSpent)
    /\ cachedCashUsage' = FetchedUsage(o, pullSpent)
    /\ UNCHANGED <<hashBlock, depth, baseMap, hashBestBlock, logicError>>

-----------------------------------------------------------------------------
(* The operations callers perform on the top layer.                        *)

CanCall == depth >= 1 /\ ~logicError

\* GetCash, HaveCash and AccessCash change the stack only by FetchCash.
GetCash(o, pullSpent) == CanCall /\ FetchCash(o, pullSpent)
HaveCash(o, pullSpent) == CanCall /\ FetchCash(o, pullSpent)
AccessCash(o, pullSpent) == CanCall /\ FetchCash(o, pullSpent)

\* AddCash of an unspendable output returns before touching the map.
AddCashUnspendable(o, v, possibleOverwrite) ==
    /\ CanCall
    /\ v \in Unspendable
    /\ UNCHANGED vars

\* The caller's side of the AddCash contract.
AddCashAllowed(o, possibleOverwrite) ==
    CallerChecksOverwrite => (possibleOverwrite \/ ViewAt(depth, o) = SPENT)

\* Mutants of AddFresh.
AddFreshIgnoresDirty(prior, possibleOverwrite) == ~possibleOverwrite
AddFreshIgnoresOverwrite(prior, possibleOverwrite) == ~prior.dirty

\* AddCash marks the new entry FRESH when no overwrite is possible and the
\* prior entry (the default one emplace inserted, or a spent one) is not DIRTY.
AddFresh(prior, possibleOverwrite) == ~possibleOverwrite /\ ~prior.dirty

(***************************************************************************)
(* AddCash of a spendable output over the maps cc and cu of the stack.    *)
(* emplace inserts a default (spent) entry with no flags when there is    *)
(* none; an existing entry's size is taken off the counter first, and only *)
(* then is the logic error thrown.                                         *)
(***************************************************************************)
AddCashTo(cc, cu, o, v, possibleOverwrite) ==
    LET e        == cc[depth][o]
        inserted == e = ABSENT
        prior    == IF inserted THEN [coin |-> SPENT, dirty |-> FALSE, fresh |-> FALSE] ELSE e
        usage    == IF inserted THEN cu[depth][o]
                    ELSE cu[depth][o] - DynamicMemoryUsage(e.coin)
        fresh    == AddFresh(prior, possibleOverwrite)
    IN
    \/ /\ ~possibleOverwrite /\ prior.coin # SPENT
       /\ cachedCashUsage' = [cu EXCEPT ![depth][o] = usage]
       /\ logicError' = TRUE
       /\ cacheCash' = cc
    \/ /\ possibleOverwrite \/ prior.coin = SPENT
       /\ cacheCash' = [cc EXCEPT ![depth][o] =
                           [coin |-> v, dirty |-> TRUE, fresh |-> prior.fresh \/ fresh]]
       /\ cachedCashUsage' = [cu EXCEPT ![depth][o] = usage + DynamicMemoryUsage(v)]
       /\ UNCHANGED logicError

\* CCashViewCache::AddCash of a spendable output on the top layer.
AddCashSpendable(o, v, possibleOverwrite) ==
    /\ CanCall
    /\ v \in Values \ Unspendable
    /\ AddCashAllowed(o, possibleOverwrite)
    /\ AddCashTo(cacheCash, cachedCashUsage, o, v, possibleOverwrite)
    /\ UNCHANGED <<hashBlock, depth, baseMap, hashBestBlock>>

AddCash(o, v, possibleOverwrite) ==
    \/ AddCashUnspendable(o, v, possibleOverwrite)
    \/ AddCashSpendable(o, v, possibleOverwrite)

\* Mutant of AddCashTx: the two sources of the overwrite flag swapped.
AddCashTxSwapped(o, v, cashBase, check, pullSpent) ==
    LET cc   == IF check THEN Fetched(o, pullSpent) ELSE cacheCash
        cu   == IF check THEN FetchedUsage(o, pullSpent) ELSE cachedCashUsage
        have == cc[depth][o] # ABSENT /\ cc[depth][o].coin # SPENT
        overwrite == IF check THEN cashBase ELSE have
    IN
    /\ CanCall
    /\ AddCashAllowed(o, overwrite)
    /\ IF v \in Unspendable
          THEN cacheCash' = cc /\ cachedCashUsage' = cu /\ UNCHANGED logicError
          ELSE AddCashTo(cc, cu, o, v, overwrite)
    /\ UNCHANGED <<hashBlock, depth, baseMap, hashBestBlock>>

(***************************************************************************)
(* AddCash(cache, tx, nHeight, check) for one output o of value v of a     *)
(* transaction: with check the overwrite flag is HaveCash (whose FetchCash *)
(* stays in the cache), otherwise it is fCashBase.  One outpoint stands    *)
(* for the loop over tx.vout, whose outputs have distinct outpoints.       *)
(***************************************************************************)
AddCashTx(o, v, cashBase, check, pullSpent) ==
    LET cc   == IF check THEN Fetched(o, pullSpent) ELSE cacheCash
        cu   == IF check THEN FetchedUsage(o, pullSpent) ELSE cachedCashUsage
        have == cc[depth][o] # ABSENT /\ cc[depth][o].coin # SPENT
        overwrite == IF check THEN have ELSE cashBase
    IN
    /\ CanCall
    /\ AddCashAllowed(o, overwrite)
    /\ IF v \in Unspendable
          THEN cacheCash' = cc /\ cachedCashUsage' = cu /\ UNCHANGED logicError
          ELSE AddCashTo(cc, cu, o, v, overwrite)
    /\ UNCHANGED <<hashBlock, depth, baseMap, hashBestBlock>>

\* Mutant of SpendResult.
SpendResultAlwaysErase(e) == ABSENT

\* A spent FRESH entry is erased; any other becomes a DIRTY tombstone.
SpendResult(e) ==
    IF e.fresh THEN ABSENT ELSE [coin |-> SPENT, dirty |-> TRUE, fresh |-> e.fresh]

(***************************************************************************)
(* SpendCash: FetchCash, then on a hit take the record's size off the     *)
(* counter and either erase a FRESH entry or leave a DIRTY tombstone.      *)
(***************************************************************************)
SpendCash(o, pullSpent) ==
    LET mid  == Fetched(o, pullSpent)
        midU == FetchedUsage(o, pullSpent)
        e    == mid[depth][o]
    IN
    /\ CanCall
    /\ \/ /\ e = ABSENT
          /\ cacheCash' = mid
          /\ cachedCashUsage' = midU
       \/ /\ e # ABSENT
          /\ cachedCashUsage' = [midU EXCEPT ![depth][o] = @ - DynamicMemoryUsage(e.coin)]
          /\ cacheCash' = [mid EXCEPT ![depth][o] = SpendResult(e)]
    /\ UNCHANGED <<hashBlock, depth, baseMap, hashBestBlock, logicError>>

\* Uncache drops an entry of layer i that has no flags.
Uncache(i, o) ==
    /\ ~logicError
    /\ i \in 1..depth
    /\ cacheCash[i][o] # ABSENT
    /\ ~cacheCash[i][o].dirty /\ ~cacheCash[i][o].fresh
    /\ cachedCashUsage' = [cachedCashUsage EXCEPT ![i][o] =
                              @ - DynamicMemoryUsage(cacheCash[i][o].coin)]
    /\ cacheCash' = [cacheCash EXCEPT ![i][o] = ABSENT]
    /\ UNCHANGED <<hashBlock, depth, baseMap, hashBestBlock, logicError>>

SetBestBlock(b) ==
    /\ CanCall
    /\ hashBlock' = [hashBlock EXCEPT ![depth] = b]
    /\ UNCHANGED <<cacheCash, cachedCashUsage, depth, baseMap, hashBestBlock, logicError>>

(***************************************************************************)
(* GetBestBlock on the top layer: a null hashBlock is filled from          *)
(* base->GetBestBlock(), which on a cache layer does the same, so every    *)
(* layer above the highest one with a non-null hash takes that hash (or    *)
(* the base view's).                                                       *)
(***************************************************************************)
GetBestBlock ==
    LET known == {i \in 1..depth : hashBlock[i] # NullHash}
        k     == IF known = {} THEN 0 ELSE Highest(known)
        h     == IF k = 0 THEN hashBestBlock ELSE hashBlock[k]
    IN
    /\ CanCall
    /\ hashBlock[depth] = NullHash
    /\ hashBlock' = [i \in Layers |-> IF i \in (k+1)..depth THEN h ELSE hashBlock[i]]
    /\ UNCHANGED <<cacheCash, cachedCashUsage, depth, baseMap, hashBestBlock, logicError>>

-----------------------------------------------------------------------------
(* Flush of layer i: base->BatchWrite(cacheCash, hashBlock), then clear.  *)

\* Mutant of MergeEntry.
MergeEntryKeepsClean(p, c) ==
    IF c = ABSENT \/ ~c.dirty THEN p
    ELSE IF p = ABSENT
         THEN IF c.fresh /\ c.coin = SPENT THEN ABSENT
              ELSE [coin |-> c.coin, dirty |-> TRUE, fresh |-> c.fresh]
    ELSE IF p.fresh /\ c.coin = SPENT THEN ABSENT
    ELSE [p EXCEPT !.coin = c.coin]

\* Mutant of MergeEntry.
MergeEntryErasesFresh(p, c) ==
    IF c = ABSENT \/ ~c.dirty THEN p
    ELSE IF p = ABSENT
         THEN IF c.fresh /\ c.coin = SPENT THEN ABSENT
              ELSE [coin |-> c.coin, dirty |-> TRUE, fresh |-> c.fresh]
    ELSE IF p.fresh THEN ABSENT
    ELSE [p EXCEPT !.coin = c.coin, !.dirty = TRUE]

\* The merged parent entry for one outpoint (CCashViewCache::BatchWrite).
MergeEntry(p, c) ==
    IF c = ABSENT \/ ~c.dirty THEN p
    ELSE IF p = ABSENT
         THEN IF c.fresh /\ c.coin = SPENT THEN ABSENT
              ELSE [coin |-> c.coin, dirty |-> TRUE, fresh |-> c.fresh]
    ELSE IF p.fresh /\ c.coin = SPENT THEN ABSENT
    ELSE [p EXCEPT !.coin = c.coin, !.dirty = TRUE]

\* The child entry that makes BatchWrite throw "FRESH flag misapplied".
Misapplied(p, c) ==
    /\ c # ABSENT /\ c.dirty /\ c.fresh
    /\ p # ABSENT /\ p.coin # SPENT

\* Mutant of MergedUsage.
MergedUsageNoSubtract(pi, ci, P) ==
    [o \in Outpoints |->
        IF o \in P
        THEN cachedCashUsage[pi][o]
                 + EntryUsage(MergeEntry(cacheCash[pi][o], cacheCash[ci][o]))
        ELSE cachedCashUsage[pi][o]]

\* The parent's counter after merging the child's entries for the outpoints in P.
MergedUsage(pi, ci, P) ==
    [o \in Outpoints |->
        IF o \in P
        THEN cachedCashUsage[pi][o] - EntryUsage(cacheCash[pi][o])
                 + EntryUsage(MergeEntry(cacheCash[pi][o], cacheCash[ci][o]))
        ELSE cachedCashUsage[pi][o]]

Merged(pi, ci, P) ==
    [o \in Outpoints |->
        IF o \in P THEN MergeEntry(cacheCash[pi][o], cacheCash[ci][o])
        ELSE cacheCash[pi][o]]

\* Flush of layer 1 into CCashViewTest: dirty entries are written, and a
\* written spent record may be erased (eraseSet); a null hash is ignored.
FlushToBase(eraseSet) ==
    LET child == cacheCash[1]
        Dirty == {o \in Outpoints : child[o] # ABSENT /\ child[o].dirty}
    IN
    /\ CanCall
    /\ eraseSet \subseteq {o \in Dirty : child[o].coin = SPENT}
    /\ baseMap' = [o \in Outpoints |->
                     IF o \in eraseSet THEN ABSENT
                     ELSE IF o \in Dirty THEN child[o].coin
                     ELSE baseMap[o]]
    /\ hashBestBlock' = IF hashBlock[1] = NullHash THEN hashBestBlock ELSE hashBlock[1]
    /\ cacheCash' = [cacheCash EXCEPT ![1] = EmptyMap]
    /\ cachedCashUsage' = [cachedCashUsage EXCEPT ![1] = ZeroUsage]
    /\ UNCHANGED <<hashBlock, depth, logicError>>

\* Flush of layer i > 1 into layer i-1 when no entry is misapplied.
FlushToCache(i) ==
    /\ CanCall
    /\ i \in 2..depth
    /\ \A o \in Outpoints : ~Misapplied(cacheCash[i-1][o], cacheCash[i][o])
    /\ cacheCash' = [cacheCash EXCEPT ![i-1] = Merged(i-1, i, Outpoints),
                                      ![i] = EmptyMap]
    /\ cachedCashUsage' = [cachedCashUsage EXCEPT ![i-1] = MergedUsage(i-1, i, Outpoints),
                                                  ![i] = ZeroUsage]
    /\ hashBlock' = [hashBlock EXCEPT ![i-1] = hashBlock[i]]
    /\ UNCHANGED <<depth, baseMap, hashBestBlock, logicError>>

(***************************************************************************)
(* Flush of layer i > 1 that throws.  The map is iterated in the salted    *)
(* hasher's order, so any set P of non-throwing entries may have been      *)
(* merged and erased from the child's map before the throw; the exception  *)
(* leaves Flush before clear(), and the parent's hashBlock is not set.     *)
(***************************************************************************)
FlushThrows(i, P) ==
    LET bad == {o \in Outpoints : Misapplied(cacheCash[i-1][o], cacheCash[i][o])}
    IN
    /\ CanCall
    /\ i \in 2..depth
    /\ bad # {}
    /\ P \subseteq Outpoints \ bad
    /\ cacheCash' = [cacheCash EXCEPT ![i-1] = Merged(i-1, i, P),
                                      ![i] = [o \in Outpoints |->
                                                 IF o \in P THEN ABSENT ELSE @[o]]]
    /\ cachedCashUsage' = [cachedCashUsage EXCEPT ![i-1] = MergedUsage(i-1, i, P)]
    /\ logicError' = TRUE
    /\ UNCHANGED <<hashBlock, depth, baseMap, hashBestBlock>>

Flush(i) ==
    \/ i = 1 /\ \E E \in SUBSET Outpoints : FlushToBase(E)
    \/ FlushToCache(i)
    \/ \E P \in SUBSET Outpoints : FlushThrows(i, P)

-----------------------------------------------------------------------------
(* Growing and shrinking the stack (new / delete of a CCashViewCache).     *)

PushCache ==
    /\ ~logicError
    /\ depth < MaxDepth
    /\ depth' = depth + 1
    /\ UNCHANGED <<cacheCash, cachedCashUsage, hashBlock, baseMap, hashBestBlock, logicError>>

\* Mutant of DropCache.
DropCacheKeepsLayer ==
    /\ CanCall
    /\ depth' = depth - 1
    /\ UNCHANGED <<cacheCash, cachedCashUsage, hashBlock, baseMap, hashBestBlock, logicError>>

\* Deleting the top layer without a flush discards its changes.
DropCache ==
    /\ CanCall
    /\ depth' = depth - 1
    /\ cacheCash' = [cacheCash EXCEPT ![depth] = EmptyMap]
    /\ cachedCashUsage' = [cachedCashUsage EXCEPT ![depth] = ZeroUsage]
    /\ hashBlock' = [hashBlock EXCEPT ![depth] = NullHash]
    /\ UNCHANGED <<baseMap, hashBestBlock, logicError>>

-----------------------------------------------------------------------------
Init ==
    /\ cacheCash = [i \in Layers |-> EmptyMap]
    /\ cachedCashUsage = [i \in Layers |-> ZeroUsage]
    /\ hashBlock = [i \in Layers |-> NullHash]
    /\ depth = 1
    /\ baseMap = EmptyMap
    /\ hashBestBlock = NullHash
    /\ logicError = FALSE

Next ==
    \/ \E o \in Outpoints, ps \in BOOLEAN :
          GetCash(o, ps) \/ HaveCash(o, ps) \/ AccessCash(o, ps) \/ SpendCash(o, ps)
    \/ \E o \in Outpoints, v \in Values, ow \in BOOLEAN : AddCash(o, v, ow)
    \/ \E o \in Outpoints, v \in Values, cb, chk, ps \in BOOLEAN :
          AddCashTx(o, v, cb, chk, ps)
    \/ \E i \in Layers, o \in Outpoints : Uncache(i, o)
    \/ \E b \in Blocks : SetBestBlock(b)
    \/ GetBestBlock
    \/ \E i \in Layers : Flush(i)
    \/ PushCache
    \/ DropCache

Spec == Init /\ [][Next]_vars

-----------------------------------------------------------------------------
(* Properties.                                                             *)

\* Type invariant; the layers above the top are empty (a new layer starts
\* with an empty map, a zero counter and a null best block).
TypeOK ==
    /\ cacheCash \in [Layers -> [Outpoints -> Entry \cup {ABSENT}]]
    /\ cachedCashUsage \in [Layers -> [Outpoints -> Int]]
    /\ hashBlock \in [Layers -> Blocks \cup {NullHash}]
    /\ depth \in 0..MaxDepth
    /\ baseMap \in [Outpoints -> Coin \cup {ABSENT}]
    /\ hashBestBlock \in Blocks \cup {NullHash}
    /\ logicError \in BOOLEAN
    /\ \A i \in Layers : i > depth =>
          /\ cacheCash[i] = EmptyMap
          /\ cachedCashUsage[i] = ZeroUsage
          /\ hashBlock[i] = NullHash

\* Spec invariant 2 (the comment on CCashCacheEntry::FRESH): a FRESH entry of
\* layer i is for an outpoint that the view below layer i holds no unspent
\* Cash for.  AddCash, FetchCash and BatchWrite each set FRESH on their own
\* evidence; a wrong FRESH lets a later SpendCash erase the entry and bring
\* the shadowed output back.
FreshInvariant ==
    \A i \in 1..depth, o \in Outpoints :
        cacheCash[i][o] # ABSENT /\ cacheCash[i][o].fresh => ViewAt(i - 1, o) = SPENT

\* Spec invariant 1: an entry with neither flag is a read-through copy and
\* holds what the view below it holds (Uncache may drop it for that reason).
CleanMatchesParent ==
    \A i \in 1..depth, o \in Outpoints :
        LET e == cacheCash[i][o] IN
        e # ABSENT /\ ~e.dirty /\ ~e.fresh => e.coin = ViewAt(i - 1, o)

\* Spec invariant 5 (what CCashViewCacheTest::SelfTest checks): until a logic
\* error is thrown, each layer's cachedCashUsage counter is the sum of the
\* DynamicMemoryUsage of its entries, across pulls, overwrites, spends,
\* uncaches and merges of any sequence of calls.
UsageFaithful ==
    ~logicError =>
    \A i \in Layers :
        CounterValue(i) = SumOver([o \in Outpoints |-> EntryUsage(cacheCash[i][o])])

\* No std::logic_error is thrown (neither "Adding new cash that replaces
\* non-pruned entry" in AddCash nor "FRESH flag misapplied" in BatchWrite)
\* when callers keep the AddCash contract: the FRESH bits set by every layer
\* never contradict the layers a flush later merges them into.
NoLogicError == ~logicError

\* Spec section 7: a logic error never leaves a partial mutation; the step
\* that throws changes no entry and no counter.
LogicErrorAtomic ==
    [][~logicError /\ logicError' => UNCHANGED <<cacheCash, cachedCashUsage>>]_vars

\* Spec section 7 applied to Flush: when BatchWrite throws "FRESH flag
\* misapplied", no entry of the child has been merged into the parent or
\* erased from the child, whatever order the salted hasher visits them in.
FlushAtomic ==
    [][\A i \in 2..MaxDepth, P \in SUBSET Outpoints :
          FlushThrows(i, P) => UNCHANGED cacheCash]_vars

\* A SpendCash makes the top layer's view of the outpoint spent, whatever the
\* layers below hold, and an AddCash of a spendable output that does not throw
\* makes the view hold that output: erasing an entry instead of leaving a
\* tombstone is right only when FRESH is right.
CallsTakeEffect ==
    [][\A o \in Outpoints :
          /\ (\E ps \in BOOLEAN : SpendCash(o, ps)) => (ViewAt(depth, o))' = SPENT
          /\ \A v \in Values \ Unspendable, ow \in BOOLEAN :
                AddCashSpendable(o, v, ow) /\ ~logicError' => (ViewAt(depth, o))' = v
      ]_vars

(***************************************************************************)
(* The refinement mapping: layer k of the abstract stack is what a read    *)
(* through cache layer k-1 (the base view for k = 1) finds.                *)
(***************************************************************************)
AbsViews == [k \in 1..(depth + 1) |-> [o \in Outpoints |-> ViewAt(k - 1, o)]]

Abstract == INSTANCE UtxoStack WITH views <- AbsViews

\* Read consistency and flush transparency (spec section 8, properties 1
\* and 2): every step of the cache stack is a step of UtxoStack on the views
\* the layers represent.
ImplementsUtxoStack == Abstract!Spec

\* AddCash(tx) never throws when it checks HaveCash first or adds a
\* cashbase (cash.cpp:91): the flag it passes is TRUE whenever the top
\* layer holds an unspent entry, whatever the layers below and the base
\* hold, so the BIP30 duplicate cashbase overwrites instead of throwing.
TxAddNeverThrows ==
    [][\A o \in Outpoints, v \in Values, cb, chk, ps \in BOOLEAN :
          (AddCashTx(o, v, cb, chk, ps) /\ (chk \/ cb)) => ~logicError']_vars

=============================================================================
