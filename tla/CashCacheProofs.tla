-------------------------- MODULE CashCacheProofs --------------------------
(***************************************************************************)
(* Proofs about the layered UTXO cache of CashCache, for every value of    *)
(* the constants that ConstantsAssumption admits.                          *)
(***************************************************************************)
EXTENDS CashCache, TLAPS, WellFoundedInduction

(***************************************************************************)
(* A non-empty set of naturals bounded by d has a greatest element; the    *)
(* CHOOSE in Highest (the search of Holder and of GetBestBlock for the     *)
(* highest layer that knows an outpoint or a block) therefore finds one.  *)
(***************************************************************************)
LEMMA MaxExists ==
    ASSUME NEW S \in SUBSET Nat, S # {}, NEW d \in Nat, \A i \in S : i <= d
    PROVE  \E m \in S : \A i \in S : i <= m
<1> DEFINE T == {d - i : i \in S}
<1>1. T \subseteq Nat /\ T # {}
  <2>1. \A i \in S : d - i \in Nat
    OBVIOUS
  <2> QED
    BY <2>1
<1>2. \E x \in T : \A y \in T : ~(<<y, x>> \in OpToRel(<, Nat))
  BY <1>1, NatLessThanWellFounded, WFMin
<1>3. PICK x \in T : \A y \in T : ~(<<y, x>> \in OpToRel(<, Nat))
  BY <1>2
<1>4. PICK m \in S : x = d - m
  OBVIOUS
<1>5. \A i \in S : ~(d - i < d - m)
  <2> SUFFICES ASSUME NEW i \in S, d - i < d - m PROVE FALSE
    OBVIOUS
  <2>1. <<d - i, x>> \in OpToRel(<, Nat)
    BY <1>4 DEF OpToRel
  <2> QED
    BY <2>1, <1>3
<1> QED
  BY <1>5

\* What Highest returns on a non-empty set of layers.
LEMMA HighestType ==
    ASSUME NEW S \in SUBSET Nat, S # {}, NEW d \in Nat, \A i \in S : i <= d
    PROVE  /\ Highest(S) \in S
           /\ \A i \in S : i <= Highest(S)
BY MaxExists DEF Highest

(***************************************************************************)
(* Holder(d, o) is 0 or a layer of 1..d that holds an entry for o, and no  *)
(* layer above it up to d holds one.                                       *)
(***************************************************************************)
LEMMA HolderType ==
    ASSUME NEW d \in 0..MaxDepth, NEW o
    PROVE  /\ Holder(d, o) \in 0..d
           /\ Holder(d, o) # 0 => cacheCash[Holder(d, o)][o] # ABSENT
           /\ \A i \in (Holder(d, o) + 1)..d : cacheCash[i][o] = ABSENT
<1> DEFINE H == {i \in 1..d : cacheCash[i][o] # ABSENT}
<1>1. CASE H = {}
  BY <1>1 DEF Holder
<1>2. CASE H # {}
  <2>1. d \in Nat /\ H \in SUBSET Nat /\ \A i \in H : i <= d
    OBVIOUS
  <2>2. Highest(H) \in H /\ \A i \in H : i <= Highest(H)
    BY <1>2, <2>1, HighestType
  <2>3. Holder(d, o) = Highest(H)
    BY <1>2 DEF Holder
  <2>4. Holder(d, o) \in 1..d /\ cacheCash[Holder(d, o)][o] # ABSENT
    BY <2>2, <2>3
  <2>5. \A i \in (Holder(d, o) + 1)..d : cacheCash[i][o] = ABSENT
    BY <2>2, <2>3
  <2> QED
    BY <2>4, <2>5
<1> QED
  BY <1>1, <1>2

\* A read through the stack finds an unspent output or SPENT.
LEMMA ViewAtType ==
    ASSUME TypeOK, NEW d \in 0..MaxDepth, NEW o \in Outpoints
    PROVE  ViewAt(d, o) \in Coin
<1>1. Holder(d, o) \in 0..d /\ (Holder(d, o) # 0 => cacheCash[Holder(d, o)][o] # ABSENT)
  BY HolderType
<1>2. CASE Holder(d, o) = 0
  BY <1>2, ConstantsAssumption DEF ViewAt, BaseCoin, TypeOK, Coin
<1>3. CASE Holder(d, o) # 0
  <2>1. Holder(d, o) \in Layers
    BY <1>1, <1>3, ConstantsAssumption DEF Layers
  <2>2. cacheCash[Holder(d, o)][o] \in Entry
    BY <1>1, <1>3, <2>1 DEF TypeOK
  <2> QED
    BY <1>3, <2>2 DEF ViewAt, Entry
<1> QED
  BY <1>1, <1>2, <1>3

\* FetchCash inserts entries only into layers of the stack.
LEMMA FetchLayersInStack ==
    ASSUME TypeOK, depth >= 1, NEW o, NEW ps
    PROVE  FetchLayers(o, ps) \subseteq 1..depth
<1>1. depth \in Nat /\ Holder(depth, o) \in 0..depth
  BY HolderType DEF TypeOK
<1> QED
  BY <1>1 DEF FetchLayers

\* What FetchCash leaves in the maps and counters of the stack.
LEMMA FetchType ==
    ASSUME TypeOK, depth >= 1, NEW o \in Outpoints, NEW ps
    PROVE  /\ Fetched(o, ps) \in [Layers -> [Outpoints -> Entry \cup {ABSENT}]]
           /\ FetchedUsage(o, ps) \in [Layers -> [Outpoints -> Int]]
           /\ \A i \in Layers : i > depth =>
                 Fetched(o, ps)[i] = EmptyMap /\ FetchedUsage(o, ps)[i] = ZeroUsage
<1>1. FetchEntry(o) \in Entry
  <2>1. ViewAt(depth, o) \in Coin
    BY ViewAtType DEF TypeOK
  <2> QED
    BY <2>1 DEF FetchEntry, Entry
<1>2. DynamicMemoryUsage(FetchEntry(o).coin) \in Nat
  BY <1>1, ConstantsAssumption DEF Entry, Coin, DynamicMemoryUsage
<1>3. FetchLayers(o, ps) \subseteq 1..depth
  BY FetchLayersInStack
<1> QED
  BY <1>1, <1>2, <1>3 DEF Fetched, FetchedUsage, TypeOK

\* The sizes the counters add and subtract are naturals.
LEMMA UsageType ==
    /\ \A c \in Coin : DynamicMemoryUsage(c) \in Nat
    /\ \A e \in Entry \cup {ABSENT} : EntryUsage(e) \in Nat
BY ConstantsAssumption DEF Coin, Entry, DynamicMemoryUsage, EntryUsage

\* No entry is ABSENT.
LEMMA AbsentNotEntry == ABSENT \notin Entry
BY ConstantsAssumption DEF Entry, Coin

\* BatchWrite's merge and SpendCash's result are entries or no entry.
LEMMA EntryResults ==
    ASSUME NEW p \in Entry \cup {ABSENT}, NEW c \in Entry \cup {ABSENT}
    PROVE  /\ MergeEntry(p, c) \in Entry \cup {ABSENT}
           /\ c # ABSENT => SpendResult(c) \in Entry \cup {ABSENT}
BY DEF MergeEntry, SpendResult, Entry, Coin

-----------------------------------------------------------------------------
(* Type correctness, one lemma per operation.                              *)

\* The initial stack (one empty CCashViewCache over an empty base) is well typed.
LEMMA InitType == Init => TypeOK
<1> SUFFICES ASSUME Init PROVE TypeOK
  OBVIOUS
<1>1. EmptyMap \in [Outpoints -> Entry \cup {ABSENT}] /\ ZeroUsage \in [Outpoints -> Int]
  BY DEF EmptyMap, ZeroUsage
<1>2. 1 \in 0..MaxDepth
  BY ConstantsAssumption
<1> QED
  BY <1>1, <1>2 DEF Init, TypeOK, EmptyMap, Coin

\* GetCash, HaveCash and AccessCash keep the types.
LEMMA ReadType ==
    ASSUME TypeOK, NEW o \in Outpoints, NEW ps, CanCall, FetchCash(o, ps)
    PROVE  TypeOK'
<1>1. depth >= 1
  BY DEF CanCall
<1> QED
  BY <1>1, FetchType DEF FetchCash, TypeOK

\* Updating one outpoint of one layer keeps a per-layer map in its type and
\* leaves the other layers alone.
LEMMA LayerUpdate ==
    ASSUME NEW X, NEW F \in [Layers -> [Outpoints -> X]], NEW d \in Layers,
           NEW o \in Outpoints, NEW x \in X
    PROVE  /\ [F EXCEPT ![d][o] = x] \in [Layers -> [Outpoints -> X]]
           /\ \A i \in Layers : i # d => [F EXCEPT ![d][o] = x][i] = F[i]
OBVIOUS

\* SpendCash (fetch, then erase or tombstone) keeps the types.
LEMMA SpendType ==
    ASSUME TypeOK, NEW o \in Outpoints, NEW ps, SpendCash(o, ps)
    PROVE  TypeOK'
<1> DEFINE mid == Fetched(o, ps)
           midU == FetchedUsage(o, ps)
           e == mid[depth][o]
<1>1. depth \in Layers
  BY DEF SpendCash, CanCall, TypeOK, Layers
<1>2. /\ mid \in [Layers -> [Outpoints -> Entry \cup {ABSENT}]]
      /\ midU \in [Layers -> [Outpoints -> Int]]
      /\ \A i \in Layers : i > depth => mid[i] = EmptyMap /\ midU[i] = ZeroUsage
  BY FetchType DEF SpendCash, CanCall
<1>3. UNCHANGED <<hashBlock, depth, baseMap, hashBestBlock, logicError>>
  BY DEF SpendCash
<1>4. CASE e = ABSENT
  <2>1. cacheCash' = mid /\ cachedCashUsage' = midU
    BY <1>4 DEF SpendCash
  <2> QED
    BY <1>2, <1>3, <2>1 DEF TypeOK
<1>5. CASE e # ABSENT
  <2>1. e \in Entry
    BY <1>1, <1>2, <1>5
  <2>2. SpendResult(e) \in Entry \cup {ABSENT}
    BY <2>1 DEF SpendResult, Entry, Coin
  <2>3. DynamicMemoryUsage(e.coin) \in Nat
    BY <2>1, UsageType DEF Entry
  <2>4. midU[depth][o] - DynamicMemoryUsage(e.coin) \in Int
    BY <1>1, <1>2, <2>3
  <2>5. /\ cacheCash' = [mid EXCEPT ![depth][o] = SpendResult(e)]
        /\ cachedCashUsage' = [midU EXCEPT ![depth][o] = midU[depth][o] - DynamicMemoryUsage(e.coin)]
    BY <1>5 DEF SpendCash
  <2> QED
    BY <1>1, <1>2, <1>3, <2>2, <2>4, <2>5, LayerUpdate DEF TypeOK
<1> QED
  BY <1>4, <1>5

\* AddCash of a spendable output over well-typed maps cc and cu (the
\* stack's own, or the ones FetchCash leaves) gives a well-typed stack.
LEMMA AddToType ==
    ASSUME TypeOK, depth \in Layers,
           NEW cc \in [Layers -> [Outpoints -> Entry \cup {ABSENT}]],
           NEW cu \in [Layers -> [Outpoints -> Int]],
           \A i \in Layers : i > depth => cc[i] = EmptyMap /\ cu[i] = ZeroUsage,
           NEW o \in Outpoints, NEW v \in Values, NEW ow \in BOOLEAN,
           AddCashTo(cc, cu, o, v, ow),
           UNCHANGED <<hashBlock, depth, baseMap, hashBestBlock>>
    PROVE  TypeOK'
<1> DEFINE e == cc[depth][o]
           usage == IF e = ABSENT THEN cu[depth][o]
                    ELSE cu[depth][o] - DynamicMemoryUsage(e.coin)
           prior == IF e = ABSENT THEN [coin |-> SPENT, dirty |-> FALSE, fresh |-> FALSE] ELSE e
           new == [coin |-> v, dirty |-> TRUE, fresh |-> prior.fresh \/ AddFresh(prior, ow)]
<1>1. e \in Entry \cup {ABSENT}
  OBVIOUS
<1>2. usage \in Int /\ usage + DynamicMemoryUsage(v) \in Int
  BY <1>1, UsageType DEF Entry, Coin
<1>3. new \in Entry
  BY <1>1 DEF Entry, Coin, AddFresh
<1>4. CASE cacheCash' = cc /\ cachedCashUsage' = [cu EXCEPT ![depth][o] = usage]
           /\ logicError' = TRUE
  <2>1. cachedCashUsage' \in [Layers -> [Outpoints -> Int]]
        /\ \A i \in Layers : i # depth => cachedCashUsage'[i] = cu[i]
    BY <1>2, <1>4, LayerUpdate
  <2> QED
    BY <1>4, <2>1 DEF TypeOK
<1>5. CASE /\ cacheCash' = [cc EXCEPT ![depth][o] = new]
           /\ cachedCashUsage' = [cu EXCEPT ![depth][o] = usage + DynamicMemoryUsage(v)]
           /\ logicError' = logicError
  <2>1. cacheCash' \in [Layers -> [Outpoints -> Entry \cup {ABSENT}]]
        /\ \A i \in Layers : i # depth => cacheCash'[i] = cc[i]
    BY <1>3, <1>5, LayerUpdate
  <2>2. cachedCashUsage' \in [Layers -> [Outpoints -> Int]]
        /\ \A i \in Layers : i # depth => cachedCashUsage'[i] = cu[i]
    BY <1>2, <1>5, LayerUpdate
  <2> QED
    BY <1>5, <2>1, <2>2 DEF TypeOK
<1> QED
  BY <1>4, <1>5 DEF AddCashTo

\* AddCash, returning early, throwing or inserting, keeps the types.
LEMMA AddType ==
    ASSUME TypeOK, NEW o \in Outpoints, NEW v \in Values, NEW ow \in BOOLEAN,
           AddCash(o, v, ow)
    PROVE  TypeOK'
<1>1. CASE AddCashUnspendable(o, v, ow)
  BY <1>1 DEF AddCashUnspendable, vars, TypeOK
<1>2. CASE AddCashSpendable(o, v, ow)
  <2>1. depth \in Layers
    BY <1>2 DEF AddCashSpendable, CanCall, TypeOK, Layers
  <2> QED
    BY <1>2, <2>1, AddToType DEF AddCashSpendable, TypeOK
<1> QED
  BY <1>1, <1>2 DEF AddCash

\* AddCash(tx) of one output, with or without its HaveCash, keeps the types.
LEMMA AddTxType ==
    ASSUME TypeOK, NEW o \in Outpoints, NEW v \in Values, NEW cb \in BOOLEAN,
           NEW chk \in BOOLEAN, NEW ps \in BOOLEAN, AddCashTx(o, v, cb, chk, ps)
    PROVE  TypeOK'
<1> DEFINE cc == IF chk THEN Fetched(o, ps) ELSE cacheCash
           cu == IF chk THEN FetchedUsage(o, ps) ELSE cachedCashUsage
           ow == IF chk THEN cc[depth][o] # ABSENT /\ cc[depth][o].coin # SPENT ELSE cb
<1>1. depth \in Layers /\ depth >= 1
  BY DEF AddCashTx, CanCall, TypeOK, Layers
<1>2. /\ cc \in [Layers -> [Outpoints -> Entry \cup {ABSENT}]]
      /\ cu \in [Layers -> [Outpoints -> Int]]
      /\ \A i \in Layers : i > depth => cc[i] = EmptyMap /\ cu[i] = ZeroUsage
  BY <1>1, FetchType DEF TypeOK
<1>3. UNCHANGED <<hashBlock, depth, baseMap, hashBestBlock>>
  BY DEF AddCashTx
<1>4. CASE v \in Unspendable
  <2>1. cacheCash' = cc /\ cachedCashUsage' = cu /\ UNCHANGED logicError
    BY <1>4 DEF AddCashTx
  <2> QED
    BY <1>2, <1>3, <2>1 DEF TypeOK
<1>5. CASE v \notin Unspendable
  <2>1. AddCashTo(cc, cu, o, v, ow) /\ ow \in BOOLEAN
    BY <1>5 DEF AddCashTx
  <2> QED
    BY <1>1, <1>2, <1>3, <2>1, AddToType
<1> QED
  BY <1>4, <1>5

\* Uncache of an unflagged entry keeps the types.
LEMMA UncacheType ==
    ASSUME TypeOK, NEW i \in Layers, NEW o \in Outpoints, Uncache(i, o)
    PROVE  TypeOK'
<1>1. cacheCash[i][o] \in Entry /\ i <= depth
  BY DEF Uncache, TypeOK
<1>2. cachedCashUsage[i][o] - DynamicMemoryUsage(cacheCash[i][o].coin) \in Int
  BY <1>1, UsageType DEF TypeOK, Entry
<1>3. cacheCash' \in [Layers -> [Outpoints -> Entry \cup {ABSENT}]]
      /\ \A k \in Layers : k # i => cacheCash'[k] = cacheCash[k]
  BY LayerUpdate DEF Uncache, TypeOK
<1>4. cachedCashUsage' \in [Layers -> [Outpoints -> Int]]
      /\ \A k \in Layers : k # i => cachedCashUsage'[k] = cachedCashUsage[k]
  BY <1>2, LayerUpdate DEF Uncache, TypeOK
<1> QED
  BY <1>1, <1>3, <1>4 DEF Uncache, TypeOK

\* SetBestBlock keeps the types.
LEMMA SetBestBlockType ==
    ASSUME TypeOK, NEW b \in Blocks, SetBestBlock(b)
    PROVE  TypeOK'
BY DEF SetBestBlock, CanCall, TypeOK, Layers

\* GetBestBlock's lazy pull of the best block through the stack keeps the types.
LEMMA GetBestBlockType ==
    ASSUME TypeOK, GetBestBlock
    PROVE  TypeOK'
<1> DEFINE known == {i \in 1..depth : hashBlock[i] # NullHash}
           k == IF known = {} THEN 0 ELSE Highest(known)
           h == IF k = 0 THEN hashBestBlock ELSE hashBlock[k]
<1>1. depth \in Nat /\ known \in SUBSET Nat /\ \A i \in known : i <= depth
  BY DEF TypeOK
<1>2. k \in 0..depth
  BY <1>1, HighestType
<1>3. h \in Blocks \cup {NullHash}
  <2>1. CASE k = 0
    BY <2>1 DEF TypeOK
  <2>2. CASE k # 0
    <3>1. k \in Layers
      <4>1. depth \in 0..MaxDepth /\ k \in 1..depth
        BY <1>2, <2>2 DEF TypeOK
      <4> QED
        BY <4>1, ConstantsAssumption DEF Layers
    <3> QED
      BY <2>2, <3>1 DEF TypeOK
  <2> QED
    BY <2>1, <2>2
<1>4. hashBlock' = [i \in Layers |-> IF i \in (k+1)..depth THEN h ELSE hashBlock[i]]
  BY DEF GetBestBlock
<1>5. hashBlock' \in [Layers -> Blocks \cup {NullHash}]
  BY <1>3, <1>4 DEF TypeOK
<1>6. \A i \in Layers : i > depth => hashBlock'[i] = hashBlock[i]
  BY <1>1, <1>2, <1>4 DEF Layers
<1>7. UNCHANGED <<cacheCash, cachedCashUsage, depth, baseMap, hashBestBlock, logicError>>
  BY DEF GetBestBlock
<1> QED
  BY <1>5, <1>6, <1>7 DEF TypeOK

\* A merge of layer ci into layer pi gives a map and a counter of the right type.
LEMMA MergeType ==
    ASSUME TypeOK, NEW pi \in Layers, NEW ci \in Layers, NEW P
    PROVE  /\ Merged(pi, ci, P) \in [Outpoints -> Entry \cup {ABSENT}]
           /\ MergedUsage(pi, ci, P) \in [Outpoints -> Int]
<1>1. \A o \in Outpoints : MergeEntry(cacheCash[pi][o], cacheCash[ci][o]) \in Entry \cup {ABSENT}
  <2> TAKE o \in Outpoints
  <2>1. cacheCash[pi][o] \in Entry \cup {ABSENT} /\ cacheCash[ci][o] \in Entry \cup {ABSENT}
    BY DEF TypeOK
  <2> QED
    BY <2>1, EntryResults
<1>2. \A o \in Outpoints :
        /\ EntryUsage(cacheCash[pi][o]) \in Nat
        /\ EntryUsage(MergeEntry(cacheCash[pi][o], cacheCash[ci][o])) \in Nat
  BY <1>1, UsageType DEF TypeOK
<1> QED
  BY <1>1, <1>2 DEF Merged, MergedUsage, TypeOK

\* Flush of layer 1 into the base view keeps the types.
LEMMA FlushToBaseType ==
    ASSUME TypeOK, NEW E, FlushToBase(E)
    PROVE  TypeOK'
<1>1. 1 \in Layers /\ 1 <= depth
  BY ConstantsAssumption DEF FlushToBase, CanCall, TypeOK, Layers
<1>2. baseMap' \in [Outpoints -> Coin \cup {ABSENT}]
  <2>1. cacheCash[1] \in [Outpoints -> Entry \cup {ABSENT}]
    BY <1>1 DEF TypeOK
  <2> QED
    BY <2>1 DEF FlushToBase, TypeOK, Entry
<1>3. hashBestBlock' \in Blocks \cup {NullHash}
  BY <1>1 DEF FlushToBase, TypeOK
<1>4. /\ cacheCash' \in [Layers -> [Outpoints -> Entry \cup {ABSENT}]]
      /\ cachedCashUsage' \in [Layers -> [Outpoints -> Int]]
      /\ \A i \in Layers : i > depth => cacheCash'[i] = cacheCash[i]
                                        /\ cachedCashUsage'[i] = cachedCashUsage[i]
  BY <1>1 DEF FlushToBase, TypeOK, EmptyMap, ZeroUsage
<1> QED
  BY <1>2, <1>3, <1>4 DEF FlushToBase, TypeOK

\* Flush of a cache layer into the layer below keeps the types.
LEMMA FlushToCacheType ==
    ASSUME TypeOK, NEW i \in Layers, FlushToCache(i)
    PROVE  TypeOK'
<1>1. i - 1 \in Layers /\ i <= depth
  BY ConstantsAssumption DEF FlushToCache, TypeOK, Layers
<1>2. /\ Merged(i-1, i, Outpoints) \in [Outpoints -> Entry \cup {ABSENT}]
      /\ MergedUsage(i-1, i, Outpoints) \in [Outpoints -> Int]
  BY <1>1, MergeType
<1>3. /\ cacheCash' \in [Layers -> [Outpoints -> Entry \cup {ABSENT}]]
      /\ \A k \in Layers : k > depth => cacheCash'[k] = cacheCash[k]
  BY <1>1, <1>2 DEF FlushToCache, TypeOK, EmptyMap
<1>4. /\ cachedCashUsage' \in [Layers -> [Outpoints -> Int]]
      /\ \A k \in Layers : k > depth => cachedCashUsage'[k] = cachedCashUsage[k]
  BY <1>1, <1>2 DEF FlushToCache, TypeOK, ZeroUsage
<1>5. /\ hashBlock' \in [Layers -> Blocks \cup {NullHash}]
      /\ \A k \in Layers : k > depth => hashBlock'[k] = hashBlock[k]
  BY <1>1 DEF FlushToCache, TypeOK
<1> QED
  BY <1>3, <1>4, <1>5 DEF FlushToCache, TypeOK

\* A BatchWrite that throws part-way keeps the types.
LEMMA FlushThrowsType ==
    ASSUME TypeOK, NEW i \in Layers, NEW P, FlushThrows(i, P)
    PROVE  TypeOK'
<1>1. i - 1 \in Layers /\ i <= depth
  BY ConstantsAssumption DEF FlushThrows, TypeOK, Layers
<1>2. /\ Merged(i-1, i, P) \in [Outpoints -> Entry \cup {ABSENT}]
      /\ MergedUsage(i-1, i, P) \in [Outpoints -> Int]
  BY <1>1, MergeType
<1>3. /\ cacheCash' \in [Layers -> [Outpoints -> Entry \cup {ABSENT}]]
      /\ \A k \in Layers : k > depth => cacheCash'[k] = cacheCash[k]
  BY <1>1, <1>2 DEF FlushThrows, TypeOK
<1>4. /\ cachedCashUsage' \in [Layers -> [Outpoints -> Int]]
      /\ \A k \in Layers : k > depth => cachedCashUsage'[k] = cachedCashUsage[k]
  BY <1>1, <1>2 DEF FlushThrows, TypeOK
<1> QED
  BY <1>3, <1>4 DEF FlushThrows, TypeOK

\* Creating a cache layer keeps the types.
LEMMA PushType ==
    ASSUME TypeOK, PushCache
    PROVE  TypeOK'
<1>1. depth' \in 0..MaxDepth /\ depth \in Nat
  BY ConstantsAssumption DEF PushCache, TypeOK
<1>2. \A i \in Layers : i > depth' => i > depth
  BY <1>1 DEF PushCache, Layers
<1> QED
  BY <1>1, <1>2 DEF PushCache, TypeOK

\* Deleting the top layer without a flush keeps the types.
LEMMA DropType ==
    ASSUME TypeOK, DropCache
    PROVE  TypeOK'
<1>1. depth \in Layers /\ depth' \in 0..MaxDepth
  BY ConstantsAssumption DEF DropCache, CanCall, TypeOK, Layers
<1>2. /\ cacheCash' \in [Layers -> [Outpoints -> Entry \cup {ABSENT}]]
      /\ cachedCashUsage' \in [Layers -> [Outpoints -> Int]]
      /\ hashBlock' \in [Layers -> Blocks \cup {NullHash}]
  BY <1>1 DEF DropCache, TypeOK, EmptyMap, ZeroUsage
<1>3. \A i \in Layers : i > depth' =>
          /\ cacheCash'[i] = EmptyMap
          /\ cachedCashUsage'[i] = ZeroUsage
          /\ hashBlock'[i] = NullHash
  <2> TAKE i \in Layers
  <2>1. CASE i = depth
    BY <1>1, <2>1 DEF DropCache, TypeOK
  <2>2. CASE i # depth
    BY <1>1, <2>2 DEF DropCache, TypeOK, Layers
  <2> QED
    BY <2>1, <2>2
<1> QED
  BY <1>1, <1>2, <1>3 DEF DropCache, TypeOK

\* Every step of the stack keeps the types.
LEMMA TypeStep == TypeOK /\ [Next]_vars => TypeOK'
<1> SUFFICES ASSUME TypeOK, [Next]_vars PROVE TypeOK'
  OBVIOUS
<1>1. ASSUME NEW o \in Outpoints, NEW ps \in BOOLEAN,
             GetCash(o, ps) \/ HaveCash(o, ps) \/ AccessCash(o, ps)
      PROVE  TypeOK'
  BY <1>1, ReadType DEF GetCash, HaveCash, AccessCash
<1>2. ASSUME NEW o \in Outpoints, NEW ps \in BOOLEAN, SpendCash(o, ps) PROVE TypeOK'
  BY <1>2, SpendType
<1>3. ASSUME NEW o \in Outpoints, NEW v \in Values, NEW ow \in BOOLEAN, AddCash(o, v, ow)
      PROVE  TypeOK'
  BY <1>3, AddType
<1>11. ASSUME NEW o \in Outpoints, NEW v \in Values, NEW cb \in BOOLEAN, NEW chk \in BOOLEAN,
              NEW ps \in BOOLEAN, AddCashTx(o, v, cb, chk, ps)
       PROVE  TypeOK'
  BY <1>11, AddTxType
<1>4. ASSUME NEW i \in Layers, NEW o \in Outpoints, Uncache(i, o) PROVE TypeOK'
  BY <1>4, UncacheType
<1>5. ASSUME NEW b \in Blocks, SetBestBlock(b) PROVE TypeOK'
  BY <1>5, SetBestBlockType
<1>6. CASE GetBestBlock
  BY <1>6, GetBestBlockType
<1>7. ASSUME NEW i \in Layers, Flush(i) PROVE TypeOK'
  BY <1>7, FlushToBaseType, FlushToCacheType, FlushThrowsType DEF Flush
<1>8. CASE PushCache
  BY <1>8, PushType
<1>9. CASE DropCache
  BY <1>9, DropType
<1>10. CASE UNCHANGED vars
  BY <1>10 DEF vars, TypeOK
<1> QED
  BY <1>1, <1>2, <1>3, <1>4, <1>5, <1>6, <1>7, <1>8, <1>9, <1>10, <1>11 DEF Next

(***************************************************************************)
(* Type correctness of the whole stack: every operation of CCashViewCache  *)
(* and of the base view keeps every entry a Cash record with two flag bits *)
(* or no entry, every counter an integer, the stack within MaxDepth layers,*)
(* and the layers above the top (deleted or not yet created caches) empty. *)
(***************************************************************************)
THEOREM TypeCorrect == Spec => []TypeOK
<1>1. Init => TypeOK
  BY InitType
<1>2. TypeOK /\ [Next]_vars => TypeOK'
  BY TypeStep
<1> QED
  BY <1>1, <1>2, PTL DEF Spec

-----------------------------------------------------------------------------
(***************************************************************************)
(* The usage counter.  The counter of a layer is the sum of per-outpoint   *)
(* contributions, and until a logic error each contribution is exactly the *)
(* DynamicMemoryUsage of the layer's entry for that outpoint: every update *)
(* of cachedCashUsage in cash.cpp sits beside the update of the entry it   *)
(* accounts for.  UsageExact is that pointwise statement; UsageFaithful,   *)
(* the sum form CCashViewCacheTest::SelfTest checks, follows from it.      *)
(***************************************************************************)
UsageExact ==
    ~logicError =>
    \A i \in Layers, o \in Outpoints : cachedCashUsage[i][o] = EntryUsage(cacheCash[i][o])

\* FetchCash inserts entries only where a layer had none.
LEMMA FetchLayersEmpty ==
    ASSUME TypeOK, depth >= 1, NEW o, NEW ps
    PROVE  \A i \in FetchLayers(o, ps) : cacheCash[i][o] = ABSENT
<1>1. /\ Holder(depth, o) \in 0..depth
      /\ \A i \in (Holder(depth, o) + 1)..depth : cacheCash[i][o] = ABSENT
  BY HolderType DEF TypeOK
<1>2. depth \in Nat
  BY DEF TypeOK
<1> QED
  BY <1>1, <1>2 DEF FetchLayers

\* FetchCash keeps every contribution equal to its entry's usage.
LEMMA FetchUsageExact ==
    ASSUME TypeOK, depth >= 1, ~logicError, UsageExact, NEW o \in Outpoints, NEW ps
    PROVE  \A i \in Layers, q \in Outpoints :
              FetchedUsage(o, ps)[i][q] = EntryUsage(Fetched(o, ps)[i][q])
<1> TAKE i \in Layers, q \in Outpoints
<1>1. cachedCashUsage[i][q] = EntryUsage(cacheCash[i][q])
  BY DEF UsageExact
<1>2. CASE i \in FetchLayers(o, ps) /\ q = o
  <2>1. cacheCash[i][o] = ABSENT
    BY <1>2, FetchLayersEmpty
  <2>2. cachedCashUsage[i][o] = 0
    BY <1>1, <1>2, <2>1 DEF EntryUsage
  <2>3. /\ FetchedUsage(o, ps)[i][o] = 0 + DynamicMemoryUsage(FetchEntry(o).coin)
        /\ Fetched(o, ps)[i][o] = FetchEntry(o)
    BY <1>2, <2>2 DEF FetchedUsage, Fetched, TypeOK
  <2>4. FetchEntry(o) # ABSENT /\ DynamicMemoryUsage(FetchEntry(o).coin) \in Nat
    <3>1. ViewAt(depth, o) \in Coin
      BY ViewAtType DEF TypeOK
    <3>2. FetchEntry(o) \in Entry
      BY <3>1 DEF FetchEntry, Entry
    <3> QED
      BY <3>2, AbsentNotEntry, UsageType DEF Entry
  <2> QED
    BY <1>2, <2>3, <2>4 DEF EntryUsage
<1>3. CASE ~(i \in FetchLayers(o, ps) /\ q = o)
  BY <1>1, <1>3 DEF FetchedUsage, Fetched, TypeOK
<1> QED
  BY <1>2, <1>3

\* An emptied layer (EmptyMap with a ZeroUsage counter) accounts exactly.
LEMMA EmptyExact ==
    \A o \in Outpoints : ZeroUsage[o] = EntryUsage(EmptyMap[o])
BY DEF ZeroUsage, EmptyMap, EntryUsage

\* The counters of the initial, empty layers account exactly.
LEMMA InitUsage == Init => UsageExact
BY EmptyExact DEF Init, UsageExact

\* GetCash, HaveCash and AccessCash keep the counters exact.
LEMMA ReadUsage ==
    ASSUME TypeOK, UsageExact, NEW o \in Outpoints, NEW ps, CanCall, FetchCash(o, ps)
    PROVE  UsageExact'
BY FetchUsageExact DEF CanCall, FetchCash, UsageExact

\* SpendCash takes exactly the spent record's size off the counter.
LEMMA SpendUsage ==
    ASSUME TypeOK, UsageExact, NEW o \in Outpoints, NEW ps, SpendCash(o, ps)
    PROVE  UsageExact'
<1> DEFINE mid == Fetched(o, ps)
           midU == FetchedUsage(o, ps)
           e == mid[depth][o]
<1>1. depth \in Layers /\ depth >= 1 /\ ~logicError /\ UNCHANGED logicError
  BY DEF SpendCash, CanCall, TypeOK, Layers
<1>2. \A i \in Layers, q \in Outpoints : midU[i][q] = EntryUsage(mid[i][q])
  BY <1>1, FetchUsageExact
<1>3. /\ mid \in [Layers -> [Outpoints -> Entry \cup {ABSENT}]]
      /\ midU \in [Layers -> [Outpoints -> Int]]
  BY <1>1, FetchType
<1>4. CASE e = ABSENT
  BY <1>2, <1>4 DEF SpendCash, UsageExact
<1>5. CASE e # ABSENT
  <2>1. e \in Entry
    BY <1>1, <1>3, <1>5
  <2>2. midU[depth][o] - DynamicMemoryUsage(e.coin) = 0
    BY <1>1, <1>2, <1>5, <2>1, UsageType DEF EntryUsage, Entry
  <2>3. EntryUsage(SpendResult(e)) = 0
    BY <2>1 DEF SpendResult, EntryUsage, DynamicMemoryUsage
  <2>4. /\ cacheCash' = [mid EXCEPT ![depth][o] = SpendResult(e)]
        /\ cachedCashUsage' = [midU EXCEPT ![depth][o] = midU[depth][o] - DynamicMemoryUsage(e.coin)]
    BY <1>5 DEF SpendCash
  <2> QED
    BY <1>1, <1>2, <1>3, <2>2, <2>3, <2>4 DEF UsageExact
<1> QED
  BY <1>4, <1>5

\* AddCash of a spendable output over maps cc and cu that account exactly
\* leaves exact counters, unless it throws.
LEMMA AddToUsage ==
    ASSUME depth \in Layers,
           NEW cc \in [Layers -> [Outpoints -> Entry \cup {ABSENT}]],
           NEW cu \in [Layers -> [Outpoints -> Int]],
           \A i \in Layers, q \in Outpoints : cu[i][q] = EntryUsage(cc[i][q]),
           NEW o \in Outpoints, NEW v \in Values, NEW ow \in BOOLEAN,
           AddCashTo(cc, cu, o, v, ow)
    PROVE  UsageExact'
<1> DEFINE e == cc[depth][o]
           usage == IF e = ABSENT THEN cu[depth][o]
                    ELSE cu[depth][o] - DynamicMemoryUsage(e.coin)
           prior == IF e = ABSENT THEN [coin |-> SPENT, dirty |-> FALSE, fresh |-> FALSE] ELSE e
           new == [coin |-> v, dirty |-> TRUE, fresh |-> prior.fresh \/ AddFresh(prior, ow)]
<1>1. e \in Entry \cup {ABSENT} /\ cu[depth][o] = EntryUsage(e)
  OBVIOUS
<1>2. usage = 0
  BY <1>1, UsageType DEF EntryUsage, Entry
<1>3. EntryUsage(new) = DynamicMemoryUsage(v) /\ DynamicMemoryUsage(v) \in Nat
  <2>1. prior.fresh \in BOOLEAN
    BY <1>1 DEF Entry
  <2>2. new \in Entry
    BY <2>1 DEF Entry, Coin, AddFresh
  <2>3. new # ABSENT
    BY <2>2, AbsentNotEntry
  <2> QED
    BY <2>3, UsageType DEF EntryUsage, Coin
<1>4. CASE logicError' = TRUE
  BY <1>4 DEF UsageExact
<1>5. CASE /\ cacheCash' = [cc EXCEPT ![depth][o] = new]
           /\ cachedCashUsage' = [cu EXCEPT ![depth][o] = usage + DynamicMemoryUsage(v)]
  BY <1>2, <1>3, <1>5 DEF UsageExact
<1> QED
  BY <1>4, <1>5 DEF AddCashTo

\* AddCash that does not throw replaces the old size by the new one.
LEMMA AddUsage ==
    ASSUME TypeOK, UsageExact, NEW o \in Outpoints, NEW v \in Values, NEW ow \in BOOLEAN,
           AddCash(o, v, ow)
    PROVE  UsageExact'
<1>1. CASE AddCashUnspendable(o, v, ow)
  BY <1>1 DEF AddCashUnspendable, vars, UsageExact
<1>2. CASE AddCashSpendable(o, v, ow)
  <2>1. depth \in Layers /\ ~logicError
    BY <1>2 DEF AddCashSpendable, CanCall, TypeOK, Layers
  <2>2. \A i \in Layers, q \in Outpoints : cachedCashUsage[i][q] = EntryUsage(cacheCash[i][q])
    BY <2>1 DEF UsageExact
  <2>3. AddCashTo(cacheCash, cachedCashUsage, o, v, ow)
    BY <1>2 DEF AddCashSpendable
  <2>4. /\ cacheCash \in [Layers -> [Outpoints -> Entry \cup {ABSENT}]]
        /\ cachedCashUsage \in [Layers -> [Outpoints -> Int]]
    BY DEF TypeOK
  <2> QED
    BY <2>1, <2>2, <2>3, <2>4, AddToUsage
<1> QED
  BY <1>1, <1>2 DEF AddCash

\* AddCash(tx) of one output accounts exactly for what its HaveCash fetched
\* and for what it adds.
LEMMA AddTxUsage ==
    ASSUME TypeOK, UsageExact, NEW o \in Outpoints, NEW v \in Values, NEW cb \in BOOLEAN,
           NEW chk \in BOOLEAN, NEW ps \in BOOLEAN, AddCashTx(o, v, cb, chk, ps)
    PROVE  UsageExact'
<1> DEFINE cc == IF chk THEN Fetched(o, ps) ELSE cacheCash
           cu == IF chk THEN FetchedUsage(o, ps) ELSE cachedCashUsage
           ow == IF chk THEN cc[depth][o] # ABSENT /\ cc[depth][o].coin # SPENT ELSE cb
<1>1. depth \in Layers /\ depth >= 1 /\ ~logicError
  BY DEF AddCashTx, CanCall, TypeOK, Layers
<1>2. /\ cc \in [Layers -> [Outpoints -> Entry \cup {ABSENT}]]
      /\ cu \in [Layers -> [Outpoints -> Int]]
  BY <1>1, FetchType DEF TypeOK
<1>3. \A i \in Layers, q \in Outpoints : cu[i][q] = EntryUsage(cc[i][q])
  <2>1. CASE chk
    BY <1>1, <2>1, FetchUsageExact
  <2>2. CASE ~chk
    BY <1>1, <2>2 DEF UsageExact
  <2> QED
    BY <2>1, <2>2
<1>4. CASE v \in Unspendable
  <2>1. cacheCash' = cc /\ cachedCashUsage' = cu
    BY <1>4 DEF AddCashTx
  <2> QED
    BY <1>3, <2>1 DEF UsageExact
<1>5. CASE v \notin Unspendable
  <2>1. AddCashTo(cc, cu, o, v, ow) /\ ow \in BOOLEAN
    BY <1>5 DEF AddCashTx
  <2> QED
    BY <1>1, <1>2, <1>3, <2>1, AddToUsage
<1> QED
  BY <1>4, <1>5

\* Uncache takes exactly the dropped record's size off the counter.
LEMMA UncacheUsage ==
    ASSUME TypeOK, UsageExact, NEW i \in Layers, NEW o \in Outpoints, Uncache(i, o)
    PROVE  UsageExact'
<1>1. cacheCash[i][o] \in Entry /\ ~logicError
  BY DEF Uncache, TypeOK
<1>2. cachedCashUsage[i][o] - DynamicMemoryUsage(cacheCash[i][o].coin) = 0
  BY <1>1, AbsentNotEntry, UsageType DEF UsageExact, EntryUsage, Entry
<1> QED
  BY <1>2 DEF Uncache, UsageExact, EntryUsage, TypeOK

\* What a merge of layer ci into layer pi leaves in pi accounts exactly.
LEMMA MergeExact ==
    ASSUME TypeOK, UsageExact, ~logicError, NEW pi \in Layers, NEW ci \in Layers, NEW P
    PROVE  \A o \in Outpoints : MergedUsage(pi, ci, P)[o] = EntryUsage(Merged(pi, ci, P)[o])
<1> TAKE o \in Outpoints
<1>1. cachedCashUsage[pi][o] = EntryUsage(cacheCash[pi][o])
  BY DEF UsageExact
<1>2. EntryUsage(cacheCash[pi][o]) \in Nat
      /\ EntryUsage(MergeEntry(cacheCash[pi][o], cacheCash[ci][o])) \in Nat
  <2>1. cacheCash[pi][o] \in Entry \cup {ABSENT} /\ cacheCash[ci][o] \in Entry \cup {ABSENT}
    BY DEF TypeOK
  <2>2. MergeEntry(cacheCash[pi][o], cacheCash[ci][o]) \in Entry \cup {ABSENT}
    BY <2>1, EntryResults
  <2> QED
    BY <2>1, <2>2, UsageType
<1> QED
  BY <1>1, <1>2 DEF MergedUsage, Merged

\* A flush that does not throw leaves both layers' counters exact.
LEMMA FlushUsage ==
    ASSUME TypeOK, UsageExact, NEW i \in Layers, Flush(i)
    PROVE  UsageExact'
<1>1. CASE i = 1 /\ \E E \in SUBSET Outpoints : FlushToBase(E)
  <2>1. 1 \in Layers
    BY ConstantsAssumption DEF Layers
  <2> QED
    BY <1>1, <2>1, EmptyExact DEF FlushToBase, UsageExact, TypeOK
<1>2. CASE FlushToCache(i)
  <2>1. i - 1 \in Layers /\ ~logicError
    BY <1>2, ConstantsAssumption DEF FlushToCache, CanCall, TypeOK, Layers
  <2>2. \A o \in Outpoints :
          MergedUsage(i-1, i, Outpoints)[o] = EntryUsage(Merged(i-1, i, Outpoints)[o])
    BY <2>1, MergeExact
  <2> QED
    BY <1>2, <2>1, <2>2, EmptyExact DEF FlushToCache, UsageExact, TypeOK
<1>3. CASE \E P \in SUBSET Outpoints : FlushThrows(i, P)
  BY <1>3 DEF FlushThrows, UsageExact
<1> QED
  BY <1>1, <1>2, <1>3 DEF Flush

\* Deleting the top layer keeps the counters of the others exact.
LEMMA DropUsage ==
    ASSUME TypeOK, UsageExact, DropCache
    PROVE  UsageExact'
<1>1. depth \in Layers
  BY DEF DropCache, CanCall, TypeOK, Layers
<1> QED
  BY <1>1, EmptyExact DEF DropCache, UsageExact, TypeOK

(***************************************************************************)
(* Spec invariant 5 for every instance: until a logic error is thrown,     *)
(* each layer's cachedCashUsage counter equals the sum of the              *)
(* DynamicMemoryUsage of its entries, whatever sequence of fetches, adds,  *)
(* spends, uncaches, flushes and drops of layers the callers perform.      *)
(***************************************************************************)
THEOREM UsageCorrect == Spec => []UsageFaithful
<1> DEFINE IInv == TypeOK /\ UsageExact
<1>1. Init => IInv
  BY InitType, InitUsage
<1>2. IInv /\ [Next]_vars => UsageExact'
  <2> SUFFICES ASSUME TypeOK, UsageExact, [Next]_vars PROVE UsageExact'
    OBVIOUS
  <2>1. ASSUME NEW o \in Outpoints, NEW ps \in BOOLEAN,
               GetCash(o, ps) \/ HaveCash(o, ps) \/ AccessCash(o, ps)
        PROVE  UsageExact'
    BY <2>1, ReadUsage DEF GetCash, HaveCash, AccessCash
  <2>2. ASSUME NEW o \in Outpoints, NEW ps \in BOOLEAN, SpendCash(o, ps) PROVE UsageExact'
    BY <2>2, SpendUsage
  <2>3. ASSUME NEW o \in Outpoints, NEW v \in Values, NEW ow \in BOOLEAN, AddCash(o, v, ow)
        PROVE  UsageExact'
    BY <2>3, AddUsage
  <2>11. ASSUME NEW o \in Outpoints, NEW v \in Values, NEW cb \in BOOLEAN, NEW chk \in BOOLEAN,
                NEW ps \in BOOLEAN, AddCashTx(o, v, cb, chk, ps)
         PROVE  UsageExact'
    BY <2>11, AddTxUsage
  <2>4. ASSUME NEW i \in Layers, NEW o \in Outpoints, Uncache(i, o) PROVE UsageExact'
    BY <2>4, UncacheUsage
  <2>5. ASSUME NEW b \in Blocks, SetBestBlock(b) PROVE UsageExact'
    BY <2>5 DEF SetBestBlock, UsageExact
  <2>6. CASE GetBestBlock
    BY <2>6 DEF GetBestBlock, UsageExact
  <2>7. ASSUME NEW i \in Layers, Flush(i) PROVE UsageExact'
    BY <2>7, FlushUsage
  <2>8. CASE PushCache
    BY <2>8 DEF PushCache, UsageExact
  <2>9. CASE DropCache
    BY <2>9, DropUsage
  <2>10. CASE UNCHANGED vars
    BY <2>10 DEF vars, UsageExact
  <2> QED
    BY <2>1, <2>2, <2>3, <2>4, <2>5, <2>6, <2>7, <2>8, <2>9, <2>10, <2>11 DEF Next
<1>3. IInv => UsageFaithful
  <2> SUFFICES ASSUME IInv, ~logicError, NEW i \in Layers
               PROVE  CounterValue(i) = SumOver([o \in Outpoints |-> EntryUsage(cacheCash[i][o])])
    BY DEF UsageFaithful
  <2>1. cachedCashUsage[i] = [o \in Outpoints |-> EntryUsage(cacheCash[i][o])]
    BY DEF TypeOK, UsageExact
  <2> QED
    BY <2>1 DEF CounterValue
<1>4. IInv /\ [Next]_vars => IInv'
  BY <1>2, TypeStep
<1> QED
  BY <1>1, <1>3, <1>4, PTL DEF Spec

=============================================================================
