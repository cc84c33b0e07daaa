--------------------------- MODULE CashCacheFresh ---------------------------
(***************************************************************************)
(* Proofs that the FRESH and clean flags of the cache stack tell the truth *)
(* about the layers below, and that no logic error is thrown, when callers *)
(* keep the AddCash contract (CallerChecksOverwrite).                      *)
(*                                                                         *)
(* The reads of CashCache are restated over explicit maps cc (the layers) *)
(* and bm (the base view), so that one lemma serves the state before a    *)
(* step, the state after it, and the maps an operation builds in between  *)
(* (the FetchCash inside SpendCash and AddCash(tx)).                       *)
(***************************************************************************)
EXTENDS CashCacheProofs

\* Holder and ViewAt of CashCache over the layers cc and the base view bm.
HolderIn(cc, d, o) ==
    LET H == {i \in 1..d : cc[i][o] # ABSENT}
    IN  IF H = {} THEN 0 ELSE Highest(H)

BaseIn(bm, o) == IF bm[o] = ABSENT THEN SPENT ELSE bm[o]

ViewIn(cc, bm, d, o) ==
    LET j == HolderIn(cc, d, o)
    IN  IF j = 0 THEN BaseIn(bm, o) ELSE cc[j][o].coin

\* The entry of layer k for o, if any, is right about the view below it:
\* FRESH only over a spent view, and a clean entry holds that view.
EntryGood(cc, bm, k, o) ==
    LET e == cc[k][o] IN
    e # ABSENT =>
        /\ e.fresh => ViewIn(cc, bm, k - 1, o) = SPENT
        /\ ~e.dirty => e.coin = ViewIn(cc, bm, k - 1, o)

GoodIn(cc, bm, d) == \A k \in 1..d, o \in Outpoints : EntryGood(cc, bm, k, o)

\* The inductive invariant.  A clean entry with the FRESH bit (a spent
\* record CCashViewTest::GetCash returned, inserted by FetchCash) must match
\* the view below as well: CleanMatchesParent alone is not inductive,
\* since Uncache and BatchWrite rely on every clean entry.
IInv ==
    /\ TypeOK
    /\ ~logicError
    /\ GoodIn(cacheCash, baseMap, depth)

\* The layer maps the stack may hold.
Maps == [Layers -> [Outpoints -> Entry \cup {ABSENT}]]

-----------------------------------------------------------------------------
(* Reads through the stack.                                                *)

\* The highest layer of a set is the one every other is below.
LEMMA HighestIs ==
    ASSUME NEW S \in SUBSET Nat, NEW m \in S, \A i \in S : i <= m
    PROVE  Highest(S) = m
<1>1. Highest(S) \in S /\ \A i \in S : i <= Highest(S)
  BY HighestType
<1>2. Highest(S) \in Nat /\ m \in Nat /\ Highest(S) <= m /\ m <= Highest(S)
  BY <1>1
<1> QED
  BY <1>2

\* The layers among i+1..j that hold an entry for o.
Filled(cc, o, i, j) == {k \in (i + 1)..j : cc[k][o] # ABSENT}

\* The highest entry among layers i+1..j, or else a read through layer i.
SplitRead(cc, bm, i, j, o) ==
    IF Filled(cc, o, i, j) = {} THEN ViewIn(cc, bm, i, o)
    ELSE cc[Highest(Filled(cc, o, i, j))][o].coin

\* The highest of a non-empty set of layers in i+1..j.
LEMMA HighestIn ==
    ASSUME NEW i \in Nat, NEW j \in Nat, NEW A \in SUBSET ((i + 1)..j), A # {}
    PROVE  /\ Highest(A) \in A
           /\ \A k \in A : k <= Highest(A)
<1>1. A \in SUBSET Nat /\ \A k \in A : k <= j
  OBVIOUS
<1> QED
  BY <1>1, HighestType

\* A read through layers j, ..., 1 finds the highest entry among layers
\* j, ..., i+1, or else what a read through layers i, ..., 1 finds.
LEMMA ViewSplit ==
    ASSUME NEW cc, NEW bm, NEW i \in Nat, NEW j \in Nat, i <= j, NEW o
    PROVE  ViewIn(cc, bm, j, o) = SplitRead(cc, bm, i, j, o)
<1> DEFINE A == Filled(cc, o, i, j)
           Hi == {k \in 1..i : cc[k][o] # ABSENT}
           Hj == {k \in 1..j : cc[k][o] # ABSENT}
<1>1. Hj = Hi \cup A /\ A \in SUBSET ((i + 1)..j)
  BY DEF Filled
<1>2. CASE A = {}
  <2>1. HolderIn(cc, j, o) = HolderIn(cc, i, o)
    BY <1>1, <1>2 DEF HolderIn
  <2> QED
    BY <1>2, <2>1 DEF ViewIn, SplitRead
<1>3. CASE A # {}
  <2>1. Highest(A) \in A /\ \A k \in A : k <= Highest(A)
    BY <1>1, <1>3, HighestIn
  <2>2. \A k \in Hj : k <= Highest(A)
    BY <1>1, <2>1
  <2>3. Highest(Hj) = Highest(A)
    BY <1>1, <2>1, <2>2, HighestIs
  <2>4. HolderIn(cc, j, o) = Highest(A) /\ Highest(A) # 0
    BY <1>1, <1>3, <2>1, <2>3 DEF HolderIn
  <2> QED
    BY <1>3, <2>4 DEF ViewIn, SplitRead
<1> QED
  BY <1>2, <1>3

\* With no layer, a read finds the base view.
LEMMA ViewBase ==
    ASSUME NEW cc, NEW bm, NEW o
    PROVE  ViewIn(cc, bm, 0, o) = BaseIn(bm, o)
BY DEF ViewIn, HolderIn

\* A read through layer d finds its entry, or reads through layer d-1.
LEMMA ViewStep ==
    ASSUME NEW cc, NEW bm, NEW d \in Nat \ {0}, NEW o
    PROVE  ViewIn(cc, bm, d, o) =
             IF cc[d][o] # ABSENT THEN cc[d][o].coin ELSE ViewIn(cc, bm, d - 1, o)
<1> DEFINE A == Filled(cc, o, d - 1, d)
<1>0. d - 1 \in Nat /\ d \in Nat /\ d - 1 <= d
  OBVIOUS
<1>1. ViewIn(cc, bm, d, o) =
        IF A = {} THEN ViewIn(cc, bm, d - 1, o) ELSE cc[Highest(A)][o].coin
  <2>1. ViewIn(cc, bm, d, o) = SplitRead(cc, bm, d - 1, d, o)
    BY <1>0, ViewSplit
  <2> QED
    BY <2>1 DEF SplitRead
<1>2. CASE cc[d][o] # ABSENT
  <2>1. A = {d}
    BY <1>2 DEF Filled
  <2>2. Highest(A) = d
    BY <2>1, HighestIs
  <2> QED
    BY <1>1, <1>2, <2>1, <2>2
<1>3. CASE cc[d][o] = ABSENT
  <2>1. A = {}
    BY <1>3 DEF Filled
  <2> QED
    BY <1>1, <1>3, <2>1
<1> QED
  BY <1>2, <1>3

\* Two stacks that read the same through layer i and hold the same entries
\* in layers i+1..j read the same through layer j.
LEMMA ViewAbove ==
    ASSUME NEW cc1, NEW bm1, NEW cc2, NEW bm2, NEW i \in Nat, NEW j \in Nat,
           i <= j, NEW o,
           \A k \in (i + 1)..j : cc1[k][o] = cc2[k][o],
           ViewIn(cc1, bm1, i, o) = ViewIn(cc2, bm2, i, o)
    PROVE  ViewIn(cc1, bm1, j, o) = ViewIn(cc2, bm2, j, o)
<1> DEFINE A1 == Filled(cc1, o, i, j)
           A2 == Filled(cc2, o, i, j)
<1>1. A1 = A2 /\ A1 \in SUBSET ((i + 1)..j)
  BY DEF Filled
<1>2. ViewIn(cc1, bm1, j, o) = SplitRead(cc1, bm1, i, j, o)
  BY ViewSplit
<1>3. ViewIn(cc2, bm2, j, o) = SplitRead(cc2, bm2, i, j, o)
  BY ViewSplit
<1>4. A1 # {} => Highest(A1) \in A1
  BY <1>1, HighestIn
<1> QED
  BY <1>1, <1>2, <1>3, <1>4 DEF SplitRead

\* A read through layer d depends only on layers 1..d and the base view.
LEMMA ViewLocal ==
    ASSUME NEW cc1, NEW bm1, NEW cc2, NEW bm2, NEW d \in Nat, NEW o,
           \A k \in 1..d : cc1[k][o] = cc2[k][o],
           BaseIn(bm1, o) = BaseIn(bm2, o)
    PROVE  ViewIn(cc1, bm1, d, o) = ViewIn(cc2, bm2, d, o)
<1>1. ViewIn(cc1, bm1, 0, o) = ViewIn(cc2, bm2, 0, o)
  BY ViewBase
<1> QED
  BY <1>1, ViewAbove

\* A read finds an unspent output or SPENT.
LEMMA ViewInType ==
    ASSUME NEW cc \in Maps, NEW bm \in [Outpoints -> Coin \cup {ABSENT}],
           NEW d \in 0..MaxDepth, NEW o \in Outpoints
    PROVE  ViewIn(cc, bm, d, o) \in Coin
<1> DEFINE A == Filled(cc, o, 0, d)
<1>0. 0 \in Nat /\ d \in Nat /\ 0 <= d
  OBVIOUS
<1>1. ViewIn(cc, bm, d, o) =
        IF A = {} THEN ViewIn(cc, bm, 0, o) ELSE cc[Highest(A)][o].coin
  <2>1. ViewIn(cc, bm, d, o) = SplitRead(cc, bm, 0, d, o)
    BY <1>0, ViewSplit
  <2> QED
    BY <2>1 DEF SplitRead
<1>2. CASE A = {}
  BY <1>1, <1>2, ViewBase, ConstantsAssumption DEF BaseIn, Coin
<1>3. CASE A # {}
  <2>0. 0 \in Nat /\ d \in Nat /\ A \in SUBSET ((0 + 1)..d)
    BY DEF Filled
  <2>1. PICK h \in A : h = Highest(A)
    BY <1>3, <2>0, HighestIn
  <2>2. h \in 1..MaxDepth /\ cc[h][o] # ABSENT
    BY <2>1, ConstantsAssumption DEF Filled
  <2>3. cc[Highest(A)][o] \in Entry
    BY <2>1, <2>2 DEF Maps, Layers
  <2> QED
    BY <1>1, <1>3, <2>3 DEF Entry
<1> QED
  BY <1>2, <1>3

\* ViewAt is the read over the stack's own maps.
LEMMA ViewAtIn ==
    ASSUME NEW d, NEW o
    PROVE  ViewAt(d, o) = ViewIn(cacheCash, baseMap, d, o)
BY DEF ViewAt, ViewIn, Holder, HolderIn, BaseCoin, BaseIn

\* An entry that is unchanged over an unchanged read below it stays right.
LEMMA GoodTransfer ==
    ASSUME NEW cc, NEW bm, NEW cc2, NEW bm2, NEW k, NEW o,
           EntryGood(cc, bm, k, o), cc2[k][o] = cc[k][o],
           ViewIn(cc2, bm2, k - 1, o) = ViewIn(cc, bm, k - 1, o)
    PROVE  EntryGood(cc2, bm2, k, o)
BY DEF EntryGood

-----------------------------------------------------------------------------
(* FetchCash.                                                              *)

\* Every layer from the holder of o up to the top reads what the top reads.
LEMMA HolderView ==
    ASSUME TypeOK, NEW o \in Outpoints, NEW j \in Holder(depth, o)..depth
    PROVE  ViewIn(cacheCash, baseMap, j, o) = ViewAt(depth, o)
<1> DEFINE h == Holder(depth, o)
<1>1. depth \in 0..MaxDepth /\ h \in 0..depth
      /\ \A i \in (h + 1)..depth : cacheCash[i][o] = ABSENT
  BY HolderType DEF TypeOK
<1>2. \A m \in h..depth : ViewIn(cacheCash, baseMap, m, o) = ViewIn(cacheCash, baseMap, h, o)
  <2> SUFFICES ASSUME NEW m \in h..depth
               PROVE  ViewIn(cacheCash, baseMap, m, o) = ViewIn(cacheCash, baseMap, h, o)
    OBVIOUS
  <2>1. h \in Nat /\ m \in Nat /\ h <= m
    BY <1>1
  <2>2. ViewIn(cacheCash, baseMap, m, o) = SplitRead(cacheCash, baseMap, h, m, o)
    BY <2>1, ViewSplit
  <2>3. Filled(cacheCash, o, h, m) = {}
    BY <1>1 DEF Filled
  <2> QED
    BY <2>2, <2>3 DEF SplitRead
<1> QED
  BY <1>1, <1>2, ViewAtIn

\* FetchCash fills the layers h+1..t above the holder h of o, for some t.
LEMMA FetchShape ==
    ASSUME TypeOK, depth >= 1, NEW o \in Outpoints, NEW ps
    PROVE  \E t \in Holder(depth, o)..depth :
              FetchLayers(o, ps) = (Holder(depth, o) + 1)..t
<1> DEFINE h == Holder(depth, o)
<1>1. depth \in 1..MaxDepth /\ h \in 0..depth
  BY HolderType DEF TypeOK
<1>2. CASE h > 0 /\ cacheCash[h][o].coin # SPENT
  <2>1. FetchLayers(o, ps) = (h + 1)..depth
    BY <1>2 DEF FetchLayers
  <2> QED
    BY <1>1, <2>1
<1>3. CASE h > 0 /\ cacheCash[h][o].coin = SPENT
  <2>1. FetchLayers(o, ps) = (h + 1)..h
    BY <1>1, <1>3 DEF FetchLayers
  <2> QED
    BY <1>1, <2>1
<1>4. CASE h = 0 /\ baseMap[o] \in Values
  <2>1. FetchLayers(o, ps) = (h + 1)..depth
    BY <1>4 DEF FetchLayers
  <2> QED
    BY <1>1, <2>1
<1>5. CASE h = 0 /\ baseMap[o] = SPENT /\ ps
  <2>1. FetchLayers(o, ps) = (h + 1)..1
    BY <1>5, ConstantsAssumption DEF FetchLayers
  <2> QED
    BY <1>1, <2>1
<1>6. CASE h = 0 /\ ~(baseMap[o] \in Values) /\ ~(baseMap[o] = SPENT /\ ps)
  <2>1. FetchLayers(o, ps) = (h + 1)..h
    BY <1>6 DEF FetchLayers
  <2> QED
    BY <1>1, <2>1
<1> QED
  BY <1>1, <1>2, <1>3, <1>4, <1>5, <1>6

\* The maps after FetchCash, entry by entry.
LEMMA FetchedAt ==
    ASSUME TypeOK, depth >= 1, NEW o \in Outpoints, NEW ps,
           NEW i \in Layers, NEW x \in Outpoints
    PROVE  Fetched(o, ps)[i][x] =
             IF i \in FetchLayers(o, ps) /\ x = o THEN FetchEntry(o) ELSE cacheCash[i][x]
BY DEF Fetched, TypeOK

\* FetchCash changes no read through any layer of the stack.
LEMMA FetchViews ==
    ASSUME TypeOK, depth >= 1, NEW o \in Outpoints, NEW ps,
           NEW j \in 0..depth, NEW x \in Outpoints
    PROVE  ViewIn(Fetched(o, ps), baseMap, j, x) = ViewIn(cacheCash, baseMap, j, x)
<1> DEFINE cc2 == Fetched(o, ps)
           h == Holder(depth, o)
<1>1. depth \in 1..MaxDepth /\ h \in 0..depth /\ j \in Nat
      /\ \A i \in (h + 1)..depth : cacheCash[i][o] = ABSENT
  BY HolderType, ConstantsAssumption DEF TypeOK
<1>2. PICK t \in h..depth : FetchLayers(o, ps) = (h + 1)..t
  BY FetchShape
<1>3. \A i \in Layers, y \in Outpoints :
         cc2[i][y] = IF i \in (h + 1)..t /\ y = o THEN FetchEntry(o) ELSE cacheCash[i][y]
  <2> SUFFICES ASSUME NEW i \in Layers, NEW y \in Outpoints
               PROVE  cc2[i][y] = IF i \in (h + 1)..t /\ y = o
                                  THEN FetchEntry(o) ELSE cacheCash[i][y]
    OBVIOUS
  <2>1. cc2[i][y] = IF i \in FetchLayers(o, ps) /\ y = o
                    THEN FetchEntry(o) ELSE cacheCash[i][y]
    BY FetchedAt
  <2> QED
    BY <1>2, <2>1
<1>4. \A i \in 1..j : i \in Layers
  BY <1>1, ConstantsAssumption DEF Layers
<1>5. CASE x # o
  BY <1>1, <1>3, <1>4, <1>5, ViewLocal
<1>6. CASE x = o /\ j <= h
  <2>1. \A i \in 1..j : cc2[i][o] = cacheCash[i][o]
    BY <1>1, <1>3, <1>4, <1>6
  <2> QED
    BY <1>1, <1>6, <2>1, ViewLocal
<1>7. CASE x = o /\ j > h
  <2>1. ViewIn(cacheCash, baseMap, j, o) = ViewAt(depth, o)
        /\ ViewIn(cacheCash, baseMap, h, o) = ViewAt(depth, o)
    BY <1>1, <1>7, HolderView
  <2>2. ViewIn(cc2, baseMap, h, o) = ViewIn(cacheCash, baseMap, h, o)
    <3>1. \A i \in 1..h : cc2[i][o] = cacheCash[i][o]
      BY <1>1, <1>3, ConstantsAssumption DEF Layers
    <3> QED
      BY <1>1, <3>1, ViewLocal
  <2>3. h \in Nat /\ h <= j
    BY <1>1, <1>7
  <2>4. ViewIn(cc2, baseMap, j, o) = SplitRead(cc2, baseMap, h, j, o)
    BY <1>1, <2>3, ViewSplit
  <2>5. FetchEntry(o) # ABSENT /\ FetchEntry(o).coin = ViewAt(depth, o)
    <3>1. ViewAt(depth, o) \in Coin
      BY <1>1, ViewAtType
    <3>2. FetchEntry(o) \in Entry
      BY <3>1 DEF FetchEntry, Entry
    <3> QED
      BY <3>2, AbsentNotEntry DEF FetchEntry
  <2>6. Filled(cc2, o, h, j) = {i \in (h + 1)..j : i <= t}
    BY <1>1, <1>3, <1>4, <2>5 DEF Filled, Layers
  <2>7. CASE t = h
    <3>1. Filled(cc2, o, h, j) = {}
      BY <2>6, <2>7, <1>1
    <3> QED
      BY <1>7, <2>1, <2>2, <2>4, <3>1 DEF SplitRead
  <2>8. CASE t # h
    <3> DEFINE m == IF j <= t THEN j ELSE t
    <3>1. m \in Filled(cc2, o, h, j) /\ \A i \in Filled(cc2, o, h, j) : i <= m
      BY <1>1, <1>7, <2>6, <2>8
    <3>2. Highest(Filled(cc2, o, h, j)) = m
      BY <1>1, <2>6, <3>1, HighestIs
    <3>3. cc2[m][o] = FetchEntry(o)
      BY <1>1, <1>3, <1>7, <2>8, ConstantsAssumption DEF Layers
    <3> QED
      BY <1>7, <2>1, <2>4, <2>5, <3>1, <3>2, <3>3 DEF SplitRead
  <2> QED
    BY <2>7, <2>8
<1> QED
  BY <1>1, <1>5, <1>6, <1>7

\* The clean copies FetchCash inserts are right about the layers below.
LEMMA FetchGood ==
    ASSUME TypeOK, depth >= 1, GoodIn(cacheCash, baseMap, depth),
           NEW o \in Outpoints, NEW ps
    PROVE  GoodIn(Fetched(o, ps), baseMap, depth)
<1> DEFINE cc2 == Fetched(o, ps)
           h == Holder(depth, o)
<1> SUFFICES ASSUME NEW k \in 1..depth, NEW x \in Outpoints
             PROVE  EntryGood(cc2, baseMap, k, x)
  BY DEF GoodIn
<1>1. depth \in 1..MaxDepth /\ h \in 0..depth /\ k \in Layers /\ k - 1 \in 0..depth
  BY HolderType, ConstantsAssumption DEF TypeOK, Layers
<1>2. PICK t \in h..depth : FetchLayers(o, ps) = (h + 1)..t
  BY FetchShape
<1>3. cc2[k][x] = IF k \in (h + 1)..t /\ x = o THEN FetchEntry(o) ELSE cacheCash[k][x]
  <2>1. cc2[k][x] = IF k \in FetchLayers(o, ps) /\ x = o
                    THEN FetchEntry(o) ELSE cacheCash[k][x]
    BY <1>1, FetchedAt
  <2> QED
    BY <1>2, <2>1
<1>4. ViewIn(cc2, baseMap, k - 1, x) = ViewIn(cacheCash, baseMap, k - 1, x)
  BY <1>1, FetchViews
<1>5. CASE k \in (h + 1)..t /\ x = o
  <2>1. k - 1 \in h..depth
    BY <1>1, <1>5
  <2>2. ViewIn(cacheCash, baseMap, k - 1, o) = ViewAt(depth, o)
    BY <2>1, HolderView
  <2>3. cc2[k][x] = FetchEntry(o) /\ x = o
    BY <1>3, <1>5
  <2>4. /\ FetchEntry(o).coin = ViewAt(depth, o)
        /\ FetchEntry(o).fresh => ViewAt(depth, o) = SPENT
    BY DEF FetchEntry
  <2> QED
    BY <1>4, <2>2, <2>3, <2>4 DEF EntryGood
<1>6. CASE ~(k \in (h + 1)..t /\ x = o)
  <2>1. EntryGood(cacheCash, baseMap, k, x)
    BY DEF GoodIn
  <2> QED
    BY <1>3, <1>4, <1>6, <2>1, GoodTransfer
<1> QED
  BY <1>5, <1>6

-----------------------------------------------------------------------------
(* AddCash.                                                                *)

\* AddCash over layer maps cc that are right about themselves, called as
\* its contract asks (possible_overwrite, or nothing unspent in the view),
\* does not throw, and the DIRTY entry it writes is FRESH only over a
\* spent view.
LEMMA AddToGood ==
    ASSUME TypeOK, ~logicError, depth \in Layers,
           NEW cc \in Maps, NEW cu, GoodIn(cc, baseMap, depth),
           NEW o \in Outpoints, NEW v \in Values, NEW ow \in BOOLEAN,
           ow \/ ViewIn(cc, baseMap, depth, o) = SPENT,
           AddCashTo(cc, cu, o, v, ow),
           UNCHANGED <<depth, baseMap>>
    PROVE  ~logicError' /\ GoodIn(cacheCash', baseMap', depth')
<1> DEFINE e == cc[depth][o]
           prior == IF e = ABSENT THEN [coin |-> SPENT, dirty |-> FALSE, fresh |-> FALSE] ELSE e
           new == [coin |-> v, dirty |-> TRUE, fresh |-> prior.fresh \/ AddFresh(prior, ow)]
<1>1. depth \in Nat \ {0} /\ depth - 1 \in 0..MaxDepth
  BY ConstantsAssumption DEF Layers
<1>2. ViewIn(cc, baseMap, depth, o) =
        IF e # ABSENT THEN e.coin ELSE ViewIn(cc, baseMap, depth - 1, o)
  BY <1>1, ViewStep
<1>3. e # ABSENT => EntryGood(cc, baseMap, depth, o)
  BY DEF GoodIn, Layers
<1>4. ~(~ow /\ prior.coin # SPENT)
  BY <1>2
<1>5. cacheCash' = [cc EXCEPT ![depth][o] = new] /\ logicError' = logicError
  BY <1>4 DEF AddCashTo
<1>6. new.fresh => ViewIn(cc, baseMap, depth - 1, o) = SPENT
  <2>1. CASE prior.fresh
    BY <1>3, <2>1 DEF EntryGood
  <2>2. CASE ~ow /\ ~prior.dirty
    <3>1. ViewIn(cc, baseMap, depth, o) = SPENT
      BY <2>2
    <3> QED
      BY <1>2, <1>3, <2>2, <3>1 DEF EntryGood
  <2> QED
    BY <2>1, <2>2 DEF AddFresh
<1> SUFFICES ASSUME NEW k \in 1..depth, NEW x \in Outpoints
             PROVE  EntryGood(cacheCash', baseMap, k, x)
  BY <1>5 DEF GoodIn
<1>7. ViewIn(cacheCash', baseMap, k - 1, x) = ViewIn(cc, baseMap, k - 1, x)
  <2>1. \A i \in 1..(k - 1) : cacheCash'[i][x] = cc[i][x]
    BY <1>1, <1>5 DEF Maps, Layers
  <2> QED
    BY <1>1, <2>1, ViewLocal
<1>8. CASE k = depth /\ x = o
  <2>1. cacheCash'[k][x] = new
    BY <1>5, <1>8 DEF Maps, Layers
  <2> QED
    BY <1>6, <1>7, <1>8, <2>1 DEF EntryGood
<1>9. CASE ~(k = depth /\ x = o)
  <2>1. cacheCash'[k][x] = cc[k][x]
    BY <1>1, <1>5, <1>9 DEF Maps, Layers
  <2>2. EntryGood(cc, baseMap, k, x)
    BY DEF GoodIn
  <2> QED
    BY <1>7, <2>1, <2>2, GoodTransfer
<1> QED
  BY <1>8, <1>9

-----------------------------------------------------------------------------
(* The invariant, operation by operation: no logic error, and every entry  *)
(* right about the layers below it.                                        *)

\* What a step must establish besides the types.
GoodNext == ~logicError' /\ GoodIn(cacheCash', baseMap', depth')

\* GetCash, HaveCash and AccessCash.
LEMMA ReadGood ==
    ASSUME IInv, NEW o \in Outpoints, NEW ps, CanCall, FetchCash(o, ps)
    PROVE  GoodNext
BY FetchGood DEF IInv, CanCall, FetchCash, GoodNext

\* AddCash, when callers keep its contract.
LEMMA AddGood ==
    ASSUME IInv, CallerChecksOverwrite, NEW o \in Outpoints, NEW v \in Values,
           NEW ow \in BOOLEAN, AddCash(o, v, ow)
    PROVE  GoodNext
<1>1. CASE AddCashUnspendable(o, v, ow)
  BY <1>1 DEF AddCashUnspendable, IInv, GoodNext, vars
<1>2. CASE AddCashSpendable(o, v, ow)
  <2>1. depth \in Layers /\ cacheCash \in Maps
    BY <1>2, ConstantsAssumption DEF AddCashSpendable, CanCall, IInv, TypeOK, Layers, Maps
  <2>2. ow \/ ViewIn(cacheCash, baseMap, depth, o) = SPENT
    BY <1>2, ViewAtIn DEF AddCashSpendable, AddCashAllowed
  <2> QED
    BY <1>2, <2>1, <2>2, AddToGood DEF AddCashSpendable, IInv, GoodNext
<1> QED
  BY <1>1, <1>2 DEF AddCash

\* AddCash(tx), when callers keep the contract of the AddCash it calls.
LEMMA AddTxGood ==
    ASSUME IInv, CallerChecksOverwrite, NEW o \in Outpoints, NEW v \in Values,
           NEW cb \in BOOLEAN, NEW chk \in BOOLEAN, NEW ps \in BOOLEAN,
           AddCashTx(o, v, cb, chk, ps)
    PROVE  GoodNext
<1> DEFINE cc == IF chk THEN Fetched(o, ps) ELSE cacheCash
           cu == IF chk THEN FetchedUsage(o, ps) ELSE cachedCashUsage
           have == cc[depth][o] # ABSENT /\ cc[depth][o].coin # SPENT
           overwrite == IF chk THEN have ELSE cb
<1>1. /\ CanCall
      /\ AddCashAllowed(o, overwrite)
      /\ IF v \in Unspendable
            THEN cacheCash' = cc /\ cachedCashUsage' = cu /\ UNCHANGED logicError
            ELSE AddCashTo(cc, cu, o, v, overwrite)
      /\ UNCHANGED <<hashBlock, depth, baseMap, hashBestBlock>>
  BY DEF AddCashTx
<1>2. depth \in Layers /\ depth \in 0..MaxDepth /\ ~logicError
  BY <1>1, ConstantsAssumption DEF CanCall, IInv, TypeOK, Layers
<1>3. cc \in Maps /\ GoodIn(cc, baseMap, depth)
  <2>1. CASE chk
    BY <1>1, <1>2, <2>1, FetchType, FetchGood DEF IInv, CanCall, Maps
  <2>2. CASE ~chk
    BY <2>2 DEF IInv, TypeOK, Maps
  <2> QED
    BY <2>1, <2>2
<1>4. ViewIn(cc, baseMap, depth, o) = ViewAt(depth, o)
  <2>1. CASE chk
    BY <1>1, <1>2, <2>1, FetchViews, ViewAtIn DEF IInv, CanCall
  <2>2. CASE ~chk
    BY <2>2, ViewAtIn
  <2> QED
    BY <2>1, <2>2
<1>5. overwrite \in BOOLEAN /\ (overwrite \/ ViewIn(cc, baseMap, depth, o) = SPENT)
  BY <1>1, <1>4 DEF AddCashAllowed
<1>6. CASE v \in Unspendable
  BY <1>1, <1>2, <1>3, <1>6 DEF GoodNext
<1>7. CASE v \notin Unspendable
  BY <1>1, <1>2, <1>3, <1>5, <1>7, AddToGood DEF IInv, GoodNext
<1> QED
  BY <1>6, <1>7

\* SpendCash: the FetchCash, then an erased FRESH entry or a DIRTY tombstone
\* with no FRESH bit, neither of which claims anything about the layers below.
LEMMA SpendGood ==
    ASSUME IInv, NEW o \in Outpoints, NEW ps, SpendCash(o, ps)
    PROVE  GoodNext
<1> DEFINE mid == Fetched(o, ps)
           e == mid[depth][o]
<1>1. depth \in Layers /\ ~logicError /\ TypeOK
  BY ConstantsAssumption DEF SpendCash, CanCall, IInv, TypeOK, Layers
<1>2. mid \in Maps /\ GoodIn(mid, baseMap, depth)
  BY <1>1, FetchType, FetchGood DEF Maps, IInv, Layers
<1>3. UNCHANGED <<depth, baseMap, logicError>>
  BY DEF SpendCash
<1>4. CASE e = ABSENT
  BY <1>1, <1>2, <1>3, <1>4 DEF SpendCash, GoodNext
<1>5. CASE e # ABSENT
  <2>1. cacheCash' = [mid EXCEPT ![depth][o] = SpendResult(e)]
    BY <1>5 DEF SpendCash
  <2>2. SpendResult(e) # ABSENT => SpendResult(e).dirty /\ ~SpendResult(e).fresh
    BY DEF SpendResult
  <2>3. \A i \in Layers, y \in Outpoints :
           cacheCash'[i][y] = IF i = depth /\ y = o THEN SpendResult(e) ELSE mid[i][y]
    BY <2>1, <1>2 DEF Maps
  <2>5. GoodIn(cacheCash', baseMap, depth)
    <3> SUFFICES ASSUME NEW k \in 1..depth, NEW x \in Outpoints
                 PROVE  EntryGood(cacheCash', baseMap, k, x)
      BY DEF GoodIn
    <3>1. depth \in Nat /\ k \in Layers /\ k - 1 \in Nat
      BY <1>1, ConstantsAssumption DEF Layers
    <3>2. ViewIn(cacheCash', baseMap, k - 1, x) = ViewIn(mid, baseMap, k - 1, x)
      <4>1. \A i \in 1..(k - 1) : cacheCash'[i][x] = mid[i][x]
        BY <3>1, <2>3, ConstantsAssumption DEF Layers
      <4> QED
        BY <3>1, <4>1, ViewLocal
    <3>3. CASE k = depth /\ x = o
      <4>1. cacheCash'[k][x] = SpendResult(e)
        BY <3>1, <3>3, <2>3
      <4> QED
        BY <2>2, <4>1 DEF EntryGood
    <3>4. CASE ~(k = depth /\ x = o)
      <4>1. cacheCash'[k][x] = mid[k][x]
        BY <3>1, <3>4, <2>3
      <4>2. EntryGood(mid, baseMap, k, x)
        BY <1>2 DEF GoodIn
      <4> QED
        BY <3>2, <4>1, <4>2, GoodTransfer
    <3> QED
      BY <3>3, <3>4
  <2> QED
    BY <1>1, <1>3, <2>5 DEF GoodNext
<1> QED
  BY <1>4, <1>5
\* Uncache drops a clean entry, which holds what the view below it holds,
\* so no read through any layer changes.
LEMMA UncacheViews ==
    ASSUME IInv, NEW i \in Layers, NEW o \in Outpoints, Uncache(i, o)
    PROVE  \A j \in 0..depth, x \in Outpoints :
              ViewIn(cacheCash', baseMap, j, x) = ViewIn(cacheCash, baseMap, j, x)
<1>1. /\ depth \in Layers /\ depth \in Nat /\ i \in 1..depth /\ i - 1 \in Nat
      /\ cacheCash \in Maps /\ GoodIn(cacheCash, baseMap, depth)
      /\ UNCHANGED <<depth, baseMap, logicError>> /\ ~logicError
  BY ConstantsAssumption DEF Uncache, IInv, TypeOK, Layers, Maps
<1>2. \A l \in Layers, y \in Outpoints :
         cacheCash'[l][y] = IF l = i /\ y = o THEN ABSENT ELSE cacheCash[l][y]
  BY <1>1 DEF Uncache, Maps
<1>3. ASSUME NEW j \in 0..depth, NEW x \in Outpoints
      PROVE  ViewIn(cacheCash', baseMap, j, x) = ViewIn(cacheCash, baseMap, j, x)
  <2>1. j \in Nat /\ \A l \in 1..j : l \in Layers
    BY <1>1, ConstantsAssumption DEF Layers
  <2>2. CASE x # o \/ j < i
    <3>1. \A l \in 1..j : cacheCash'[l][x] = cacheCash[l][x]
      BY <1>1, <1>2, <2>1, <2>2
    <3> QED
      BY <2>1, <3>1, ViewLocal
  <2>3. CASE x = o /\ j >= i
    <3> DEFINE e == cacheCash[i][o]
    <3>1. e # ABSENT /\ ~e.dirty
      BY DEF Uncache
    <3>2. ViewIn(cacheCash', baseMap, i - 1, o) = ViewIn(cacheCash, baseMap, i - 1, o)
      <4>1. \A l \in 1..(i - 1) : cacheCash'[l][o] = cacheCash[l][o]
        BY <1>1, <1>2, ConstantsAssumption DEF Layers
      <4> QED
        BY <1>1, <4>1, ViewLocal
    <3>3. e.coin = ViewIn(cacheCash, baseMap, i - 1, o)
      BY <1>1, <3>1 DEF GoodIn, EntryGood
    <3>4. ViewIn(cacheCash', baseMap, i, o) = ViewIn(cacheCash', baseMap, i - 1, o)
      <4>1. cacheCash'[i][o] = ABSENT
        BY <1>1, <1>2
      <4> QED
        BY <1>1, <4>1, ViewStep
    <3>5. ViewIn(cacheCash, baseMap, i, o) = e.coin
      <4>1. i \in Nat \ {0}
        BY <1>1
      <4>2. ViewIn(cacheCash, baseMap, i, o) =
              IF cacheCash[i][o] # ABSENT THEN cacheCash[i][o].coin
              ELSE ViewIn(cacheCash, baseMap, i - 1, o)
        BY <4>1, ViewStep
      <4> QED
        BY <3>1, <4>2
    <3>6. ViewIn(cacheCash', baseMap, i, o) = ViewIn(cacheCash, baseMap, i, o)
      BY <3>2, <3>3, <3>4, <3>5
    <3>7. \A l \in (i + 1)..j : cacheCash'[l][o] = cacheCash[l][o]
      BY <1>1, <1>2, <2>1
    <3> QED
      BY <1>1, <2>1, <2>3, <3>6, <3>7, ViewAbove
  <2> QED
    BY <2>1, <2>2, <2>3, <1>1
<1> QED
  BY <1>3

\* Uncache drops a clean entry, so it keeps every entry right.
LEMMA UncacheGood ==
    ASSUME IInv, NEW i \in Layers, NEW o \in Outpoints, Uncache(i, o)
    PROVE  GoodNext
<1>1. /\ depth \in Layers /\ depth \in Nat /\ i \in 1..depth /\ i - 1 \in Nat
      /\ cacheCash \in Maps /\ GoodIn(cacheCash, baseMap, depth)
      /\ UNCHANGED <<depth, baseMap, logicError>> /\ ~logicError
  BY ConstantsAssumption DEF Uncache, IInv, TypeOK, Layers, Maps
<1>2. \A l \in Layers, y \in Outpoints :
         cacheCash'[l][y] = IF l = i /\ y = o THEN ABSENT ELSE cacheCash[l][y]
  BY <1>1 DEF Uncache, Maps
<1>3. \A j \in 0..depth, x \in Outpoints :
         ViewIn(cacheCash', baseMap, j, x) = ViewIn(cacheCash, baseMap, j, x)
  BY UncacheViews
<1>4. ASSUME NEW k \in 1..depth, NEW x \in Outpoints
      PROVE  EntryGood(cacheCash', baseMap, k, x)
  <2>1. k \in Layers /\ k - 1 \in 0..depth
    BY <1>1, ConstantsAssumption DEF Layers
  <2>2. CASE k = i /\ x = o
    BY <1>2, <2>1, <2>2 DEF EntryGood
  <2>3. CASE ~(k = i /\ x = o)
    <3>1. cacheCash'[k][x] = cacheCash[k][x]
      BY <1>2, <2>1, <2>3
    <3>2. ViewIn(cacheCash', baseMap, k - 1, x) = ViewIn(cacheCash, baseMap, k - 1, x)
      BY <1>3, <2>1
    <3>3. EntryGood(cacheCash, baseMap, k, x)
      BY <1>1 DEF GoodIn
    <3> QED
      BY <3>1, <3>2, <3>3, GoodTransfer
  <2> QED
    BY <2>2, <2>3
<1> QED
  BY <1>1, <1>4 DEF GoodNext, GoodIn

\* The best-block calls touch no entry.
LEMMA BestBlockGood ==
    ASSUME IInv, \/ \E b \in Blocks : SetBestBlock(b)
                 \/ GetBestBlock
    PROVE  GoodNext
BY DEF SetBestBlock, GetBestBlock, IInv, GoodNext

\* A new layer is empty, so it claims nothing.
LEMMA PushGood ==
    ASSUME IInv, PushCache
    PROVE  GoodNext
<1>1. depth \in 0..MaxDepth /\ depth < MaxDepth /\ depth' = depth + 1
      /\ UNCHANGED <<cacheCash, baseMap, logicError>> /\ ~logicError
  BY DEF PushCache, IInv, TypeOK
<1>2. ASSUME NEW k \in 1..(depth + 1), NEW x \in Outpoints
      PROVE  EntryGood(cacheCash, baseMap, k, x)
  <2>1. CASE k <= depth
    BY <2>1 DEF IInv, GoodIn
  <2>2. CASE k = depth + 1
    <3>1. k \in Layers /\ k > depth
      BY <1>1, <2>2, ConstantsAssumption DEF Layers
    <3>2. cacheCash[k][x] = ABSENT
      BY <3>1 DEF IInv, TypeOK, EmptyMap
    <3> QED
      BY <3>2 DEF EntryGood
  <2> QED
    BY <1>1, <2>1, <2>2
<1> QED
  BY <1>1, <1>2 DEF GoodNext, GoodIn

\* Deleting the top layer leaves the layers below, and what they read, as
\* they were.
LEMMA DropGood ==
    ASSUME IInv, DropCache
    PROVE  GoodNext
<1>1. /\ depth \in Layers /\ depth' = depth - 1 /\ cacheCash \in Maps
      /\ cacheCash' = [cacheCash EXCEPT ![depth] = EmptyMap]
      /\ UNCHANGED <<baseMap, logicError>> /\ ~logicError
  BY ConstantsAssumption DEF DropCache, CanCall, IInv, TypeOK, Layers, Maps
<1>2. ASSUME NEW k \in 1..(depth - 1), NEW x \in Outpoints
      PROVE  EntryGood(cacheCash', baseMap, k, x)
  <2>1. k \in Layers /\ k - 1 \in Nat /\ \A l \in 1..k : l \in Layers /\ l # depth
    BY <1>1, ConstantsAssumption DEF Layers
  <2>2. \A l \in 1..k : cacheCash'[l][x] = cacheCash[l][x]
    BY <1>1, <2>1 DEF Maps
  <2>3. ViewIn(cacheCash', baseMap, k - 1, x) = ViewIn(cacheCash, baseMap, k - 1, x)
    <3>1. \A l \in 1..(k - 1) : cacheCash'[l][x] = cacheCash[l][x]
      BY <2>1, <2>2
    <3> QED
      BY <2>1, <3>1, ViewLocal
  <2>4. EntryGood(cacheCash, baseMap, k, x)
    BY <1>1, <2>1 DEF IInv, GoodIn, Layers
  <2> QED
    BY <2>1, <2>2, <2>3, <2>4, GoodTransfer
<1>3. GoodIn(cacheCash', baseMap, depth - 1)
  BY <1>2 DEF GoodIn
<1> QED
  BY <1>1, <1>3 DEF GoodNext

\* Flush of layer 1: the base view afterwards holds what a read through
\* layer 1 found before, since a clean entry of layer 1 already agreed with
\* the base, so no read through any layer changes.
LEMMA FlushToBaseViews ==
    ASSUME IInv, NEW E \in SUBSET Outpoints, FlushToBase(E)
    PROVE  /\ \A x \in Outpoints : BaseIn(baseMap', x) = ViewIn(cacheCash, baseMap, 1, x)
           /\ \A j \in 1..depth, x \in Outpoints :
                 ViewIn(cacheCash', baseMap', j, x) = ViewIn(cacheCash, baseMap, j, x)
<1> DEFINE child == cacheCash[1]
           Dirty == {o \in Outpoints : child[o] # ABSENT /\ child[o].dirty}
<1>1. /\ depth \in Layers /\ depth \in Nat /\ 1 \in Layers /\ cacheCash \in Maps
      /\ GoodIn(cacheCash, baseMap, depth)
      /\ E \subseteq {o \in Dirty : child[o].coin = SPENT}
      /\ baseMap' = [o \in Outpoints |->
                       IF o \in E THEN ABSENT
                       ELSE IF o \in Dirty THEN child[o].coin
                       ELSE baseMap[o]]
      /\ cacheCash' = [cacheCash EXCEPT ![1] = EmptyMap]
      /\ UNCHANGED <<depth, logicError>> /\ ~logicError
  BY ConstantsAssumption DEF FlushToBase, CanCall, IInv, TypeOK, Layers, Maps
<1>2. \A l \in Layers, y \in Outpoints :
         cacheCash'[l][y] = IF l = 1 THEN ABSENT ELSE cacheCash[l][y]
  BY <1>1 DEF Maps, EmptyMap
<1>3. ASSUME NEW x \in Outpoints
      PROVE  BaseIn(baseMap', x) = ViewIn(cacheCash, baseMap, 1, x)
  <2>0. ViewIn(cacheCash, baseMap, 1, x) =
          IF child[x] # ABSENT THEN child[x].coin ELSE ViewIn(cacheCash, baseMap, 0, x)
    <3>1. 1 \in Nat \ {0} /\ 1 - 1 = 0
      OBVIOUS
    <3> QED
      BY <3>1, ViewStep
  <2>1. child[x] # ABSENT => child[x] \in Entry
    BY <1>1 DEF Maps
  <2>2. CASE x \in E
    <3>1. child[x] # ABSENT /\ child[x].coin = SPENT /\ baseMap'[x] = ABSENT
      BY <1>1, <2>2
    <3> QED
      BY <2>0, <3>1 DEF BaseIn
  <2>3. CASE x \in Dirty \ E
    <3>1. child[x] # ABSENT /\ baseMap'[x] = child[x].coin
      BY <1>1, <2>3
    <3>2. child[x].coin # ABSENT
      BY <2>1, <3>1, ConstantsAssumption DEF Entry, Coin
    <3> QED
      BY <2>0, <3>1, <3>2 DEF BaseIn
  <2>4. CASE x \notin Dirty
    <3>1. baseMap'[x] = baseMap[x]
      BY <1>1, <2>4
    <3>2. ViewIn(cacheCash, baseMap, 1, x) = BaseIn(baseMap, x)
      <4>1. ViewIn(cacheCash, baseMap, 0, x) = BaseIn(baseMap, x)
        BY ViewBase
      <4>2. CASE child[x] = ABSENT
        BY <2>0, <4>1, <4>2
      <4>3. CASE child[x] # ABSENT
        <5>1. ~child[x].dirty
          BY <2>4, <4>3
        <5>2. child[x].coin = ViewIn(cacheCash, baseMap, 0, x)
          <6>1. EntryGood(cacheCash, baseMap, 1, x)
            BY <1>1, ConstantsAssumption DEF GoodIn, Layers
          <6> QED
            BY <4>3, <5>1, <6>1 DEF EntryGood
        <5> QED
          BY <2>0, <4>1, <4>3, <5>2
      <4> QED
        BY <4>2, <4>3
    <3> QED
      BY <3>1, <3>2 DEF BaseIn
  <2> QED
    BY <2>2, <2>3, <2>4
<1>4. ASSUME NEW j \in 1..depth, NEW x \in Outpoints
      PROVE  ViewIn(cacheCash', baseMap', j, x) = ViewIn(cacheCash, baseMap, j, x)
  <2>1. ViewIn(cacheCash', baseMap', 1, x) = ViewIn(cacheCash, baseMap, 1, x)
    <3>1. cacheCash'[1][x] = ABSENT
      BY <1>1, <1>2
    <3>2. ViewIn(cacheCash', baseMap', 1, x) = ViewIn(cacheCash', baseMap', 0, x)
      <4>1. 1 \in Nat \ {0} /\ 1 - 1 = 0
        OBVIOUS
      <4>2. ViewIn(cacheCash', baseMap', 1, x) =
              IF cacheCash'[1][x] # ABSENT THEN cacheCash'[1][x].coin
              ELSE ViewIn(cacheCash', baseMap', 1 - 1, x)
        BY <4>1, ViewStep
      <4> QED
        BY <3>1, <4>1, <4>2
    <3> QED
      BY <1>3, <3>2, ViewBase
  <2>2. \A l \in (1 + 1)..j : cacheCash'[l][x] = cacheCash[l][x]
    BY <1>1, <1>2, ConstantsAssumption DEF Layers
  <2>3. 1 \in Nat /\ j \in Nat /\ 1 <= j
    BY <1>1
  <2> QED
    BY <2>1, <2>2, <2>3, ViewAbove
<1> QED
  BY <1>3, <1>4

\* Flush of layer 1 keeps every entry right.
LEMMA FlushToBaseGood ==
    ASSUME IInv, NEW E \in SUBSET Outpoints, FlushToBase(E)
    PROVE  GoodNext
<1> DEFINE child == cacheCash[1]
           Dirty == {o \in Outpoints : child[o] # ABSENT /\ child[o].dirty}
<1>1. /\ depth \in Layers /\ depth \in Nat /\ 1 \in Layers /\ cacheCash \in Maps
      /\ GoodIn(cacheCash, baseMap, depth)
      /\ E \subseteq {o \in Dirty : child[o].coin = SPENT}
      /\ baseMap' = [o \in Outpoints |->
                       IF o \in E THEN ABSENT
                       ELSE IF o \in Dirty THEN child[o].coin
                       ELSE baseMap[o]]
      /\ cacheCash' = [cacheCash EXCEPT ![1] = EmptyMap]
      /\ UNCHANGED <<depth, logicError>> /\ ~logicError
  BY ConstantsAssumption DEF FlushToBase, CanCall, IInv, TypeOK, Layers, Maps
<1>2. \A l \in Layers, y \in Outpoints :
         cacheCash'[l][y] = IF l = 1 THEN ABSENT ELSE cacheCash[l][y]
  BY <1>1 DEF Maps, EmptyMap
<1>4. \A j \in 1..depth, x \in Outpoints :
         ViewIn(cacheCash', baseMap', j, x) = ViewIn(cacheCash, baseMap, j, x)
  BY FlushToBaseViews
<1>5. ASSUME NEW k \in 1..depth, NEW x \in Outpoints
      PROVE  EntryGood(cacheCash', baseMap', k, x)
  <2>1. k \in Layers
    BY <1>1, ConstantsAssumption DEF Layers
  <2>2. CASE k = 1
    BY <1>2, <2>1, <2>2 DEF EntryGood
  <2>3. CASE k # 1
    <3>1. cacheCash'[k][x] = cacheCash[k][x]
      BY <1>2, <2>1, <2>3
    <3>2. ViewIn(cacheCash', baseMap', k - 1, x) = ViewIn(cacheCash, baseMap, k - 1, x)
      <4>1. k - 1 \in 1..depth
        BY <1>1, <2>3
      <4> QED
        BY <4>1, <1>4
    <3>3. EntryGood(cacheCash, baseMap, k, x)
      BY <1>1 DEF GoodIn
    <3> QED
      BY <3>1, <3>2, <3>3, GoodTransfer
  <2> QED
    BY <2>2, <2>3
<1>6. GoodIn(cacheCash', baseMap', depth)
  BY <1>5 DEF GoodIn
<1> QED
  BY <1>1, <1>6 DEF GoodNext

\* A DIRTY entry holding a Cash record is an entry.
LEMMA DirtyEntry ==
    ASSUME NEW x \in Coin, NEW f \in BOOLEAN
    PROVE  [coin |-> x, dirty |-> TRUE, fresh |-> f] \in Entry
BY Zenon DEF Entry

\* The rule of BatchWrite for one outpoint, over a parent entry p that is
\* right about the view vb below it and a child entry c that is right about
\* the view vp through p: the child's FRESH bit is never misapplied, the
\* merged entry reads what the child read, and it is right about vb.
LEMMA MergeFacts ==
    ASSUME NEW p \in Entry \cup {ABSENT}, NEW c \in Entry \cup {ABSENT},
           NEW vb, NEW vp,
           vp = IF p # ABSENT THEN p.coin ELSE vb,
           p # ABSENT => /\ p.fresh => vb = SPENT
                         /\ ~p.dirty => p.coin = vb,
           c # ABSENT => /\ c.fresh => vp = SPENT
                         /\ ~c.dirty => c.coin = vp
    PROVE  /\ ~Misapplied(p, c)
           /\ MergeEntry(p, c) \in Entry \cup {ABSENT}
           /\ (IF MergeEntry(p, c) # ABSENT THEN MergeEntry(p, c).coin ELSE vb)
                = (IF c # ABSENT THEN c.coin ELSE vp)
           /\ MergeEntry(p, c) # ABSENT =>
                 /\ MergeEntry(p, c).fresh => vb = SPENT
                 /\ ~MergeEntry(p, c).dirty => MergeEntry(p, c).coin = vb
<1>0. ABSENT \notin Entry /\ SPENT \in Coin
  BY AbsentNotEntry DEF Coin
<1>1. ~Misapplied(p, c)
  BY DEF Misapplied
<1>2. CASE c = ABSENT \/ ~c.dirty
  <2>1. MergeEntry(p, c) = p
    BY <1>2 DEF MergeEntry
  <2> QED
    BY <1>1, <1>2, <2>1
<1>3. CASE c # ABSENT /\ c.dirty /\ p = ABSENT
  <2>1. c \in Entry /\ vp = vb
    BY <1>0, <1>3
  <2>2. CASE c.fresh /\ c.coin = SPENT
    <3>1. MergeEntry(p, c) = ABSENT
      BY <1>3, <2>2 DEF MergeEntry
    <3> QED
      BY <1>1, <1>3, <2>1, <2>2, <3>1
  <2>3. CASE ~(c.fresh /\ c.coin = SPENT)
    <3>1. MergeEntry(p, c) = [coin |-> c.coin, dirty |-> TRUE, fresh |-> c.fresh]
      BY <1>3, <2>3 DEF MergeEntry
    <3>2. MergeEntry(p, c) \in Entry /\ MergeEntry(p, c) # ABSENT
      <4>1. c.coin \in Coin /\ c.fresh \in BOOLEAN
        BY <2>1 DEF Entry
      <4>2. MergeEntry(p, c) \in Entry
        BY <3>1, <4>1, DirtyEntry
      <4> QED
        BY <1>0, <4>2
    <3>3. /\ MergeEntry(p, c).coin = c.coin /\ MergeEntry(p, c).dirty
          /\ MergeEntry(p, c).fresh = c.fresh
      BY <3>1
    <3> QED
      BY <1>1, <1>3, <2>1, <3>2, <3>3
  <2> QED
    BY <2>2, <2>3
<1>4. CASE c # ABSENT /\ c.dirty /\ p # ABSENT
  <2>1. c \in Entry /\ p \in Entry /\ vp = p.coin
    BY <1>0, <1>4
  <2>2. CASE p.fresh /\ c.coin = SPENT
    <3>1. MergeEntry(p, c) = ABSENT
      BY <1>4, <2>2 DEF MergeEntry
    <3> QED
      BY <1>1, <1>4, <2>1, <2>2, <3>1
  <2>3. CASE ~(p.fresh /\ c.coin = SPENT)
    <3>1. MergeEntry(p, c) = [p EXCEPT !.coin = c.coin, !.dirty = TRUE]
      BY <1>4, <2>3 DEF MergeEntry
    <3>2. /\ MergeEntry(p, c) \in Entry /\ MergeEntry(p, c) # ABSENT
          /\ MergeEntry(p, c).coin = c.coin /\ MergeEntry(p, c).dirty
          /\ MergeEntry(p, c).fresh = p.fresh
      <4>1. c.coin \in Coin
        BY <2>1 DEF Entry
      <4>2. [[p EXCEPT !.coin = c.coin] EXCEPT !.dirty = TRUE] \in Entry
        BY <2>1, <4>1, Zenon DEF Entry
      <4>3. /\ [[p EXCEPT !.coin = c.coin] EXCEPT !.dirty = TRUE].coin = c.coin
            /\ [[p EXCEPT !.coin = c.coin] EXCEPT !.dirty = TRUE].dirty = TRUE
            /\ [[p EXCEPT !.coin = c.coin] EXCEPT !.dirty = TRUE].fresh = p.fresh
        BY <2>1, <4>1, SMT DEF Entry
      <4> QED
        BY <1>0, <3>1, <4>2, <4>3
    <3> QED
      BY <1>1, <1>4, <2>1, <3>2
  <2> QED
    BY <2>2, <2>3
<1> QED
  BY <1>2, <1>3, <1>4

\* MergeFacts for layer i and its parent i-1 on the stack.
LEMMA LayerMerge ==
    ASSUME IInv, NEW i \in 2..depth, NEW x \in Outpoints
    PROVE  /\ ~Misapplied(cacheCash[i - 1][x], cacheCash[i][x])
           /\ MergeEntry(cacheCash[i - 1][x], cacheCash[i][x]) \in Entry \cup {ABSENT}
           /\ (IF MergeEntry(cacheCash[i - 1][x], cacheCash[i][x]) # ABSENT
                 THEN MergeEntry(cacheCash[i - 1][x], cacheCash[i][x]).coin
                 ELSE ViewIn(cacheCash, baseMap, i - 2, x))
                = ViewIn(cacheCash, baseMap, i, x)
           /\ MergeEntry(cacheCash[i - 1][x], cacheCash[i][x]) # ABSENT =>
                 /\ MergeEntry(cacheCash[i - 1][x], cacheCash[i][x]).fresh
                      => ViewIn(cacheCash, baseMap, i - 2, x) = SPENT
                 /\ ~MergeEntry(cacheCash[i - 1][x], cacheCash[i][x]).dirty
                      => MergeEntry(cacheCash[i - 1][x], cacheCash[i][x]).coin
                           = ViewIn(cacheCash, baseMap, i - 2, x)
<1> DEFINE p == cacheCash[i - 1][x]
           c == cacheCash[i][x]
           vb == ViewIn(cacheCash, baseMap, i - 2, x)
           vp == ViewIn(cacheCash, baseMap, i - 1, x)
<1>1. /\ i \in Layers /\ i - 1 \in Layers /\ i \in Nat \ {0} /\ i - 1 \in Nat \ {0}
      /\ (i - 1) - 1 = i - 2 /\ i - 1 \in 1..depth /\ i \in 1..depth
  BY ConstantsAssumption DEF IInv, TypeOK, Layers
<1>2. p \in Entry \cup {ABSENT} /\ c \in Entry \cup {ABSENT}
  BY <1>1 DEF IInv, TypeOK
<1>3. vp = IF p # ABSENT THEN p.coin ELSE vb
  <2>0. i - 1 \in Nat \ {0}
    BY <1>1
  <2>1. vp = IF p # ABSENT THEN p.coin ELSE ViewIn(cacheCash, baseMap, (i - 1) - 1, x)
    BY <2>0, ViewStep
  <2> QED
    BY <1>1, <2>1
<1>4. ViewIn(cacheCash, baseMap, i, x) = IF c # ABSENT THEN c.coin ELSE vp
  <2>0. i \in Nat \ {0}
    BY <1>1
  <2> QED
    BY <2>0, ViewStep
<1>5. p # ABSENT => /\ p.fresh => vb = SPENT
                    /\ ~p.dirty => p.coin = vb
  BY <1>1 DEF IInv, GoodIn, EntryGood
<1>6. c # ABSENT => /\ c.fresh => vp = SPENT
                    /\ ~c.dirty => c.coin = vp
  <2>1. EntryGood(cacheCash, baseMap, i, x)
    BY <1>1 DEF IInv, GoodIn
  <2> QED
    BY <2>1 DEF EntryGood
<1>7. /\ ~Misapplied(p, c)
      /\ MergeEntry(p, c) \in Entry \cup {ABSENT}
      /\ (IF MergeEntry(p, c) # ABSENT THEN MergeEntry(p, c).coin ELSE vb)
           = (IF c # ABSENT THEN c.coin ELSE vp)
      /\ MergeEntry(p, c) # ABSENT =>
            /\ MergeEntry(p, c).fresh => vb = SPENT
            /\ ~MergeEntry(p, c).dirty => MergeEntry(p, c).coin = vb
  BY <1>2, <1>3, <1>5, <1>6, MergeFacts
<1> QED
  BY <1>4, <1>7

\* A flush into layer i-1 that throws needs a misapplied FRESH bit, which
\* the inductive invariant rules out.
LEMMA FlushThrowsGood ==
    ASSUME IInv, NEW i \in Layers, NEW P \in SUBSET Outpoints, FlushThrows(i, P)
    PROVE  FALSE
<1>1. PICK x \in Outpoints : Misapplied(cacheCash[i - 1][x], cacheCash[i][x])
  BY DEF FlushThrows
<1>2. i \in 2..depth
  BY DEF FlushThrows
<1> QED
  BY <1>1, <1>2, LayerMerge

\* Flush of layer i into layer i-1: every read through layer i or above
\* finds what it found, the reads below i-1 are untouched, and every merged
\* entry is right about the layers below it.
LEMMA FlushToCacheViews ==
    ASSUME IInv, NEW i \in Layers, FlushToCache(i)
    PROVE  /\ \A j \in 0..(i - 2), x \in Outpoints :
                 ViewIn(cacheCash', baseMap, j, x) = ViewIn(cacheCash, baseMap, j, x)
           /\ \A x \in Outpoints :
                 ViewIn(cacheCash', baseMap, i - 1, x) = ViewIn(cacheCash, baseMap, i, x)
           /\ \A j \in i..depth, x \in Outpoints :
                 ViewIn(cacheCash', baseMap, j, x) = ViewIn(cacheCash, baseMap, j, x)
<1> DEFINE m(y) == MergeEntry(cacheCash[i - 1][y], cacheCash[i][y])
<1>1. /\ i \in 2..depth /\ depth \in Layers /\ depth \in Nat /\ cacheCash \in Maps
      /\ i - 1 \in Layers /\ i - 2 \in Nat /\ i - 1 \in Nat /\ i - 1 # i
      /\ cacheCash' = [cacheCash EXCEPT ![i - 1] = Merged(i - 1, i, Outpoints),
                                        ![i] = EmptyMap]
      /\ UNCHANGED <<depth, baseMap, logicError>> /\ ~logicError
  BY ConstantsAssumption DEF FlushToCache, CanCall, IInv, TypeOK, Layers, Maps
<1>2. ASSUME NEW l \in Layers, NEW y \in Outpoints
      PROVE  cacheCash'[l][y] = IF l = i THEN ABSENT
                                ELSE IF l = i - 1 THEN m(y)
                                ELSE cacheCash[l][y]
  <2>1. CASE l = i
    BY <1>1, <2>1 DEF Maps, EmptyMap
  <2>2. CASE l = i - 1
    <3>1. cacheCash'[l] = Merged(i - 1, i, Outpoints)
      BY <1>1, <2>2 DEF Maps
    <3> QED
      BY <1>1, <2>2, <3>1 DEF Merged
  <2>3. CASE l # i /\ l # i - 1
    BY <1>1, <2>3 DEF Maps
  <2> QED
    BY <2>1, <2>2, <2>3
<1>3. ASSUME NEW j \in 0..(i - 2), NEW x \in Outpoints
      PROVE  ViewIn(cacheCash', baseMap, j, x) = ViewIn(cacheCash, baseMap, j, x)
  <2>1. j \in Nat
    BY <1>1
  <2>2. \A l \in 1..j : cacheCash'[l][x] = cacheCash[l][x]
    <3> SUFFICES ASSUME NEW l \in 1..j PROVE cacheCash'[l][x] = cacheCash[l][x]
      OBVIOUS
    <3>1. l \in Layers /\ l # i /\ l # i - 1
      BY <1>1, ConstantsAssumption DEF Layers
    <3> QED
      BY <3>1, <1>2
  <2> QED
    BY <2>1, <2>2, ViewLocal
<1>4. ASSUME NEW x \in Outpoints
      PROVE  ViewIn(cacheCash', baseMap, i - 1, x) = ViewIn(cacheCash, baseMap, i, x)
  <2>1. cacheCash'[i][x] = ABSENT /\ cacheCash'[i - 1][x] = m(x)
    <3>1. cacheCash'[i][x] = ABSENT
      BY <1>2
    <3>2. i - 1 \in Layers /\ i - 1 # i
      BY <1>1
    <3>3. cacheCash'[i - 1][x] = m(x)
      BY <3>2, <1>2
    <3> QED
      BY <3>1, <3>3
  <2>3. ViewIn(cacheCash', baseMap, i - 1, x) =
          IF m(x) # ABSENT THEN m(x).coin ELSE ViewIn(cacheCash', baseMap, i - 2, x)
    <3>1. i - 1 \in Nat \ {0}
      BY <1>1
    <3>2. ViewIn(cacheCash', baseMap, i - 1, x) =
            IF cacheCash'[i - 1][x] # ABSENT THEN cacheCash'[i - 1][x].coin
            ELSE ViewIn(cacheCash', baseMap, (i - 1) - 1, x)
      BY <3>1, ViewStep, Zenon
    <3>3. (i - 1) - 1 = i - 2
      BY <1>1
    <3> QED
      BY <2>1, <3>2, <3>3
  <2>4. ViewIn(cacheCash', baseMap, i - 2, x) = ViewIn(cacheCash, baseMap, i - 2, x)
    <3>1. i - 2 \in 0..(i - 2)
      BY <1>1
    <3> QED
      BY <3>1, <1>3
  <2>5. (IF m(x) # ABSENT THEN m(x).coin ELSE ViewIn(cacheCash, baseMap, i - 2, x))
          = ViewIn(cacheCash, baseMap, i, x)
    <3>1. i \in 2..depth
      BY <1>1
    <3> QED
      BY <3>1, LayerMerge
  <2> QED
    BY <2>3, <2>4, <2>5
<1>7. ASSUME NEW x \in Outpoints
      PROVE  ViewIn(cacheCash', baseMap, i, x) = ViewIn(cacheCash, baseMap, i, x)
  <2>1. cacheCash'[i][x] = ABSENT
    BY <1>2
  <2>2. ViewIn(cacheCash', baseMap, i, x) = ViewIn(cacheCash', baseMap, i - 1, x)
    <3>1. i \in Nat \ {0}
      BY <1>1
    <3>2. ViewIn(cacheCash', baseMap, i, x) =
            IF cacheCash'[i][x] # ABSENT THEN cacheCash'[i][x].coin
            ELSE ViewIn(cacheCash', baseMap, i - 1, x)
      BY <3>1, ViewStep
    <3> QED
      BY <2>1, <3>2
  <2> QED
    BY <1>4, <2>2
<1>5. ASSUME NEW j \in i..depth, NEW x \in Outpoints
      PROVE  ViewIn(cacheCash', baseMap, j, x) = ViewIn(cacheCash, baseMap, j, x)
  <2>1. \A l \in (i + 1)..j : cacheCash'[l][x] = cacheCash[l][x]
    <3> SUFFICES ASSUME NEW l \in (i + 1)..j PROVE cacheCash'[l][x] = cacheCash[l][x]
      OBVIOUS
    <3>1. l \in Layers /\ l # i /\ l # i - 1
      BY <1>1, ConstantsAssumption DEF Layers
    <3> QED
      BY <3>1, <1>2
  <2>2. i \in Nat /\ j \in Nat /\ i <= j
    BY <1>1
  <2> QED
    BY <1>7, <2>1, <2>2, ViewAbove
<1> QED
  BY <1>3, <1>4, <1>5

\* Flush of layer i into layer i-1 keeps every entry right.
LEMMA FlushToCacheGood ==
    ASSUME IInv, NEW i \in Layers, FlushToCache(i)
    PROVE  GoodNext
<1> DEFINE m(y) == MergeEntry(cacheCash[i - 1][y], cacheCash[i][y])
<1>1. /\ i \in 2..depth /\ depth \in Layers /\ depth \in Nat /\ cacheCash \in Maps
      /\ i - 1 \in Layers /\ i - 2 \in Nat /\ i - 1 \in Nat /\ i - 1 # i
      /\ cacheCash' = [cacheCash EXCEPT ![i - 1] = Merged(i - 1, i, Outpoints),
                                        ![i] = EmptyMap]
      /\ UNCHANGED <<depth, baseMap, logicError>> /\ ~logicError
  BY ConstantsAssumption DEF FlushToCache, CanCall, IInv, TypeOK, Layers, Maps
<1>2. ASSUME NEW l \in Layers, NEW y \in Outpoints
      PROVE  cacheCash'[l][y] = IF l = i THEN ABSENT
                                ELSE IF l = i - 1 THEN m(y)
                                ELSE cacheCash[l][y]
  <2>1. CASE l = i
    BY <1>1, <2>1 DEF Maps, EmptyMap
  <2>2. CASE l = i - 1
    <3>1. cacheCash'[l] = Merged(i - 1, i, Outpoints)
      BY <1>1, <2>2 DEF Maps
    <3> QED
      BY <1>1, <2>2, <3>1 DEF Merged
  <2>3. CASE l # i /\ l # i - 1
    BY <1>1, <2>3 DEF Maps
  <2> QED
    BY <2>1, <2>2, <2>3
<1>3. \A j \in 0..(i - 2), x \in Outpoints :
         ViewIn(cacheCash', baseMap, j, x) = ViewIn(cacheCash, baseMap, j, x)
  BY FlushToCacheViews
<1>5. \A j \in i..depth, x \in Outpoints :
         ViewIn(cacheCash', baseMap, j, x) = ViewIn(cacheCash, baseMap, j, x)
  BY FlushToCacheViews
<1>6. ASSUME NEW k \in 1..depth, NEW x \in Outpoints
      PROVE  EntryGood(cacheCash', baseMap, k, x)
  <2>1. k \in Layers
    BY <1>1, ConstantsAssumption DEF Layers
  <2>2. CASE k = i
    <3>1. cacheCash'[k][x] = ABSENT
      BY <1>2, <2>1, <2>2
    <3> QED
      BY <3>1 DEF EntryGood
  <2>3. CASE k = i - 1
    <3>1. cacheCash'[k][x] = m(x)
      <4>1. k \in Layers /\ k # i /\ k = i - 1
        BY <1>1, <2>1, <2>3
      <4> QED
        BY <4>1, <1>2
    <3>2. ViewIn(cacheCash', baseMap, k - 1, x) = ViewIn(cacheCash, baseMap, i - 2, x)
      <4>1. k - 1 = i - 2 /\ i - 2 \in 0..(i - 2)
        BY <1>1, <2>3
      <4> QED
        BY <4>1, <1>3
    <3>3. m(x) # ABSENT =>
            /\ m(x).fresh => ViewIn(cacheCash, baseMap, i - 2, x) = SPENT
            /\ ~m(x).dirty => m(x).coin = ViewIn(cacheCash, baseMap, i - 2, x)
      <4>1. i \in 2..depth
        BY <1>1
      <4> QED
        BY <4>1, LayerMerge
    <3> QED
      BY <3>1, <3>2, <3>3 DEF EntryGood
  <2>4. CASE k # i /\ k # i - 1
    <3>1. cacheCash'[k][x] = cacheCash[k][x]
      BY <1>2, <2>1, <2>4
    <3>2. ViewIn(cacheCash', baseMap, k - 1, x) = ViewIn(cacheCash, baseMap, k - 1, x)
      <4>1. CASE k < i - 1
        <5>1. k - 1 \in 0..(i - 2)
          BY <1>1, <4>1
        <5> QED
          BY <5>1, <1>3
      <4>2. CASE k > i
        <5>1. k - 1 \in i..depth
          BY <1>1, <4>2
        <5> QED
          BY <5>1, <1>5
      <4> QED
        BY <1>1, <2>4, <4>1, <4>2
    <3>3. EntryGood(cacheCash, baseMap, k, x)
      BY <1>1 DEF IInv, GoodIn
    <3> QED
      BY <3>1, <3>2, <3>3, GoodTransfer
  <2> QED
    BY <2>2, <2>3, <2>4
<1>7. GoodIn(cacheCash', baseMap, depth)
  BY <1>6 DEF GoodIn
<1> QED
  BY <1>1, <1>7 DEF GoodNext

-----------------------------------------------------------------------------
(* The inductive invariant and the theorems.                               *)

LEMMA InitIInv == Init => IInv
<1> SUFFICES ASSUME Init PROVE IInv
  OBVIOUS
<1>1. TypeOK
  BY InitType
<1>2. GoodIn(cacheCash, baseMap, depth)
  BY ConstantsAssumption DEF Init, GoodIn, EntryGood, EmptyMap, Layers
<1> QED
  BY <1>1, <1>2 DEF Init, IInv

\* Every step keeps IInv when callers keep the AddCash contract.
LEMMA IInvStep ==
    ASSUME CallerChecksOverwrite
    PROVE  IInv /\ [Next]_vars => IInv'
<1> SUFFICES ASSUME IInv, [Next]_vars PROVE IInv'
  OBVIOUS
<1>0. TypeOK'
  BY TypeStep DEF IInv
<1> SUFFICES GoodNext
  BY <1>0 DEF GoodNext, IInv
<1>1. ASSUME NEW o \in Outpoints, NEW ps \in BOOLEAN,
             GetCash(o, ps) \/ HaveCash(o, ps) \/ AccessCash(o, ps)
      PROVE  GoodNext
  BY <1>1, ReadGood DEF GetCash, HaveCash, AccessCash
<1>2. ASSUME NEW o \in Outpoints, NEW ps \in BOOLEAN, SpendCash(o, ps) PROVE GoodNext
  BY <1>2, SpendGood
<1>3. ASSUME NEW o \in Outpoints, NEW v \in Values, NEW ow \in BOOLEAN, AddCash(o, v, ow)
      PROVE  GoodNext
  BY <1>3, AddGood
<1>4. ASSUME NEW o \in Outpoints, NEW v \in Values, NEW cb \in BOOLEAN, NEW chk \in BOOLEAN,
             NEW ps \in BOOLEAN, AddCashTx(o, v, cb, chk, ps)
      PROVE  GoodNext
  BY <1>4, AddTxGood
<1>5. ASSUME NEW i \in Layers, NEW o \in Outpoints, Uncache(i, o) PROVE GoodNext
  BY <1>5, UncacheGood
<1>6. CASE (\E b \in Blocks : SetBestBlock(b)) \/ GetBestBlock
  BY <1>6, BestBlockGood
<1>7. ASSUME NEW i \in Layers, Flush(i) PROVE GoodNext
  <2>1. CASE i = 1 /\ \E E \in SUBSET Outpoints : FlushToBase(E)
    BY <2>1, FlushToBaseGood
  <2>2. CASE FlushToCache(i)
    BY <2>2, FlushToCacheGood
  <2>3. CASE \E P \in SUBSET Outpoints : FlushThrows(i, P)
    BY <2>3, FlushThrowsGood
  <2> QED
    BY <1>7, <2>1, <2>2, <2>3 DEF Flush
<1>8. CASE PushCache
  BY <1>8, PushGood
<1>9. CASE DropCache
  BY <1>9, DropGood
<1>10. CASE UNCHANGED vars
  BY <1>10 DEF vars, IInv, GoodNext
<1> QED
  BY <1>1, <1>2, <1>3, <1>4, <1>5, <1>6, <1>7, <1>8, <1>9, <1>10 DEF Next

\* IInv holds in every reachable state when callers keep the contract of
\* AddCash: every entry of every layer is right about the layers below it.
THEOREM InvariantHolds == ASSUME CallerChecksOverwrite PROVE Spec => []IInv
<1>1. Init => IInv
  BY InitIInv
<1>2. IInv /\ [Next]_vars => IInv'
  BY IInvStep
<1> QED
  BY <1>1, <1>2, PTL DEF Spec

\* Spec invariant 2: the FRESH bit that AddCash, FetchCash and BatchWrite
\* set is never set over an unspent output of the layers below, for every
\* number of layers and outpoints, when callers keep the AddCash contract.
THEOREM FreshCorrect == ASSUME CallerChecksOverwrite PROVE Spec => []FreshInvariant
<1>1. IInv => FreshInvariant
  <2> SUFFICES ASSUME IInv, NEW i \in 1..depth, NEW o \in Outpoints,
                      cacheCash[i][o] # ABSENT /\ cacheCash[i][o].fresh
               PROVE  ViewAt(i - 1, o) = SPENT
    BY DEF FreshInvariant
  <2> QED
    BY ViewAtIn DEF IInv, GoodIn, EntryGood
<1> QED
  BY <1>1, InvariantHolds, PTL

\* Spec invariant 1: an entry with neither flag that FetchCash inserted (or
\* a flush left clean) holds what the view below it holds, so Uncache may
\* drop it, when callers keep the AddCash contract.
THEOREM CleanCorrect == ASSUME CallerChecksOverwrite PROVE Spec => []CleanMatchesParent
<1>1. IInv => CleanMatchesParent
  <2> SUFFICES ASSUME IInv, NEW i \in 1..depth, NEW o \in Outpoints,
                      cacheCash[i][o] # ABSENT, ~cacheCash[i][o].dirty
               PROVE  cacheCash[i][o].coin = ViewAt(i - 1, o)
    BY DEF CleanMatchesParent
  <2> QED
    BY ViewAtIn DEF IInv, GoodIn, EntryGood
<1> QED
  BY <1>1, InvariantHolds, PTL

\* Neither logic error of cash.cpp (the overwrite check of AddCash, the
\* "FRESH flag misapplied" check of BatchWrite) is ever thrown when callers
\* keep the AddCash contract.
THEOREM NoLogicErrorCorrect == ASSUME CallerChecksOverwrite PROVE Spec => []NoLogicError
<1>1. IInv => NoLogicError
  BY DEF IInv, NoLogicError
<1> QED
  BY <1>1, InvariantHolds, PTL

-----------------------------------------------------------------------------
(* The calls take effect.                                                  *)

\* The read of the top layer after a step, over the stack's own maps.
LEMMA ViewAtNext ==
    ASSUME NEW o
    PROVE  (ViewAt(depth, o))' = ViewIn(cacheCash', baseMap', depth', o)
BY DEF ViewAt, ViewIn, Holder, HolderIn, BaseCoin, BaseIn

\* FetchCash leaves an entry for o in the top layer whenever a read of o
\* through the stack finds an unspent output.
LEMMA FetchTop ==
    ASSUME TypeOK, depth >= 1, NEW o \in Outpoints, NEW ps, ViewAt(depth, o) # SPENT
    PROVE  Fetched(o, ps)[depth][o] # ABSENT
<1> DEFINE h == Holder(depth, o)
<1>1. /\ depth \in 1..MaxDepth /\ depth \in Layers /\ h \in 0..depth
      /\ (h # 0 => cacheCash[h][o] # ABSENT)
  BY HolderType, ConstantsAssumption DEF TypeOK, Layers
<1>2. FetchEntry(o) # ABSENT
  <2>1. ViewAt(depth, o) \in Coin
    BY <1>1, ViewAtType
  <2>2. FetchEntry(o) \in Entry
    BY <2>1 DEF FetchEntry, Entry
  <2> QED
    BY <2>2, AbsentNotEntry
<1>3. Fetched(o, ps)[depth][o] =
        IF depth \in FetchLayers(o, ps) THEN FetchEntry(o) ELSE cacheCash[depth][o]
  BY <1>1, FetchedAt
<1>4. CASE h = depth
  BY <1>1, <1>2, <1>3, <1>4
<1>5. CASE h # depth /\ h # 0
  <2>1. cacheCash[h][o].coin # SPENT
    BY <1>5 DEF ViewAt
  <2>2. depth \in FetchLayers(o, ps)
    BY <1>1, <1>5, <2>1 DEF FetchLayers
  <2> QED
    BY <1>2, <1>3, <2>2
<1>6. CASE h = 0
  <2>1. baseMap[o] \in Values
    <3>1. BaseCoin(o) # SPENT
      BY <1>6 DEF ViewAt
    <3> QED
      BY <3>1 DEF BaseCoin, TypeOK, Coin
  <2>2. depth \in FetchLayers(o, ps)
    BY <1>1, <1>6, <2>1 DEF FetchLayers
  <2> QED
    BY <1>2, <1>3, <2>2
<1> QED
  BY <1>1, <1>4, <1>5, <1>6

\* After SpendCash the top layer reads the outpoint as spent: a tombstone,
\* or an erased FRESH entry over a spent view, or no entry at all because
\* FetchCash found nothing unspent.
LEMMA SpendEffect ==
    ASSUME IInv, NEW o \in Outpoints, NEW ps, SpendCash(o, ps)
    PROVE  ViewIn(cacheCash', baseMap', depth', o) = SPENT
<1> DEFINE mid == Fetched(o, ps)
           e == mid[depth][o]
<1>1. /\ depth \in Layers /\ depth \in Nat \ {0} /\ depth >= 1 /\ depth - 1 \in Nat
      /\ TypeOK /\ ~logicError
  BY ConstantsAssumption DEF SpendCash, CanCall, IInv, TypeOK, Layers
<1>2. mid \in Maps /\ GoodIn(mid, baseMap, depth)
  BY <1>1, FetchType, FetchGood DEF Maps, IInv, Layers
<1>3. UNCHANGED <<depth, baseMap>>
  BY DEF SpendCash
<1>4. CASE e = ABSENT
  <2>1. cacheCash' = mid
    BY <1>4 DEF SpendCash
  <2>2. ViewAt(depth, o) = SPENT
    BY <1>1, <1>4, FetchTop
  <2>3. ViewIn(mid, baseMap, depth, o) = ViewIn(cacheCash, baseMap, depth, o)
    <3>1. depth \in 0..depth
      BY <1>1
    <3> QED
      BY <1>1, <3>1, FetchViews
  <2> QED
    BY <1>3, <2>1, <2>2, <2>3, ViewAtIn
<1>5. CASE e # ABSENT
  <2>1. cacheCash' = [mid EXCEPT ![depth][o] = SpendResult(e)]
    BY <1>5 DEF SpendCash
  <2>2. cacheCash'[depth][o] = SpendResult(e)
    BY <1>1, <1>2, <2>1 DEF Maps
  <2>3. ViewIn(cacheCash', baseMap, depth, o) =
          IF cacheCash'[depth][o] # ABSENT THEN cacheCash'[depth][o].coin
          ELSE ViewIn(cacheCash', baseMap, depth - 1, o)
    <3>1. depth \in Nat \ {0}
      BY <1>1
    <3> QED
      BY <3>1, ViewStep
  <2>4. CASE e.fresh
    <3>1. SpendResult(e) = ABSENT
      BY <2>4 DEF SpendResult
    <3>2. ViewIn(cacheCash', baseMap, depth - 1, o) = ViewIn(mid, baseMap, depth - 1, o)
      <4>1. \A l \in 1..(depth - 1) : cacheCash'[l][o] = mid[l][o]
        BY <1>1, <1>2, <2>1 DEF Maps, Layers
      <4> QED
        BY <1>1, <4>1, ViewLocal
    <3>3. ViewIn(mid, baseMap, depth - 1, o) = SPENT
      <4>1. EntryGood(mid, baseMap, depth, o)
        BY <1>1, <1>2 DEF GoodIn
      <4> QED
        BY <1>5, <2>4, <4>1 DEF EntryGood
    <3> QED
      BY <1>3, <2>2, <2>3, <3>1, <3>2, <3>3
  <2>5. CASE ~e.fresh
    <3>1. SpendResult(e) = [coin |-> SPENT, dirty |-> TRUE, fresh |-> e.fresh]
      BY <2>5 DEF SpendResult
    <3>2. e.fresh \in BOOLEAN /\ SPENT \in Coin
      BY <1>1, <1>2, <1>5 DEF Maps, Entry, Coin
    <3>3. SpendResult(e) \in Entry
      BY <3>1, <3>2, DirtyEntry
    <3>4. SpendResult(e) # ABSENT /\ SpendResult(e).coin = SPENT
      <4>1. SpendResult(e) # ABSENT
        BY <3>3, AbsentNotEntry, Zenon
      <4>2. SpendResult(e).coin = SPENT
        BY <3>1, <3>2
      <4> QED
        BY <4>1, <4>2
    <3> QED
      BY <1>3, <2>2, <2>3, <3>4
  <2> QED
    BY <2>4, <2>5
<1> QED
  BY <1>4, <1>5

\* An AddCash of a spendable output that does not throw leaves the top
\* layer holding that output.
LEMMA AddEffect ==
    ASSUME TypeOK, NEW o \in Outpoints, NEW v \in Values \ Unspendable, NEW ow \in BOOLEAN,
           AddCashSpendable(o, v, ow), ~logicError'
    PROVE  ViewIn(cacheCash', baseMap', depth', o) = v
<1> DEFINE e == cacheCash[depth][o]
           prior == IF e = ABSENT THEN [coin |-> SPENT, dirty |-> FALSE, fresh |-> FALSE] ELSE e
           ne == [coin |-> v, dirty |-> TRUE, fresh |-> prior.fresh \/ AddFresh(prior, ow)]
<1>1. /\ depth \in Layers /\ depth \in Nat \ {0} /\ cacheCash \in Maps
      /\ UNCHANGED <<depth, baseMap>>
  BY ConstantsAssumption DEF AddCashSpendable, CanCall, TypeOK, Layers, Maps
<1>2. cacheCash' = [cacheCash EXCEPT ![depth][o] = ne]
  BY DEF AddCashSpendable, AddCashTo
<1>3. cacheCash'[depth][o] = ne
  BY <1>1, <1>2 DEF Maps
<1>4. ne # ABSENT /\ ne.coin = v
  <2>1. v \in Coin /\ (prior.fresh \/ AddFresh(prior, ow)) \in BOOLEAN
    BY DEF Coin
  <2>2. ne \in Entry
    BY <2>1, DirtyEntry
  <2> QED
    BY <2>2, AbsentNotEntry
<1>5. ViewIn(cacheCash', baseMap, depth, o) =
        IF cacheCash'[depth][o] # ABSENT THEN cacheCash'[depth][o].coin
        ELSE ViewIn(cacheCash', baseMap, depth - 1, o)
  <2>1. depth \in Nat \ {0}
    BY <1>1
  <2> QED
    BY <2>1, ViewStep
<1> QED
  BY <1>1, <1>3, <1>4, <1>5

\* CallsTakeEffect: a SpendCash makes the top layer read the outpoint as
\* spent and an AddCash that does not throw makes it read the new output,
\* whatever the layers below and the base hold, for every depth of the
\* stack, when callers keep the AddCash contract.  The erase of a FRESH
\* entry in SpendCash is right only because FRESH is right (InvariantHolds).
THEOREM CallsTakeEffectCorrect == ASSUME CallerChecksOverwrite PROVE Spec => CallsTakeEffect
<1>1. IInv /\ [Next]_vars =>
        [\A o \in Outpoints :
            /\ (\E ps \in BOOLEAN : SpendCash(o, ps)) => (ViewAt(depth, o))' = SPENT
            /\ \A v \in Values \ Unspendable, ow \in BOOLEAN :
                  AddCashSpendable(o, v, ow) /\ ~logicError' => (ViewAt(depth, o))' = v
        ]_vars
  <2> SUFFICES ASSUME IInv, NEW o \in Outpoints
               PROVE  /\ (\E ps \in BOOLEAN : SpendCash(o, ps)) => (ViewAt(depth, o))' = SPENT
                      /\ \A v \in Values \ Unspendable, ow \in BOOLEAN :
                            AddCashSpendable(o, v, ow) /\ ~logicError' => (ViewAt(depth, o))' = v
    OBVIOUS
  <2>1. (ViewAt(depth, o))' = ViewIn(cacheCash', baseMap', depth', o)
    BY ViewAtNext
  <2>2. (\E ps \in BOOLEAN : SpendCash(o, ps)) => (ViewAt(depth, o))' = SPENT
    BY <2>1, SpendEffect
  <2>3. \A v \in Values \ Unspendable, ow \in BOOLEAN :
           AddCashSpendable(o, v, ow) /\ ~logicError' => (ViewAt(depth, o))' = v
    BY <2>1, AddEffect DEF IInv
  <2> QED
    BY <2>2, <2>3
<1>2. Spec => []IInv
  BY InvariantHolds
<1>3. Spec => [][Next]_vars
  BY PTL DEF Spec
<1> QED
  BY <1>1, <1>2, <1>3, PTL DEF CallsTakeEffect

\* TxAddNeverThrows: AddCash(tx) with check, or for a cashbase, never
\* throws, whatever callers do elsewhere (no contract assumed): with check the
\* flag is TRUE exactly when the top layer holds an unspent entry, and the
\* throw needs an unspent prior entry under a FALSE flag.
THEOREM TxAddCorrect == Spec => TxAddNeverThrows
<1>1. ASSUME NEW o \in Outpoints, NEW v \in Values, NEW cb \in BOOLEAN,
             NEW chk \in BOOLEAN, NEW ps \in BOOLEAN,
             AddCashTx(o, v, cb, chk, ps), chk \/ cb
      PROVE  ~logicError'
  <2> DEFINE cc == IF chk THEN Fetched(o, ps) ELSE cacheCash
             cu == IF chk THEN FetchedUsage(o, ps) ELSE cachedCashUsage
             have == cc[depth][o] # ABSENT /\ cc[depth][o].coin # SPENT
             overwrite == IF chk THEN have ELSE cb
  <2>1. /\ ~logicError
        /\ IF v \in Unspendable
              THEN cacheCash' = cc /\ cachedCashUsage' = cu /\ UNCHANGED logicError
              ELSE AddCashTo(cc, cu, o, v, overwrite)
    BY <1>1 DEF AddCashTx, CanCall
  <2>2. overwrite \/ ~have
    BY <1>1
  <2>3. CASE v \in Unspendable
    BY <2>1, <2>3
  <2>4. CASE v \notin Unspendable
    <3>1. AddCashTo(cc, cu, o, v, overwrite)
      BY <2>1, <2>4
    <3>2. ~(~overwrite /\ (IF cc[depth][o] = ABSENT
                              THEN [coin |-> SPENT, dirty |-> FALSE, fresh |-> FALSE]
                              ELSE cc[depth][o]).coin # SPENT)
      BY <2>2
    <3> QED
      BY <2>1, <3>1, <3>2 DEF AddCashTo
  <2> QED
    BY <2>3, <2>4
<1>2. [Next]_vars =>
        [\A o \in Outpoints, v \in Values, cb, chk, ps \in BOOLEAN :
            (AddCashTx(o, v, cb, chk, ps) /\ (chk \/ cb)) => ~logicError']_vars
  BY <1>1
<1> QED
  BY <1>2, PTL DEF Spec, TxAddNeverThrows

=============================================================================
