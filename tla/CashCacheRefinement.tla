------------------------- MODULE CashCacheRefinement -------------------------
(***************************************************************************)
(* Proof that the cache stack implements UtxoStack under the refinement    *)
(* mapping AbsViews of CashCache (layer k of the abstract stack is what a  *)
(* read through cache layer k-1 finds, the base view for k = 1), when      *)
(* callers keep the AddCash contract.  Every step of CashCache maps to a   *)
(* step of UtxoStack or to a stutter:                                      *)
(*   reads, Uncache, best-block calls, unspendable adds -> stutter;        *)
(*   SpendCash -> Spend;  AddCash, AddCash(tx) -> Add (or a stutter);      *)
(*   Flush of layer i -> Flush(i);  new layer -> Push;  delete -> Drop.    *)
(* The step argument rests on the inductive invariant IInv of              *)
(* CashCacheFresh: a clean entry holds the view below it (Uncache), a      *)
(* FRESH entry sits over a spent view (SpendCash erasing it, BatchWrite    *)
(* dropping it), and no logic error is thrown (FlushThrows never happens).  *)
(***************************************************************************)
EXTENDS CashCacheFresh, SequenceTheorems

\* The refinement mapping over explicit maps: the views of a stack of d
\* layers cc over the base view bm.
AbsIn(cc, bm, d) == [k \in 1..(d + 1) |-> [o \in Outpoints |-> ViewIn(cc, bm, k - 1, o)]]

\* AbsViews is AbsIn over the stack's maps, before and after a step.
LEMMA AbsViewsIn ==
    /\ AbsViews = AbsIn(cacheCash, baseMap, depth)
    /\ AbsViews' = AbsIn(cacheCash', baseMap', depth')
BY DEF AbsViews, AbsIn, ViewAt, ViewIn, Holder, HolderIn, BaseCoin, BaseIn

\* Two stacks of the same depth that read alike through every layer have
\* the same views.
LEMMA AbsSame ==
    ASSUME NEW cc1, NEW bm1, NEW cc2, NEW bm2, NEW d \in Nat,
           \A j \in 0..d, x \in Outpoints : ViewIn(cc2, bm2, j, x) = ViewIn(cc1, bm1, j, x)
    PROVE  AbsIn(cc2, bm2, d) = AbsIn(cc1, bm1, d)
BY DEF AbsIn

\* The abstract stack of d cache layers has d + 1 views.
LEMMA AbsLen ==
    ASSUME NEW cc, NEW bm, NEW d \in Nat
    PROVE  Len(AbsIn(cc, bm, d)) = d + 1
BY DEF AbsIn

\* A write to entry (d, o) of the layers changes no read through a lower
\* layer, nor any read of another outpoint.
LEMMA TopWriteViews ==
    ASSUME NEW cc, NEW cc2, NEW bm, NEW d \in Layers, NEW o,
           \A l \in Layers, x \in Outpoints : l # d \/ x # o => cc2[l][x] = cc[l][x],
           NEW j \in 0..d, NEW x \in Outpoints, j < d \/ x # o
    PROVE  ViewIn(cc2, bm, j, x) = ViewIn(cc, bm, j, x)
<1>1. j \in Nat /\ \A k \in 1..j : k \in Layers /\ (k # d \/ x # o)
  BY ConstantsAssumption DEF Layers
<1>2. \A k \in 1..j : cc2[k][x] = cc[k][x]
  BY <1>1
<1> QED
  BY <1>1, <1>2, ViewLocal

\* The views of a stack whose reads agree except the top read of o, which
\* becomes w, are the old views with the top view of o replaced by w.
LEMMA AbsTopWrite ==
    ASSUME NEW cc1, NEW bm1, NEW cc2, NEW bm2, NEW d \in Nat, NEW o \in Outpoints, NEW w,
           \A j \in 0..d, x \in Outpoints :
              j < d \/ x # o => ViewIn(cc2, bm2, j, x) = ViewIn(cc1, bm1, j, x),
           ViewIn(cc2, bm2, d, o) = w
    PROVE  AbsIn(cc2, bm2, d) = [AbsIn(cc1, bm1, d) EXCEPT ![d + 1][o] = w]
<1>1. \A k \in 1..(d + 1), x \in Outpoints :
        AbsIn(cc2, bm2, d)[k][x] = IF k = d + 1 /\ x = o THEN w ELSE AbsIn(cc1, bm1, d)[k][x]
  <2> SUFFICES ASSUME NEW k \in 1..(d + 1), NEW x \in Outpoints
               PROVE  AbsIn(cc2, bm2, d)[k][x] =
                        IF k = d + 1 /\ x = o THEN w ELSE AbsIn(cc1, bm1, d)[k][x]
    OBVIOUS
  <2>1. k - 1 \in 0..d /\ (k = d + 1 <=> k - 1 = d)
    OBVIOUS
  <2> QED
    BY <2>1 DEF AbsIn
<1> DEFINE A1 == AbsIn(cc1, bm1, d)
           A2 == AbsIn(cc2, bm2, d)
<1>2. /\ A1 = [k \in 1..(d + 1) |-> [x \in Outpoints |-> A1[k][x]]]
      /\ A2 = [k \in 1..(d + 1) |-> [x \in Outpoints |-> A2[k][x]]]
  BY DEF AbsIn
<1>3. d + 1 \in 1..(d + 1) /\ o \in DOMAIN A1[d + 1]
  BY DEF AbsIn
<1>4. [A1 EXCEPT ![d + 1][o] = w] =
        [k \in 1..(d + 1) |-> [x \in Outpoints |->
            IF k = d + 1 /\ x = o THEN w ELSE A1[k][x]]]
  BY <1>2, <1>3
<1>5. A2 = [k \in 1..(d + 1) |-> [x \in Outpoints |->
             IF k = d + 1 /\ x = o THEN w ELSE A1[k][x]]]
  BY <1>1, <1>2
<1> QED
  BY <1>4, <1>5

\* The stack starts as one empty layer over an empty base view: both
\* abstract views are all spent.
LEMMA InitRefines == Init => Abstract!Init
<1> SUFFICES ASSUME Init
             PROVE  AbsIn(cacheCash, baseMap, depth) =
                      <<[o \in Outpoints |-> SPENT], [o \in Outpoints |-> SPENT]>>
  BY AbsViewsIn DEF Abstract!Init
<1>0. depth = 1 /\ 1 \in Layers /\ cacheCash[1] = EmptyMap /\ baseMap = EmptyMap
  BY ConstantsAssumption DEF Init, Layers
<1>1. \A x \in Outpoints : ViewIn(cacheCash, baseMap, 0, x) = SPENT
  BY <1>0, ViewBase DEF BaseIn, EmptyMap
<1>2. \A x \in Outpoints : ViewIn(cacheCash, baseMap, 1, x) = SPENT
  <2> SUFFICES ASSUME NEW x \in Outpoints PROVE ViewIn(cacheCash, baseMap, 1, x) = SPENT
    OBVIOUS
  <2>1. 1 \in Nat \ {0}
    OBVIOUS
  <2>2. ViewIn(cacheCash, baseMap, 1, x) =
          IF cacheCash[1][x] # ABSENT THEN cacheCash[1][x].coin
          ELSE ViewIn(cacheCash, baseMap, 1 - 1, x)
    BY <2>1, ViewStep
  <2> QED
    BY <1>0, <1>1, <2>2 DEF EmptyMap
<1> QED
  BY <1>0, <1>1, <1>2 DEF AbsIn
\* A stack whose read through layer i-1 now finds what the read through
\* layer i found, every other read unchanged, has its view i replaced by
\* view i+1: an abstract Flush(i).
LEMMA AbsFlush ==
    ASSUME NEW cc1, NEW bm1, NEW cc2, NEW bm2, NEW d \in Nat, NEW i \in 1..d,
           \A x \in Outpoints : ViewIn(cc2, bm2, i - 1, x) = ViewIn(cc1, bm1, i, x),
           \A j \in 0..d, x \in Outpoints :
              j # i - 1 => ViewIn(cc2, bm2, j, x) = ViewIn(cc1, bm1, j, x)
    PROVE  AbsIn(cc2, bm2, d) = [AbsIn(cc1, bm1, d) EXCEPT ![i] = AbsIn(cc1, bm1, d)[i + 1]]
<1>1. i \in 1..(d + 1) /\ i + 1 \in 1..(d + 1)
  OBVIOUS
<1>2. \A k \in 1..(d + 1) :
        AbsIn(cc2, bm2, d)[k] = IF k = i THEN AbsIn(cc1, bm1, d)[i + 1] ELSE AbsIn(cc1, bm1, d)[k]
  <2> SUFFICES ASSUME NEW k \in 1..(d + 1)
               PROVE  AbsIn(cc2, bm2, d)[k] =
                        IF k = i THEN AbsIn(cc1, bm1, d)[i + 1] ELSE AbsIn(cc1, bm1, d)[k]
    OBVIOUS
  <2>1. k - 1 \in 0..d /\ (k = i <=> k - 1 = i - 1) /\ (i + 1) - 1 = i
    OBVIOUS
  <2> QED
    BY <1>1, <2>1 DEF AbsIn
<1> QED
  BY <1>1, <1>2 DEF AbsIn

\* A new layer that reads like the top one adds a copy of the top view:
\* an abstract Push.
LEMMA AbsPush ==
    ASSUME NEW cc, NEW bm, NEW d \in Nat,
           \A x \in Outpoints : ViewIn(cc, bm, d + 1, x) = ViewIn(cc, bm, d, x)
    PROVE  AbsIn(cc, bm, d + 1) = Append(AbsIn(cc, bm, d), AbsIn(cc, bm, d)[d + 1])
<1> DEFINE A == AbsIn(cc, bm, d)
           B == AbsIn(cc, bm, d + 1)
           S == {B[k] : k \in 1..(d + 2)}
<1>1. \A k \in 1..(d + 1) : A[k] = B[k]
  BY DEF AbsIn
<1>2. A[d + 1] = B[d + 2]
  BY DEF AbsIn
<1>3. A \in Seq(S) /\ B \in Seq(S) /\ A[d + 1] \in S
  <2>1. \A k \in 1..(d + 1) : A[k] \in S
    BY <1>1
  <2>2. A \in [1..(d + 1) -> S] /\ B \in [1..(d + 2) -> S]
    BY <2>1 DEF AbsIn
  <2>3. d + 1 \in Nat /\ d + 2 \in Nat
    OBVIOUS
  <2>4. A \in UNION {[1..n -> S] : n \in Nat} /\ B \in UNION {[1..n -> S] : n \in Nat}
    BY <2>2, <2>3, Zenon
  <2>5. A[d + 1] \in S
    BY <1>2
  <2> HIDE DEF A, B, S
  <2> QED
    BY <2>4, <2>5, SeqDef
<1>4. Len(A) = d + 1 /\ Len(B) = d + 2
  BY AbsLen
<1>5. /\ Append(A, A[d + 1]) \in Seq(S)
      /\ Len(Append(A, A[d + 1])) = d + 2
      /\ \A k \in 1..(d + 1) : Append(A, A[d + 1])[k] = A[k]
      /\ Append(A, A[d + 1])[d + 2] = A[d + 1]
  BY <1>3, <1>4, AppendProperties
<1>6. \A k \in 1..Len(B) : B[k] = Append(A, A[d + 1])[k]
  BY <1>1, <1>2, <1>4, <1>5
<1> QED
  BY <1>3, <1>4, <1>5, <1>6, SeqEqual

\* Deleting the top layer when the reads through the layers below do not
\* change drops the top view: an abstract Drop.
LEMMA AbsDrop ==
    ASSUME NEW cc1, NEW bm1, NEW cc2, NEW bm2, NEW d \in Nat \ {0},
           \A j \in 0..(d - 1), x \in Outpoints : ViewIn(cc2, bm2, j, x) = ViewIn(cc1, bm1, j, x)
    PROVE  AbsIn(cc2, bm2, d - 1) = SubSeq(AbsIn(cc1, bm1, d), 1, d)
<1> DEFINE A1 == AbsIn(cc1, bm1, d)
<1>1. SubSeq(A1, 1, d) = [k \in 1..d |-> A1[k]]
  <2>1. 1 + d - 1 = d /\ \A k \in 1..d : k + 1 - 1 = k
    OBVIOUS
  <2> QED
    BY <2>1
<1>2. AbsIn(cc2, bm2, d - 1) = [k \in 1..d |-> A1[k]]
  <2>1. (d - 1) + 1 = d /\ \A k \in 1..d : k - 1 \in 0..(d - 1) /\ k \in 1..(d + 1)
    OBVIOUS
  <2> QED
    BY <2>1 DEF AbsIn
<1> QED
  BY <1>1, <1>2

-----------------------------------------------------------------------------
(* The operations on the top layer.                                        *)

\* SpendCash is an abstract Spend: FetchCash changes no view, and the
\* spend changes only the top view of o, which becomes spent.
LEMMA SpendRefines ==
    ASSUME IInv, NEW o \in Outpoints, NEW ps, SpendCash(o, ps)
    PROVE  AbsIn(cacheCash', baseMap', depth') =
             [AbsIn(cacheCash, baseMap, depth) EXCEPT ![depth + 1][o] = SPENT]
<1> DEFINE mid == Fetched(o, ps)
           e == mid[depth][o]
<1>1. /\ depth \in Layers /\ depth \in Nat /\ depth >= 1 /\ TypeOK
      /\ UNCHANGED <<depth, baseMap>>
  BY ConstantsAssumption DEF SpendCash, CanCall, IInv, TypeOK, Layers
<1>2. mid \in Maps
  BY <1>1, FetchType DEF Maps
<1>3. \A l \in Layers, x \in Outpoints : l # depth \/ x # o => cacheCash'[l][x] = mid[l][x]
  <2>1. CASE e = ABSENT
    BY <2>1 DEF SpendCash
  <2>2. CASE e # ABSENT
    <3>1. cacheCash' = [mid EXCEPT ![depth][o] = SpendResult(e)]
      BY <2>2 DEF SpendCash
    <3> QED
      BY <1>1, <1>2, <3>1 DEF Maps
  <2> QED
    BY <2>1, <2>2
<1>4. \A j \in 0..depth, x \in Outpoints :
        j < depth \/ x # o => ViewIn(cacheCash', baseMap, j, x) = ViewIn(mid, baseMap, j, x)
  <2> SUFFICES ASSUME NEW j \in 0..depth, NEW x \in Outpoints, j < depth \/ x # o
               PROVE  ViewIn(cacheCash', baseMap, j, x) = ViewIn(mid, baseMap, j, x)
    OBVIOUS
  <2>1. depth \in Layers
    BY <1>1
  <2> QED
    BY <2>1, <1>3, TopWriteViews
<1>5. \A j \in 0..depth, x \in Outpoints :
        ViewIn(mid, baseMap, j, x) = ViewIn(cacheCash, baseMap, j, x)
  BY <1>1, FetchViews
<1>6. ViewIn(cacheCash', baseMap', depth', o) = SPENT
  BY SpendEffect
<1>7. \A j \in 0..depth, x \in Outpoints :
        j < depth \/ x # o => ViewIn(cacheCash', baseMap', j, x) = ViewIn(cacheCash, baseMap, j, x)
  BY <1>1, <1>4, <1>5
<1>8. ViewIn(cacheCash', baseMap', depth, o) = SPENT
  BY <1>1, <1>6
<1>9. AbsIn(cacheCash', baseMap', depth) =
        [AbsIn(cacheCash, baseMap, depth) EXCEPT ![depth + 1][o] = SPENT]
  BY <1>1, <1>7, <1>8, AbsTopWrite
<1> QED
  BY <1>1, <1>9
\* AddCashTo that does not throw writes the entry (depth, o) of cc and
\* nothing else, and the top layer then reads the added output.
LEMMA AddToViews ==
    ASSUME NEW cc \in Maps, NEW cu, NEW o \in Outpoints, NEW v \in Values, NEW ow \in BOOLEAN,
           NEW bm, depth \in Layers, AddCashTo(cc, cu, o, v, ow), ~logicError'
    PROVE  /\ \A l \in Layers, x \in Outpoints : l # depth \/ x # o => cacheCash'[l][x] = cc[l][x]
           /\ ViewIn(cacheCash', bm, depth, o) = v
<1> DEFINE e == cc[depth][o]
           prior == IF e = ABSENT THEN [coin |-> SPENT, dirty |-> FALSE, fresh |-> FALSE] ELSE e
           ne == [coin |-> v, dirty |-> TRUE, fresh |-> prior.fresh \/ AddFresh(prior, ow)]
<1>1. cacheCash' = [cc EXCEPT ![depth][o] = ne]
  BY DEF AddCashTo
<1>2. \A l \in Layers, x \in Outpoints : l # depth \/ x # o => cacheCash'[l][x] = cc[l][x]
  BY <1>1 DEF Maps
<1>3. cacheCash'[depth][o] = ne
  BY <1>1 DEF Maps
<1>4. ne # ABSENT /\ ne.coin = v
  <2>1. v \in Coin /\ (prior.fresh \/ AddFresh(prior, ow)) \in BOOLEAN
    BY DEF Coin
  <2>2. ne \in Entry
    BY <2>1, DirtyEntry
  <2> QED
    BY <2>2, AbsentNotEntry
<1>5. ViewIn(cacheCash', bm, depth, o) =
        IF cacheCash'[depth][o] # ABSENT THEN cacheCash'[depth][o].coin
        ELSE ViewIn(cacheCash', bm, depth - 1, o)
  <2>1. depth \in Nat \ {0}
    BY ConstantsAssumption DEF Layers
  <2> QED
    BY <2>1, ViewStep
<1> QED
  BY <1>2, <1>3, <1>4, <1>5

\* AddCash of a spendable output that does not throw is an abstract Add.
LEMMA AddRefines ==
    ASSUME IInv, NEW o \in Outpoints, NEW v \in Values \ Unspendable, NEW ow \in BOOLEAN,
           AddCashSpendable(o, v, ow), ~logicError'
    PROVE  AbsIn(cacheCash', baseMap', depth') =
             [AbsIn(cacheCash, baseMap, depth) EXCEPT ![depth + 1][o] = v]
<1>1. /\ depth \in Layers /\ depth \in Nat /\ cacheCash \in Maps
      /\ UNCHANGED <<depth, baseMap>>
  BY ConstantsAssumption DEF AddCashSpendable, CanCall, IInv, TypeOK, Layers, Maps
<1>2. AddCashTo(cacheCash, cachedCashUsage, o, v, ow)
  BY DEF AddCashSpendable
<1>3. /\ \A l \in Layers, x \in Outpoints :
           l # depth \/ x # o => cacheCash'[l][x] = cacheCash[l][x]
      /\ ViewIn(cacheCash', baseMap, depth, o) = v
  <2>1. cacheCash \in Maps /\ depth \in Layers /\ v \in Values
    BY <1>1
  <2> QED
    BY <2>1, <1>2, AddToViews
<1>4. \A j \in 0..depth, x \in Outpoints :
        j < depth \/ x # o => ViewIn(cacheCash', baseMap, j, x) = ViewIn(cacheCash, baseMap, j, x)
  <2> SUFFICES ASSUME NEW j \in 0..depth, NEW x \in Outpoints, j < depth \/ x # o
               PROVE  ViewIn(cacheCash', baseMap, j, x) = ViewIn(cacheCash, baseMap, j, x)
    OBVIOUS
  <2>1. j \in Nat /\ \A k \in 1..j : k \in Layers /\ (k # depth \/ x # o)
    BY <1>1, ConstantsAssumption DEF Layers
  <2>2. \A k \in 1..j : cacheCash'[k][x] = cacheCash[k][x]
    BY <1>3, <2>1
  <2> QED
    BY <2>1, <2>2, ViewLocal
<1>5. AbsIn(cacheCash', baseMap, depth) =
        [AbsIn(cacheCash, baseMap, depth) EXCEPT ![depth + 1][o] = v]
  BY <1>1, <1>3, <1>4, AbsTopWrite
<1> QED
  BY <1>1, <1>5
\* AddCash(tx) that does not throw is an abstract Add of a spendable
\* output, or a stutter for an unspendable one: the FetchCash of its check
\* changes no view.
LEMMA AddTxRefines ==
    ASSUME IInv, NEW o \in Outpoints, NEW v \in Values, NEW cb \in BOOLEAN,
           NEW chk \in BOOLEAN, NEW ps, AddCashTx(o, v, cb, chk, ps), ~logicError'
    PROVE  \/ AbsIn(cacheCash', baseMap', depth') = AbsIn(cacheCash, baseMap, depth)
           \/ /\ v \in Values \ Unspendable
              /\ AbsIn(cacheCash', baseMap', depth') =
                   [AbsIn(cacheCash, baseMap, depth) EXCEPT ![depth + 1][o] = v]
<1> DEFINE cc   == IF chk THEN Fetched(o, ps) ELSE cacheCash
           cu   == IF chk THEN FetchedUsage(o, ps) ELSE cachedCashUsage
           have == cc[depth][o] # ABSENT /\ cc[depth][o].coin # SPENT
           overwrite == IF chk THEN have ELSE cb
<1>1. /\ depth \in Layers /\ depth \in Nat /\ depth >= 1 /\ TypeOK
      /\ UNCHANGED <<depth, baseMap>>
  BY ConstantsAssumption DEF AddCashTx, CanCall, IInv, TypeOK, Layers
<1>2. cc \in Maps
  BY <1>1, FetchType DEF Maps, TypeOK
<1>3. \A j \in 0..depth, x \in Outpoints :
        ViewIn(cc, baseMap, j, x) = ViewIn(cacheCash, baseMap, j, x)
  BY <1>1, FetchViews
<1>4. IF v \in Unspendable
         THEN cacheCash' = cc
         ELSE AddCashTo(cc, cu, o, v, overwrite)
  BY DEF AddCashTx
<1>5. CASE v \in Unspendable
  <2>1. \A j \in 0..depth, x \in Outpoints :
           ViewIn(cacheCash', baseMap, j, x) = ViewIn(cacheCash, baseMap, j, x)
    BY <1>3, <1>4, <1>5
  <2>2. AbsIn(cacheCash', baseMap, depth) = AbsIn(cacheCash, baseMap, depth)
    BY <1>1, <2>1, AbsSame
  <2> QED
    BY <1>1, <2>2
<1>6. CASE v \notin Unspendable
  <2>1. overwrite \in BOOLEAN /\ depth \in Layers /\ cc \in Maps
    BY <1>1, <1>2
  <2> HIDE DEF cc, cu, overwrite
  <2>2. /\ \A l \in Layers, x \in Outpoints : l # depth \/ x # o => cacheCash'[l][x] = cc[l][x]
        /\ ViewIn(cacheCash', baseMap, depth, o) = v
    <3>1. AddCashTo(cc, cu, o, v, overwrite)
      BY <1>4, <1>6
    <3> QED
      BY <2>1, <3>1, AddToViews
  <2>3. ASSUME NEW j \in 0..depth, NEW x \in Outpoints, j < depth \/ x # o
        PROVE  ViewIn(cacheCash', baseMap, j, x) = ViewIn(cacheCash, baseMap, j, x)
    <3>1. j \in Nat /\ \A k \in 1..j : k \in Layers /\ (k # depth \/ x # o)
      BY <1>1, <2>3, ConstantsAssumption DEF Layers
    <3>2. \A k \in 1..j : cacheCash'[k][x] = cc[k][x]
      BY <2>2, <3>1
    <3>3. ViewIn(cacheCash', baseMap, j, x) = ViewIn(cc, baseMap, j, x)
      BY <3>1, <3>2, ViewLocal
    <3> QED
      BY <1>3, <3>3
  <2>4. AbsIn(cacheCash', baseMap, depth) =
          [AbsIn(cacheCash, baseMap, depth) EXCEPT ![depth + 1][o] = v]
    BY <1>1, <2>2, <2>3, AbsTopWrite
  <2> QED
    BY <1>1, <1>6, <2>4
<1> QED
  BY <1>5, <1>6
-----------------------------------------------------------------------------
(* Flush, new layer and delete.                                            *)

\* Flush of layer 1 into the base view is an abstract Flush(1).
LEMMA FlushToBaseRefines ==
    ASSUME IInv, NEW E \in SUBSET Outpoints, FlushToBase(E)
    PROVE  /\ depth >= 1
           /\ AbsIn(cacheCash', baseMap', depth') =
                [AbsIn(cacheCash, baseMap, depth) EXCEPT ![1] = AbsIn(cacheCash, baseMap, depth)[2]]
<1>1. depth \in Nat /\ depth >= 1 /\ 1 \in 1..depth /\ depth' = depth
  BY ConstantsAssumption DEF FlushToBase, CanCall, IInv, TypeOK
<1>2. /\ \A x \in Outpoints : BaseIn(baseMap', x) = ViewIn(cacheCash, baseMap, 1, x)
      /\ \A j \in 1..depth, x \in Outpoints :
            ViewIn(cacheCash', baseMap', j, x) = ViewIn(cacheCash, baseMap, j, x)
  BY FlushToBaseViews
<1>3. \A x \in Outpoints : ViewIn(cacheCash', baseMap', 1 - 1, x) = ViewIn(cacheCash, baseMap, 1, x)
  BY <1>2, ViewBase
<1>4. \A j \in 0..depth, x \in Outpoints :
        j # 1 - 1 => ViewIn(cacheCash', baseMap', j, x) = ViewIn(cacheCash, baseMap, j, x)
  BY <1>2
<1>5. AbsIn(cacheCash', baseMap', depth) =
        [AbsIn(cacheCash, baseMap, depth) EXCEPT ![1] = AbsIn(cacheCash, baseMap, depth)[1 + 1]]
  BY <1>1, <1>3, <1>4, AbsFlush
<1> QED
  BY <1>1, <1>5

\* Flush of layer i > 1 into layer i-1 is an abstract Flush(i).
LEMMA FlushToCacheRefines ==
    ASSUME IInv, NEW i \in Layers, FlushToCache(i)
    PROVE  /\ i \in 1..depth
           /\ AbsIn(cacheCash', baseMap', depth') =
                [AbsIn(cacheCash, baseMap, depth) EXCEPT ![i] = AbsIn(cacheCash, baseMap, depth)[i + 1]]
<1>1. depth \in Nat /\ i \in 2..depth /\ i \in 1..depth /\ UNCHANGED <<depth, baseMap>>
  BY ConstantsAssumption DEF FlushToCache, IInv, TypeOK
<1>2. /\ \A j \in 0..(i - 2), x \in Outpoints :
            ViewIn(cacheCash', baseMap, j, x) = ViewIn(cacheCash, baseMap, j, x)
      /\ \A x \in Outpoints :
            ViewIn(cacheCash', baseMap, i - 1, x) = ViewIn(cacheCash, baseMap, i, x)
      /\ \A j \in i..depth, x \in Outpoints :
            ViewIn(cacheCash', baseMap, j, x) = ViewIn(cacheCash, baseMap, j, x)
  BY FlushToCacheViews
<1>3. \A j \in 0..depth, x \in Outpoints :
        j # i - 1 => ViewIn(cacheCash', baseMap, j, x) = ViewIn(cacheCash, baseMap, j, x)
  <2>1. \A j \in 0..depth : j # i - 1 => j \in 0..(i - 2) \/ j \in i..depth
    BY <1>1
  <2> QED
    BY <1>2, <2>1
<1>4. AbsIn(cacheCash', baseMap, depth) =
        [AbsIn(cacheCash, baseMap, depth) EXCEPT ![i] = AbsIn(cacheCash, baseMap, depth)[i + 1]]
  BY <1>1, <1>2, <1>3, AbsFlush
<1> QED
  BY <1>1, <1>4

\* A new layer starts empty, so it reads like the top one: an abstract Push.
LEMMA PushRefines ==
    ASSUME IInv, PushCache
    PROVE  /\ depth + 1 <= MaxDepth
           /\ AbsIn(cacheCash', baseMap', depth') =
                Append(AbsIn(cacheCash, baseMap, depth), AbsIn(cacheCash, baseMap, depth)[depth + 1])
<1>1. /\ depth \in Nat /\ depth + 1 <= MaxDepth /\ depth' = depth + 1
      /\ depth + 1 \in Layers /\ cacheCash[depth + 1] = EmptyMap
      /\ UNCHANGED <<cacheCash, baseMap>>
  BY ConstantsAssumption DEF PushCache, IInv, TypeOK, Layers
<1>2. \A x \in Outpoints : ViewIn(cacheCash, baseMap, depth + 1, x) = ViewIn(cacheCash, baseMap, depth, x)
  <2> SUFFICES ASSUME NEW x \in Outpoints
               PROVE  ViewIn(cacheCash, baseMap, depth + 1, x) = ViewIn(cacheCash, baseMap, depth, x)
    OBVIOUS
  <2>1. depth + 1 \in Nat \ {0}
    BY <1>1
  <2>2. ViewIn(cacheCash, baseMap, depth + 1, x) =
          IF cacheCash[depth + 1][x] # ABSENT THEN cacheCash[depth + 1][x].coin
          ELSE ViewIn(cacheCash, baseMap, (depth + 1) - 1, x)
    BY <2>1, ViewStep
  <2> QED
    BY <1>1, <2>2 DEF EmptyMap
<1>3. AbsIn(cacheCash, baseMap, depth + 1) =
        Append(AbsIn(cacheCash, baseMap, depth), AbsIn(cacheCash, baseMap, depth)[depth + 1])
  BY <1>1, <1>2, AbsPush
<1> QED
  BY <1>1, <1>3

\* Deleting the top layer leaves the reads through the layers below as they
\* were: an abstract Drop.
LEMMA DropRefines ==
    ASSUME IInv, DropCache
    PROVE  /\ depth >= 1
           /\ AbsIn(cacheCash', baseMap', depth') = SubSeq(AbsIn(cacheCash, baseMap, depth), 1, depth)
<1>1. /\ depth \in Layers /\ depth \in Nat \ {0} /\ depth' = depth - 1 /\ cacheCash \in Maps
      /\ cacheCash' = [cacheCash EXCEPT ![depth] = EmptyMap]
      /\ UNCHANGED baseMap
  BY ConstantsAssumption DEF DropCache, CanCall, IInv, TypeOK, Layers, Maps
<1>2. ASSUME NEW j \in 0..(depth - 1), NEW x \in Outpoints
      PROVE  ViewIn(cacheCash', baseMap, j, x) = ViewIn(cacheCash, baseMap, j, x)
  <2>1. j \in Nat /\ \A l \in 1..j : l \in Layers /\ l # depth
    BY <1>1, ConstantsAssumption DEF Layers
  <2>2. \A l \in 1..j : cacheCash'[l][x] = cacheCash[l][x]
    BY <1>1, <2>1 DEF Maps
  <2> QED
    BY <2>1, <2>2, ViewLocal
<1>3. AbsIn(cacheCash', baseMap, depth - 1) = SubSeq(AbsIn(cacheCash, baseMap, depth), 1, depth)
  BY <1>1, <1>2, AbsDrop
<1>4. depth >= 1 /\ depth' = depth - 1 /\ baseMap' = baseMap
  BY <1>1
<1> QED
  BY <1>3, <1>4
-----------------------------------------------------------------------------
(* The refinement.                                                         *)

\* Every step from a state satisfying IInv that throws no logic error is a
\* step of UtxoStack on the views, or leaves them unchanged.
LEMMA StepRefines ==
    ASSUME IInv, ~logicError', [Next]_vars
    PROVE  [Abstract!Next]_AbsViews
<1> DEFINE A  == AbsIn(cacheCash, baseMap, depth)
           A2 == AbsIn(cacheCash', baseMap', depth')
<1>0. AbsViews = A /\ AbsViews' = A2
  BY AbsViewsIn
<1>1. depth \in Nat /\ Len(A) = depth + 1 /\ Abstract!Top = depth + 1
  <2>1. depth \in Nat
    BY DEF IInv, TypeOK
  <2>2. Len(A) = depth + 1
    BY <2>1, AbsLen
  <2> QED
    BY <1>0, <2>1, <2>2 DEF Abstract!Top
<1>2. ASSUME A2 = A PROVE [Abstract!Next]_AbsViews
  BY <1>0, <1>2
<1>3. ASSUME UNCHANGED <<cacheCash, baseMap, depth>> PROVE [Abstract!Next]_AbsViews
  BY <1>2, <1>3
<1>4. ASSUME NEW o \in Outpoints, NEW ps \in BOOLEAN,
             GetCash(o, ps) \/ HaveCash(o, ps) \/ AccessCash(o, ps)
      PROVE  [Abstract!Next]_AbsViews
  <2>1. FetchCash(o, ps) /\ depth >= 1 /\ TypeOK
    BY <1>4 DEF GetCash, HaveCash, AccessCash, CanCall, IInv
  <2>2. \A j \in 0..depth, x \in Outpoints :
           ViewIn(cacheCash', baseMap', j, x) = ViewIn(cacheCash, baseMap, j, x)
    <3>1. cacheCash' = Fetched(o, ps) /\ UNCHANGED <<depth, baseMap>>
      BY <2>1 DEF FetchCash
    <3> QED
      BY <2>1, <3>1, FetchViews
  <2>3. A2 = A
    <3>1. depth' = depth
      BY <2>1 DEF FetchCash
    <3> QED
      BY <1>1, <2>2, <3>1, AbsSame
  <2> QED
    BY <1>2, <2>3
<1>5. ASSUME NEW o \in Outpoints, NEW ps \in BOOLEAN, SpendCash(o, ps)
      PROVE  [Abstract!Next]_AbsViews
  <2>1. A2 = [A EXCEPT ![depth + 1][o] = SPENT] /\ depth >= 1
    BY <1>5, SpendRefines DEF SpendCash, CanCall
  <2>2. Abstract!Spend(o)
    BY <1>0, <1>1, <2>1 DEF Abstract!Spend
  <2> QED
    BY <2>2 DEF Abstract!Next
<1>6. ASSUME NEW o \in Outpoints, NEW v \in Values, NEW ow \in BOOLEAN, AddCash(o, v, ow)
      PROVE  [Abstract!Next]_AbsViews
  <2>1. CASE AddCashUnspendable(o, v, ow)
    BY <1>3, <2>1 DEF AddCashUnspendable, vars
  <2>2. CASE AddCashSpendable(o, v, ow)
    <3>1. v \in Values \ Unspendable /\ depth >= 1
      BY <2>2 DEF AddCashSpendable, CanCall
    <3>2. A2 = [A EXCEPT ![depth + 1][o] = v]
      BY <2>2, <3>1, AddRefines
    <3>3. Abstract!Add(o, v)
      BY <1>0, <1>1, <3>1, <3>2 DEF Abstract!Add
    <3> QED
      BY <3>3 DEF Abstract!Next
  <2> QED
    BY <1>6, <2>1, <2>2 DEF AddCash
<1>7. ASSUME NEW o \in Outpoints, NEW v \in Values, NEW cb \in BOOLEAN, NEW chk \in BOOLEAN,
             NEW ps \in BOOLEAN, AddCashTx(o, v, cb, chk, ps)
      PROVE  [Abstract!Next]_AbsViews
  <2>1. depth >= 1
    BY <1>7 DEF AddCashTx, CanCall
  <2>2. \/ A2 = A
        \/ v \in Values \ Unspendable /\ A2 = [A EXCEPT ![depth + 1][o] = v]
    BY <1>7, AddTxRefines
  <2>3. CASE v \in Values \ Unspendable /\ A2 = [A EXCEPT ![depth + 1][o] = v]
    <3>1. Abstract!Add(o, v)
      BY <1>0, <1>1, <2>1, <2>3 DEF Abstract!Add
    <3> QED
      BY <3>1 DEF Abstract!Next
  <2> QED
    BY <1>2, <2>2, <2>3
<1>8. ASSUME NEW i \in Layers, NEW o \in Outpoints, Uncache(i, o)
      PROVE  [Abstract!Next]_AbsViews
  <2>1. UNCHANGED <<depth, baseMap>>
    BY <1>8 DEF Uncache
  <2>2. \A j \in 0..depth, x \in Outpoints :
           ViewIn(cacheCash', baseMap', j, x) = ViewIn(cacheCash, baseMap, j, x)
    BY <1>8, <2>1, UncacheViews
  <2>3. A2 = A
    BY <1>1, <2>1, <2>2, AbsSame
  <2> QED
    BY <1>2, <2>3
<1>9. CASE (\E b \in Blocks : SetBestBlock(b)) \/ GetBestBlock
  BY <1>3, <1>9 DEF SetBestBlock, GetBestBlock
<1>10. ASSUME NEW i \in Layers, Flush(i)
       PROVE  [Abstract!Next]_AbsViews
  <2>1. i \in 1..MaxDepth
    BY DEF Layers
  <2>2. CASE i = 1 /\ \E E \in SUBSET Outpoints : FlushToBase(E)
    <3>1. PICK E \in SUBSET Outpoints : FlushToBase(E)
      BY <2>2
    <3>2. depth >= 1 /\ A2 = [A EXCEPT ![1] = A[2]]
      BY <3>1, FlushToBaseRefines
    <3>3. Abstract!Flush(1)
      BY <1>0, <1>1, <3>2 DEF Abstract!Flush
    <3> QED
      BY <2>1, <2>2, <3>3 DEF Abstract!Next
  <2>3. CASE FlushToCache(i)
    <3>1. i \in 1..depth /\ A2 = [A EXCEPT ![i] = A[i + 1]]
      BY <2>3, FlushToCacheRefines
    <3>2. Abstract!Flush(i)
      BY <1>0, <1>1, <3>1 DEF Abstract!Flush
    <3> QED
      BY <2>1, <3>2 DEF Abstract!Next
  <2>4. CASE \E P \in SUBSET Outpoints : FlushThrows(i, P)
    BY <2>4 DEF FlushThrows
  <2> QED
    BY <1>10, <2>2, <2>3, <2>4 DEF Flush
<1>11. CASE PushCache
  <2>1. depth + 1 <= MaxDepth /\ A2 = Append(A, A[depth + 1])
    BY <1>11, PushRefines
  <2>2. Abstract!Push
    BY <1>0, <1>1, <2>1 DEF Abstract!Push
  <2> QED
    BY <2>2 DEF Abstract!Next
<1>12. CASE DropCache
  <2>1. depth >= 1 /\ A2 = SubSeq(A, 1, depth)
    BY <1>12, DropRefines
  <2>2. Abstract!Drop
    BY <1>0, <1>1, <2>1 DEF Abstract!Drop
  <2> QED
    BY <2>2 DEF Abstract!Next
<1>13. CASE UNCHANGED vars
  BY <1>3, <1>13 DEF vars
<1> QED
  BY <1>4, <1>5, <1>6, <1>7, <1>8, <1>9, <1>10, <1>11, <1>12, <1>13 DEF Next

\* ImplementsUtxoStack: for every set of outpoints and values and every
\* maximal depth, when callers keep the AddCash contract, every behaviour of
\* the cache stack is a behaviour of UtxoStack on the views the layers
\* represent: reads change no view, SpendCash and AddCash change the top
\* view of one outpoint, Flush makes the parent view the child's, a new
\* layer copies the top view and a deleted one takes its changes with it.
THEOREM RefinementCorrect == ASSUME CallerChecksOverwrite PROVE Spec => ImplementsUtxoStack
<1>1. Init => Abstract!Init
  BY InitRefines
<1>2. IInv /\ IInv' /\ [Next]_vars => [Abstract!Next]_AbsViews
  BY StepRefines DEF IInv
<1>3. Spec => []IInv
  BY InvariantHolds
<1>4. Spec => [][Next]_vars
  BY PTL DEF Spec
<1> QED
  BY <1>1, <1>2, <1>3, <1>4, PTL DEF Spec, ImplementsUtxoStack, Abstract!Spec
====
