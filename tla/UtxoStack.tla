----------------------------- MODULE UtxoStack -----------------------------
(***************************************************************************)
(* What a stack of UTXO views promises its callers (spec.md sections 3,   *)
(* 4.D and 5): every layer represents a UTXO set; the base view is views[1] *)
(* and the top layer Last(views).  Callers add and spend at the top; a     *)
(* read changes no view; a flush of a layer makes its parent represent     *)
(* what the layer represents; a new layer starts as a copy of the top; a   *)
(* layer deleted without a flush takes its changes with it.                *)
(***************************************************************************)
EXTENDS Integers, Sequences

CONSTANTS Outpoints, Values, Unspendable, SPENT, MaxDepth

VARIABLE views

UtxoSet == [Outpoints -> Values \cup {SPENT}]

TypeOK == views \in Seq(UtxoSet) /\ 1 <= Len(views) /\ Len(views) <= MaxDepth + 1

Top == Len(views)

Init == views = <<[o \in Outpoints |-> SPENT], [o \in Outpoints |-> SPENT]>>

\* A spendable output added at the top replaces whatever the top held.
Add(o, v) ==
    /\ Top > 1
    /\ v \in Values \ Unspendable
    /\ views' = [views EXCEPT ![Top][o] = v]

Spend(o) ==
    /\ Top > 1
    /\ views' = [views EXCEPT ![Top][o] = SPENT]

\* Flush of cache layer i (views[i+1]) into its parent views[i].
Flush(i) ==
    /\ i \in 1..(Top - 1)
    /\ views' = [views EXCEPT ![i] = views[i + 1]]

Push ==
    /\ Top <= MaxDepth
    /\ views' = Append(views, views[Top])

Drop ==
    /\ Top > 1
    /\ views' = SubSeq(views, 1, Top - 1)

Next ==
    \/ \E o \in Outpoints : Spend(o) \/ \E v \in Values : Add(o, v)
    \/ \E i \in 1..MaxDepth : Flush(i)
    \/ Push
    \/ Drop

Spec == Init /\ [][Next]_views

=============================================================================
