---------------------------- MODULE MCCashCache ----------------------------
(* Small instances of CashCache for TLC.                                   *)
EXTENDS CashCache, TLC

CONSTANTS o1, o2, v1, v2, v3, b1

MCOutpoints == {o1, o2}
MCOneOutpoint == {o1}
MCValues == {v1, v2, v3}
\* v3 stands for an OP_RETURN output; v1 and v2 have scripts of different sizes.
MCUnspendable == {v3}
MCScriptSize == (v1 :> 1) @@ (v2 :> 2) @@ (v3 :> 1)
MCBlocks == {b1}

=============================================================================
