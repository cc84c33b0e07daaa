--------------------------- MODULE MCSendCashFlow ---------------------------
(* TLC instance of SendCashFlow: two payment requests as model values.     *)
EXTENDS SendCashFlow, TLC

CONSTANTS r1, r2

MCRequests == {r1, r2}
=============================================================================
