------------------------- MODULE MCSendCashSettings -------------------------
(* TLC instance of SendCashSettings.  DEFAULT_TRANSACTION_FEE is 0 and the *)
(* wallet's default target 6.  The legacy slider positions migrate to 7   *)
(* and 5, which no selector entry equals, to 0 (no target: the default),  *)
(* and to -5, past the old range.                                          *)
EXTENDS SendCashSettings, TLC

CONSTANTS none

MCFees == {0, 2000}
MCLegacySlider == {0, 18, 20, 25, 30}
MCLegacyTarget == {6, 1008}
=============================================================================
