-------------------------- MODULE SendCashSettings --------------------------
(***************************************************************************)
(* The fee section of SendCashDialog and its QSettings (sendcashdialog.cpp)*)
(*                                                                         *)
(* The constructor fills in missing settings and loads them into the      *)
(* widgets, setModel migrates the slider position of older versions to a  *)
(* confirmation target and selects its index, and the destructor writes   *)
(* the widgets back.  The confirmation target is stored as a number of    *)
(* blocks and shown as an index of confTargets, so each restart converts  *)
(* index -> target -> index.                                              *)
(***************************************************************************)
EXTENDS Integers, Sequences, FiniteSetsExt

CONSTANTS
    NONE,                  \* a key QSettings does not contain
    DefaultConfirmTarget,  \* model->getDefaultConfirmTarget()
    DefaultTransactionFee, \* DEFAULT_TRANSACTION_FEE
    RequiredFee,           \* GetRequiredFee(1000)
    Fees,                  \* fees the user may type into customFee
    LegacySlider,          \* nSmartFeeSliderPosition values of older versions
    LegacyTarget           \* nConfTarget values an earlier run may have stored

ASSUME ConstantsAssumption ==
    /\ NONE \notin Int \cup BOOLEAN
    /\ DefaultConfirmTarget \in Int
    /\ {DefaultTransactionFee, RequiredFee} \cup Fees \subseteq Nat
    /\ LegacySlider \cup LegacyTarget \subseteq Int

VARIABLES
    running,   \* the dialog exists
    ui,        \* the fee widgets
    settings   \* the QSettings keys the dialog uses

vars == <<running, ui, settings>>

(* confTargets (sendcashdialog.cpp:31), indexed from 0 as in C++.          *)
confTargets == <<2, 4, 6, 12, 24, 48, 144, 504, 1008>>
NTargets == Len(confTargets)
Target(i) == confTargets[i + 1]

getConfTargetForIndex(index) ==
    IF index + 1 > NTargets THEN Target(NTargets - 1)
    ELSE IF index < 0 THEN Target(0)
    ELSE Target(index)

(* Mutant: the loop tests confTargets[i] > target.                         *)
getIndexForConfTargetStrict(target) ==
    LET I == {i \in 0..(NTargets - 1) : Target(i) > target}
    IN  IF I = {} THEN NTargets - 1 ELSE Min(I)

(* The first index whose target is >= target, else the last one.           *)
getIndexForConfTarget(target) ==
    LET I == {i \in 0..(NTargets - 1) : Target(i) >= target}
    IN  IF I = {} THEN NTargets - 1 ELSE Min(I)

(* QVariant::toInt() and toBool() of a missing key.                        *)
IntOf(v) == IF v = NONE THEN 0 ELSE v
BoolOf(v) == IF v = NONE THEN FALSE ELSE v
Default(v, d) == IF v = NONE THEN d ELSE v

Keys == {"fFeeSectionMinimized", "nFeeRadio", "nSmartFeeSliderPosition",
         "nTransactionFee", "fPayOnlyMinFee", "nConfTarget"}

(* What an earlier version or an earlier run may have left in QSettings.   *)
LegacySettings ==
    [fFeeSectionMinimized : {NONE, TRUE, FALSE},
     nFeeRadio : {NONE, 0, 1},
     nSmartFeeSliderPosition : {NONE} \cup LegacySlider,
     nTransactionFee : {NONE} \cup Fees,
     fPayOnlyMinFee : {NONE, TRUE, FALSE},
     nConfTarget : {NONE} \cup LegacyTarget]

(* The constructor's defaults (sendcashdialog.cpp:107-119).                *)
Defaults(s) ==
    LET radio == IF s.nFeeRadio = NONE /\ s.nTransactionFee # NONE
                    /\ s.nTransactionFee > 0
                 THEN 1 ELSE s.nFeeRadio
    IN  [s EXCEPT !.fFeeSectionMinimized = Default(@, TRUE),
                  !.nFeeRadio = Default(radio, 0),
                  !.nSmartFeeSliderPosition = Default(@, 0),
                  !.nTransactionFee = Default(@, DefaultTransactionFee),
                  !.fPayOnlyMinFee = Default(@, FALSE)]

(* setModel's migration of the old slider (sendcashdialog.cpp:187-194).    *)
Migrate(s) ==
    IF IntOf(s.nSmartFeeSliderPosition) # 0
    THEN [s EXCEPT !.nConfTarget = 25 - IntOf(s.nSmartFeeSliderPosition),
                   !.nSmartFeeSliderPosition = NONE]
    ELSE s

(* Mutant: setModel passes the stored target to setCurrentIndex as it is. *)
SelectedIndexRaw(s) ==
    IF IntOf(s.nConfTarget) = 0 THEN DefaultConfirmTarget ELSE IntOf(s.nConfTarget)

(* The selector index setModel chooses (sendcashdialog.cpp:195-198).       *)
SelectedIndex(s) ==
    IF IntOf(s.nConfTarget) = 0
    THEN getIndexForConfTarget(DefaultConfirmTarget)
    ELSE getIndexForConfTarget(IntOf(s.nConfTarget))

(* The widgets after the constructor and setModel.                         *)
Loaded(s) ==
    [minimized |-> BoolOf(s.fFeeSectionMinimized),
     radio     |-> Max({0, Min({1, IntOf(s.nFeeRadio)})}),
     fee       |-> IntOf(s.nTransactionFee),
     payOnly   |-> BoolOf(s.fPayOnlyMinFee),
     confIndex |-> SelectedIndex(s)]

(* Construct the dialog and set its model over settings s.                 *)
Started(s) ==
    LET s2 == Migrate(Defaults(s))
    IN  /\ running' = TRUE
        /\ settings' = s2
        /\ ui' = Loaded(s2)

Init ==
    /\ running = FALSE
    /\ ui = NONE
    /\ settings \in LegacySettings

Start ==
    /\ ~running
    /\ Started(settings)

(* Mutant: the destructor stores the selector's index, not its target.     *)
SavedIndex(s, u) ==
    [s EXCEPT !.fFeeSectionMinimized = u.minimized, !.nFeeRadio = u.radio,
              !.nConfTarget = u.confIndex,
              !.nTransactionFee = u.fee, !.fPayOnlyMinFee = u.payOnly]

(* ~SendCashDialog (sendcashdialog.cpp:202-212): settings s after its five *)
(* setValue calls for widgets u; the old slider key is left as it is.      *)
Saved(s, u) ==
    [s EXCEPT !.fFeeSectionMinimized = u.minimized, !.nFeeRadio = u.radio,
              !.nConfTarget = getConfTargetForIndex(u.confIndex),
              !.nTransactionFee = u.fee, !.fPayOnlyMinFee = u.payOnly]

Destroy ==
    /\ running
    /\ running' = FALSE
    /\ settings' = Saved(settings, ui)
    /\ UNCHANGED ui

(* on_buttonChooseFee_clicked / on_buttonMinimizeFee_clicked.              *)
MinimizeFeeSection(b) ==
    /\ running
    /\ ui' = [ui EXCEPT !.minimized = b]
    /\ UNCHANGED <<running, settings>>

(* groupFee buttonClicked -> updateFeeSectionControls.                     *)
SelectRadio(r) ==
    /\ running
    /\ ui' = [ui EXCEPT !.radio = r]
    /\ UNCHANGED <<running, settings>>

(* checkBoxMinimumFee, enabled with the custom radio: stateChanged calls   *)
(* setMinimumFee on both check and uncheck.                                *)
ToggleMinimumFee ==
    /\ running
    /\ ui.radio = 1
    /\ ui' = [ui EXCEPT !.payOnly = ~@, !.fee = RequiredFee]
    /\ UNCHANGED <<running, settings>>

(* customFee, enabled with the custom radio and the box unchecked.         *)
SetCustomFee(v) ==
    /\ running
    /\ ui.radio = 1 /\ ~ui.payOnly
    /\ ui' = [ui EXCEPT !.fee = v]
    /\ UNCHANGED <<running, settings>>

(* confTargetSelector, enabled with the smart-fee radio.                   *)
SelectConfTarget(i) ==
    /\ running
    /\ ui.radio = 0
    /\ ui' = [ui EXCEPT !.confIndex = i]
    /\ UNCHANGED <<running, settings>>

Next ==
    \/ Start
    \/ Destroy
    \/ \E b \in BOOLEAN : MinimizeFeeSection(b)
    \/ \E r \in {0, 1} : SelectRadio(r)
    \/ ToggleMinimumFee
    \/ \E v \in Fees : SetCustomFee(v)
    \/ \E i \in 0..(NTargets - 1) : SelectConfTarget(i)

Spec == Init /\ [][Next]_vars

(* The fee widgets' values: the two check states, the radio, the fee and  *)
(* the selector's index.                                                   *)
Widgets ==
    [minimized : BOOLEAN, radio : {0, 1}, fee : Nat,
     payOnly : BOOLEAN, confIndex : 0..(NTargets - 1)]

(* NONE, a key QSettings lacks, is no value of the widgets.                *)
ASSUME NoneAssumption == NONE \notin Widgets

-----------------------------------------------------------------------------
TypeOK ==
    /\ running \in BOOLEAN
    /\ ui \in Widgets \cup {NONE}
    /\ running => ui # NONE
    /\ DOMAIN settings = Keys

(* The least confirmation target of at least t, read off confTargets.      *)
LeastTargetAtLeast(t) ==
    LET Above == {confTargets[j] : j \in {j \in 1..NTargets : confTargets[j] >= t}}
    IN  IF Above = {} THEN confTargets[NTargets]
        ELSE Min(Above)

(* The target setModel asks the selector for: the stored or migrated one, *)
(* the wallet's default when there is none.                                *)
Requested(s) ==
    LET t == IntOf(Migrate(Defaults(s)).nConfTarget)
    IN  IF t = 0 THEN DefaultConfirmTarget ELSE t

(* On every start, the first one from an older version's settings         *)
(* included, the selector shows the least target it offers that is at     *)
(* least the requested one (the largest when none is): getIndexForConfTarget*)
(* rounds up, and getConfTargetForIndex reads the index back.              *)
StartRoundsTargetUp ==
    [][Start => getConfTargetForIndex(ui'.confIndex) = LeastTargetAtLeast(Requested(settings))]_vars

(* A restart shows the fee choices the user left: the destructor's writes  *)
(* read back by the constructor and setModel give the same widgets, the    *)
(* target stored in blocks included.                                       *)
ChoiceSurvivesRestart == [][Start /\ ui # NONE => ui' = ui]_vars
=============================================================================
