----------------------- MODULE SendCashSettingsProofs -----------------------
(***************************************************************************)
(* Proofs about the fee section of SendCashDialog and its QSettings: the   *)
(* widgets stay in range, a restart shows what the destructor saved, and   *)
(* setModel's target selection rounds up to an offered target.             *)
(***************************************************************************)
EXTENDS SendCashSettings, TLAPS, WellFoundedInduction

(* The values a key of the dialog's QSettings may hold.                    *)
SettingsType ==
    [fFeeSectionMinimized : BOOLEAN \cup {NONE}, nFeeRadio : Int \cup {NONE},
     nSmartFeeSliderPosition : Int \cup {NONE}, nTransactionFee : Nat \cup {NONE},
     fPayOnlyMinFee : BOOLEAN \cup {NONE}, nConfTarget : Int \cup {NONE}]

(* A settings record rebuilt from its keys.                                 *)
SettingsOf(s) ==
    [fFeeSectionMinimized |-> s.fFeeSectionMinimized, nFeeRadio |-> s.nFeeRadio,
     nSmartFeeSliderPosition |-> s.nSmartFeeSliderPosition,
     nTransactionFee |-> s.nTransactionFee, fPayOnlyMinFee |-> s.fPayOnlyMinFee,
     nConfTarget |-> s.nConfTarget]

(* The inductive invariant.  While the dialog runs, setModel has removed   *)
(* or zeroed the old slider key; once it is destroyed, QSettings holds      *)
(* what the destructor wrote for the widgets.  The restart property is    *)
(* not inductive without the last two conjuncts: it is about the settings  *)
(* a later Start reads.                                                    *)
IInv ==
    /\ running \in BOOLEAN
    /\ ui \in Widgets \cup {NONE}
    /\ running => ui # NONE
    /\ settings \in SettingsType
    /\ ui # NONE => settings.nSmartFeeSliderPosition \in {0, NONE}
    /\ ui # NONE /\ ~running =>
          settings = Saved(settings, ui)

-----------------------------------------------------------------------------
(* Lemmas about confTargets and the two conversions.                      *)

\* A set of integers with a least element m has Min m.
LEMMA MinIs ==
    ASSUME NEW S \in SUBSET Int, NEW m \in S, \A y \in S : m <= y
    PROVE  Min(S) = m
<1>0. \E x \in S : \A y \in S : x <= y
  OBVIOUS
<1>1. Min(S) \in S /\ \A y \in S : Min(S) <= y
  BY <1>0, Zenon DEF Min
<1>2. Min(S) \in Int /\ m <= Min(S) /\ Min(S) <= m
  BY <1>1
<1> QED
  BY <1>2

\* A set of integers with a greatest element m has Max m.
LEMMA MaxIs ==
    ASSUME NEW S \in SUBSET Int, NEW m \in S, \A y \in S : y <= m
    PROVE  Max(S) = m
<1>0. \E x \in S : \A y \in S : x >= y
  OBVIOUS
<1>1. Max(S) \in S /\ \A y \in S : Max(S) >= y
  BY <1>0, Zenon DEF Max
<1>2. Max(S) \in Int /\ Max(S) <= m /\ m <= Max(S)
  BY <1>1
<1> QED
  BY <1>2

\* A non-empty set of naturals has a least element.
LEMMA MinExists ==
    ASSUME NEW S \in SUBSET Nat, S # {}
    PROVE  \E m \in S : \A y \in S : m <= y
<1>1. PICK x \in S : \A y \in S : ~(<<y, x>> \in OpToRel(<, Nat))
  BY NatLessThanWellFounded, WFMin
<1>2. \A y \in S : ~(y < x)
  BY <1>1 DEF OpToRel
<1> QED
  BY <1>2

\* confTargets is strictly increasing.
LEMMA TargetsIncrease ==
    \A i, j \in 0..(NTargets - 1) : i < j => Target(i) < Target(j)
BY DEF Target, NTargets, confTargets

\* An index of the selector is read back as its own target.
LEMMA TargetForIndex ==
    \A i \in 0..(NTargets - 1) : getConfTargetForIndex(i) = Target(i) /\ Target(i) \in Nat
BY DEF getConfTargetForIndex, Target, NTargets, confTargets

\* getIndexForConfTarget picks the first index whose target is at least t,
\* or the last index.
LEMMA IndexForTarget ==
    ASSUME NEW t \in Int
    PROVE  LET I == {i \in 0..(NTargets - 1) : Target(i) >= t}
           IN  /\ getIndexForConfTarget(t) \in 0..(NTargets - 1)
               /\ I = {} => getIndexForConfTarget(t) = NTargets - 1
               /\ I # {} => /\ getIndexForConfTarget(t) \in I
                            /\ \A i \in I : getIndexForConfTarget(t) <= i
<1> DEFINE I == {i \in 0..(NTargets - 1) : Target(i) >= t}
<1>1. NTargets = 9
  BY DEF NTargets, confTargets
<1>2. CASE I = {}
  BY <1>1, <1>2 DEF getIndexForConfTarget
<1>3. CASE I # {}
  <2>1. PICK m \in I : \A y \in I : m <= y
    BY <1>1, <1>3, MinExists
  <2>2. Min(I) = m
    BY <1>1, <2>1, MinIs
  <2> QED
    BY <1>1, <1>3, <2>1, <2>2 DEF getIndexForConfTarget
<1> QED
  BY <1>2, <1>3

\* The destructor's index -> target conversion and setModel's target ->
\* index conversion are inverse on the selector's indices.
LEMMA RoundTrip ==
    ASSUME NEW i \in 0..(NTargets - 1)
    PROVE  getIndexForConfTarget(getConfTargetForIndex(i)) = i
<1> DEFINE m == getIndexForConfTarget(Target(i))
           I == {j \in 0..(NTargets - 1) : Target(j) >= Target(i)}
<1>1. getConfTargetForIndex(i) = Target(i) /\ Target(i) \in Int
  BY TargetForIndex
<1>2. i \in I
  BY <1>1
<1>3. m \in I /\ m <= i
  BY <1>1, <1>2, IndexForTarget
<1>4. ~(m < i)
  <2> SUFFICES ASSUME m < i PROVE FALSE
    OBVIOUS
  <2>1. m \in 0..(NTargets - 1) /\ Target(m) \in Int
    BY <1>3, TargetForIndex
  <2>2. Target(m) < Target(i)
    BY <2>1, TargetsIncrease
  <2> QED
    BY <1>1, <1>3, <2>1, <2>2
<1> QED
  BY <1>1, <1>3, <1>4

\* Rounding a requested target up to an offered one: what setModel selects,
\* read back, is the least target of confTargets at least t, or the largest.
LEMMA RoundsUp ==
    ASSUME NEW t \in Int
    PROVE  getConfTargetForIndex(getIndexForConfTarget(t)) = LeastTargetAtLeast(t)
<1> DEFINE m == getIndexForConfTarget(t)
           I == {i \in 0..(NTargets - 1) : Target(i) >= t}
           J == {j \in 1..NTargets : confTargets[j] >= t}
           Above == {confTargets[j] : j \in J}
<1>1. NTargets = 9 /\ \A j \in 1..NTargets : confTargets[j] = Target(j - 1)
  BY DEF NTargets, confTargets, Target
<1>2. m \in 0..(NTargets - 1) /\ getConfTargetForIndex(m) = Target(m)
  BY IndexForTarget, TargetForIndex
<1>3. CASE I = {}
  <2>1. Above = {}
    BY <1>1, <1>3
  <2>2. m = NTargets - 1
    BY <1>3, IndexForTarget
  <2> QED
    BY <1>1, <1>2, <2>1, <2>2 DEF LeastTargetAtLeast
<1>4. CASE I # {}
  <2>1. m \in I /\ \A i \in I : m <= i
    BY <1>4, IndexForTarget
  <2>2. Target(m) \in Above
    BY <1>1, <2>1
  <2>3. \A y \in Above : Target(m) <= y
    <3> SUFFICES ASSUME NEW j \in J PROVE Target(m) <= confTargets[j]
      OBVIOUS
    <3>1. j - 1 \in I
      BY <1>1
    <3>2. m <= j - 1
      BY <2>1, <3>1
    <3>3. m \in 0..(NTargets - 1) /\ j - 1 \in 0..(NTargets - 1)
      BY <2>1, <3>1
    <3>4. CASE m = j - 1
      BY <1>1, <3>4, <3>3, TargetForIndex
    <3>5. CASE m < j - 1
      BY <1>1, <3>3, <3>5, TargetsIncrease, TargetForIndex
    <3> QED
      BY <3>2, <3>3, <3>4, <3>5
  <2>4. Above \subseteq Int
    BY <1>1, TargetForIndex
  <2>5. Min(Above) = Target(m)
    BY <2>2, <2>3, <2>4, MinIs
  <2> QED
    BY <1>2, <2>2, <2>5 DEF LeastTargetAtLeast
<1> QED
  BY <1>3, <1>4

\* The radio index loaded from nFeeRadio is clamped to 0..1 and keeps a
\* saved 0 or 1.
LEMMA Clamp ==
    ASSUME NEW r \in Int
    PROVE  /\ Max({0, Min({1, r})}) \in {0, 1}
           /\ r \in {0, 1} => Max({0, Min({1, r})}) = r
<1>1. CASE r <= 0
  <2>1. Min({1, r}) = r
    BY <1>1, MinIs
  <2>2. Max({0, r}) = 0
    BY <1>1, MaxIs
  <2> QED
    BY <1>1, <2>1, <2>2
<1>2. CASE r >= 1
  <2>1. Min({1, r}) = 1
    BY <1>2, MinIs
  <2>2. Max({0, 1}) = 1
    BY MaxIs
  <2> QED
    BY <1>2, <2>1, <2>2
<1> QED
  BY <1>1, <1>2

\* The radio the constructor's compatibility rule picks (sendcashdialog.cpp:109-110).
DefaultRadio(s) ==
    IF s.nFeeRadio = NONE /\ s.nTransactionFee # NONE /\ s.nTransactionFee > 0
    THEN 1 ELSE s.nFeeRadio

\* The constructor's defaults, key by key.
LEMMA DefaultsFields ==
    ASSUME NEW s \in SettingsType
    PROVE  /\ DOMAIN Defaults(s) = DOMAIN s
           /\ Defaults(s).fFeeSectionMinimized = Default(s.fFeeSectionMinimized, TRUE)
           /\ Defaults(s).nFeeRadio = Default(DefaultRadio(s), 0)
           /\ Defaults(s).nSmartFeeSliderPosition = Default(s.nSmartFeeSliderPosition, 0)
           /\ Defaults(s).nTransactionFee = Default(s.nTransactionFee, DefaultTransactionFee)
           /\ Defaults(s).fPayOnlyMinFee = Default(s.fPayOnlyMinFee, FALSE)
           /\ Defaults(s).nConfTarget = s.nConfTarget
           /\ Defaults(s) = SettingsOf(Defaults(s))
<1>1. Defaults(s) =
        [s EXCEPT !.fFeeSectionMinimized = Default(s.fFeeSectionMinimized, TRUE),
                  !.nFeeRadio = Default(DefaultRadio(s), 0),
                  !.nSmartFeeSliderPosition = Default(s.nSmartFeeSliderPosition, 0),
                  !.nTransactionFee = Default(s.nTransactionFee, DefaultTransactionFee),
                  !.fPayOnlyMinFee = Default(s.fPayOnlyMinFee, FALSE)]
  BY DEF Defaults, DefaultRadio
<1>2. Defaults(s) = SettingsOf(Defaults(s))
  BY <1>1 DEF SettingsOf, SettingsType
<1> QED
  BY <1>1, <1>2 DEF SettingsType

-----------------------------------------------------------------------------
(* The constructor and setModel.                                           *)

\* After the constructor's defaults and setModel's migration, every key but
\* the slider holds a value, the slider is gone or 0, and the widgets
\* loaded from the result are in range.
LEMMA StartedType ==
    ASSUME NEW s \in SettingsType
    PROVE  LET s2 == Migrate(Defaults(s))
           IN  /\ s2 \in SettingsType
               /\ s2.nSmartFeeSliderPosition \in {0, NONE}
               /\ Loaded(s2) \in Widgets
<1> DEFINE sd == Defaults(s)
           s2 == Migrate(sd)
<1>1. NONE \notin Int \cup BOOLEAN
  BY ConstantsAssumption
<1>2. /\ sd \in SettingsType
      /\ sd.fFeeSectionMinimized \in BOOLEAN /\ sd.nFeeRadio \in Int
      /\ sd.nSmartFeeSliderPosition \in Int /\ sd.nTransactionFee \in Nat
      /\ sd.fPayOnlyMinFee \in BOOLEAN
  <2>1. /\ Default(s.fFeeSectionMinimized, TRUE) \in BOOLEAN
        /\ Default(s.fPayOnlyMinFee, FALSE) \in BOOLEAN
    BY Zenon DEF Default, SettingsType
  <2>4. /\ Default(s.nSmartFeeSliderPosition, 0) \in Int
        /\ Default(s.nTransactionFee, DefaultTransactionFee) \in Nat
        /\ s.nConfTarget \in Int \cup {NONE}
    BY ConstantsAssumption DEF Default, SettingsType
  <2>2. DefaultRadio(s) \in Int \cup {NONE}
    BY DEF DefaultRadio, SettingsType
  <2>3. Default(DefaultRadio(s), 0) \in Int
    <3>1. CASE DefaultRadio(s) = NONE
      BY <3>1 DEF Default
    <3>2. CASE DefaultRadio(s) # NONE
      BY <2>2, <3>2 DEF Default
    <3> QED
      BY <3>1, <3>2
  <2>6. sd = SettingsOf(sd)
    BY DefaultsFields
  <2>7. /\ sd.fFeeSectionMinimized \in BOOLEAN /\ sd.nFeeRadio \in Int
        /\ sd.nSmartFeeSliderPosition \in Int /\ sd.nTransactionFee \in Nat
        /\ sd.fPayOnlyMinFee \in BOOLEAN /\ sd.nConfTarget \in Int \cup {NONE}
    BY <2>1, <2>3, <2>4, DefaultsFields
  <2> QED
    BY <2>6, <2>7 DEF SettingsOf, SettingsType
<1>3. /\ s2 \in SettingsType
      /\ s2.fFeeSectionMinimized \in BOOLEAN /\ s2.nFeeRadio \in Int
      /\ s2.nTransactionFee \in Nat /\ s2.fPayOnlyMinFee \in BOOLEAN
      /\ s2.nSmartFeeSliderPosition \in {0, NONE}
  <2>1. sd = SettingsOf(sd)
    BY <1>2 DEF SettingsOf, SettingsType
  <2>2. CASE IntOf(sd.nSmartFeeSliderPosition) # 0
    <3>1. s2 = [SettingsOf(sd) EXCEPT !.nConfTarget = 25 - IntOf(sd.nSmartFeeSliderPosition),
                                      !.nSmartFeeSliderPosition = NONE]
      BY <2>1, <2>2 DEF Migrate
    <3>2. s2 = [fFeeSectionMinimized |-> sd.fFeeSectionMinimized, nFeeRadio |-> sd.nFeeRadio,
                nSmartFeeSliderPosition |-> NONE, nTransactionFee |-> sd.nTransactionFee,
                fPayOnlyMinFee |-> sd.fPayOnlyMinFee,
                nConfTarget |-> 25 - IntOf(sd.nSmartFeeSliderPosition)]
      BY <3>1 DEF SettingsOf
    <3>3. 25 - IntOf(sd.nSmartFeeSliderPosition) \in Int
      BY <1>2 DEF IntOf
    <3> QED
      BY <1>2, <3>2, <3>3 DEF SettingsType
  <2>3. CASE IntOf(sd.nSmartFeeSliderPosition) = 0
    <3>1. s2 = sd /\ sd.nSmartFeeSliderPosition = 0
      BY <1>1, <1>2, <2>3 DEF Migrate, IntOf
    <3> QED
      BY <1>2, <3>1
  <2> QED
    BY <2>2, <2>3
<1>4. SelectedIndex(s2) \in 0..(NTargets - 1)
  <2>1. IntOf(s2.nConfTarget) \in Int
    BY <1>3 DEF IntOf, SettingsType
  <2> QED
    BY <2>1, ConstantsAssumption, IndexForTarget DEF SelectedIndex
<1>5. Max({0, Min({1, IntOf(s2.nFeeRadio)})}) \in {0, 1}
  BY <1>1, <1>3, Clamp DEF IntOf
<1> QED
  BY <1>1, <1>3, <1>4, <1>5 DEF Loaded, Widgets, IntOf, BoolOf

\* What the destructor saved, with the slider gone or 0, loads back into
\* the same widgets.
LEMMA RestartLoads ==
    ASSUME NEW u \in Widgets, NEW s \in SettingsType,
           s.nSmartFeeSliderPosition \in {0, NONE}, s = Saved(s, u)
    PROVE  Loaded(Migrate(Defaults(s))) = u
<1> DEFINE sd == Defaults(s)
<1>1. NONE \notin Int \cup BOOLEAN
  BY ConstantsAssumption
<1>2. /\ s.fFeeSectionMinimized = u.minimized /\ s.nFeeRadio = u.radio
      /\ s.nConfTarget = getConfTargetForIndex(u.confIndex)
      /\ s.nTransactionFee = u.fee /\ s.fPayOnlyMinFee = u.payOnly
  <2>1. s = SettingsOf(s)
    BY DEF SettingsOf, SettingsType
  <2> QED
    BY <2>1 DEF Saved, SettingsOf
<1>3. getConfTargetForIndex(u.confIndex) = Target(u.confIndex)
      /\ Target(u.confIndex) \in Nat /\ Target(u.confIndex) # 0
  BY TargetForIndex DEF Widgets, Target, NTargets, confTargets
<1>4. /\ sd.fFeeSectionMinimized = u.minimized /\ sd.nFeeRadio = u.radio
      /\ sd.nSmartFeeSliderPosition = 0
      /\ sd.nConfTarget = Target(u.confIndex)
      /\ sd.nTransactionFee = u.fee /\ sd.fPayOnlyMinFee = u.payOnly
  <2>1. u.minimized \in BOOLEAN /\ u.payOnly \in BOOLEAN /\ u.radio \in {0, 1}
        /\ u.fee \in Nat
    BY DEF Widgets
  <2>2. sd.fFeeSectionMinimized = u.minimized /\ sd.fPayOnlyMinFee = u.payOnly
    BY <1>1, <1>2, <2>1, DefaultsFields, Zenon DEF Default
  <2>3. DefaultRadio(s) = u.radio
    BY <1>1, <1>2, <2>1 DEF DefaultRadio
  <2>5. /\ sd.nFeeRadio = Default(DefaultRadio(s), 0)
        /\ sd.nSmartFeeSliderPosition = Default(s.nSmartFeeSliderPosition, 0)
        /\ sd.nTransactionFee = Default(s.nTransactionFee, DefaultTransactionFee)
        /\ sd.nConfTarget = s.nConfTarget
    BY DefaultsFields
  <2>4. /\ sd.nFeeRadio = u.radio /\ sd.nSmartFeeSliderPosition = 0
        /\ sd.nConfTarget = Target(u.confIndex) /\ sd.nTransactionFee = u.fee
    BY <1>1, <1>2, <1>3, <2>1, <2>3, <2>5 DEF Default
  <2> QED
    BY <2>2, <2>4
<1>5. Migrate(sd) = sd
  BY <1>4 DEF Migrate, IntOf
<1>6. SelectedIndex(sd) = u.confIndex
  BY <1>1, <1>3, <1>4, RoundTrip DEF SelectedIndex, IntOf, Widgets
<1>7. Max({0, Min({1, u.radio})}) = u.radio
  BY Clamp DEF Widgets
<1>8. Loaded(sd) = u
  <2>1. u = [minimized |-> u.minimized, radio |-> u.radio, fee |-> u.fee,
             payOnly |-> u.payOnly, confIndex |-> u.confIndex]
    BY DEF Widgets
  <2>2. BoolOf(sd.fFeeSectionMinimized) = u.minimized
        /\ BoolOf(sd.fPayOnlyMinFee) = u.payOnly
    BY <1>1, <1>4, Zenon DEF BoolOf, Widgets
  <2>3. IntOf(sd.nTransactionFee) = u.fee /\ IntOf(sd.nFeeRadio) = u.radio
    BY <1>1, <1>4 DEF IntOf, Widgets
  <2> QED
    BY <1>6, <1>7, <2>1, <2>2, <2>3 DEF Loaded
<1> QED
  BY <1>5, <1>8
-----------------------------------------------------------------------------
(* The destructor.                                                         *)

\* The destructor's writes, key by key; the slider key is left as it was.
LEMMA SavedFields ==
    ASSUME NEW s \in SettingsType, NEW u \in Widgets
    PROVE  /\ Saved(s, u) \in SettingsType
           /\ Saved(s, u).nSmartFeeSliderPosition = s.nSmartFeeSliderPosition
           /\ Saved(Saved(s, u), u) = Saved(s, u)
<1> DEFINE s2 == Saved(s, u)
           s3 == Saved(s2, u)
<1>1. getConfTargetForIndex(u.confIndex) \in Nat
  BY TargetForIndex DEF Widgets
<1>2. s2 = [s EXCEPT !.fFeeSectionMinimized = u.minimized, !.nFeeRadio = u.radio,
                     !.nConfTarget = getConfTargetForIndex(u.confIndex),
                     !.nTransactionFee = u.fee, !.fPayOnlyMinFee = u.payOnly]
  BY DEF Saved
<1>3. /\ s2 = SettingsOf(s2)
      /\ s2.fFeeSectionMinimized = u.minimized /\ s2.nFeeRadio = u.radio
      /\ s2.nSmartFeeSliderPosition = s.nSmartFeeSliderPosition
      /\ s2.nTransactionFee = u.fee /\ s2.fPayOnlyMinFee = u.payOnly
      /\ s2.nConfTarget = getConfTargetForIndex(u.confIndex)
  BY <1>2 DEF SettingsOf, SettingsType
<1>4. s2 \in SettingsType
  BY <1>1, <1>3 DEF SettingsOf, SettingsType, Widgets
<1>5. s3 = [s2 EXCEPT !.fFeeSectionMinimized = u.minimized, !.nFeeRadio = u.radio,
                      !.nConfTarget = getConfTargetForIndex(u.confIndex),
                      !.nTransactionFee = u.fee, !.fPayOnlyMinFee = u.payOnly]
  BY DEF Saved
<1>6. /\ s3 = SettingsOf(s3)
      /\ s3.fFeeSectionMinimized = u.minimized /\ s3.nFeeRadio = u.radio
      /\ s3.nSmartFeeSliderPosition = s2.nSmartFeeSliderPosition
      /\ s3.nTransactionFee = u.fee /\ s3.fPayOnlyMinFee = u.payOnly
      /\ s3.nConfTarget = getConfTargetForIndex(u.confIndex)
  BY <1>4, <1>5 DEF SettingsOf, SettingsType
<1>7. s3 = s2
  BY <1>3, <1>6 DEF SettingsOf
<1> QED
  BY <1>3, <1>4, <1>7

-----------------------------------------------------------------------------
(* The invariant, action by action.                                       *)

\* The settings an older version may have left are of the settings type.
LEMMA InitIInv == Init => IInv
<1> SUFFICES ASSUME Init PROVE IInv
  OBVIOUS
<1>1. LegacySettings \subseteq SettingsType
  <2> SUFFICES ASSUME NEW x \in LegacySettings PROVE x \in SettingsType
    OBVIOUS
  <2>1. x = SettingsOf(x)
    BY DEF LegacySettings, SettingsOf
  <2>2. /\ x.fFeeSectionMinimized \in BOOLEAN \cup {NONE}
        /\ x.fPayOnlyMinFee \in BOOLEAN \cup {NONE}
    BY Zenon DEF LegacySettings
  <2>3. /\ x.nFeeRadio \in Int \cup {NONE}
        /\ x.nSmartFeeSliderPosition \in Int \cup {NONE}
        /\ x.nTransactionFee \in Nat \cup {NONE}
        /\ x.nConfTarget \in Int \cup {NONE}
    BY ConstantsAssumption DEF LegacySettings
  <2> QED
    BY <2>1, <2>2, <2>3 DEF SettingsOf, SettingsType
<1> QED
  BY <1>1 DEF Init, IInv

\* Constructing the dialog leaves it running with loaded, in-range widgets.
LEMMA StartIInv == IInv /\ Start => IInv'
<1> SUFFICES ASSUME IInv, Start PROVE IInv'
  OBVIOUS
<1>1. LET s2 == Migrate(Defaults(settings))
      IN  /\ s2 \in SettingsType
          /\ s2.nSmartFeeSliderPosition \in {0, NONE}
          /\ Loaded(s2) \in Widgets
  BY StartedType DEF IInv
<1> QED
  BY <1>1, NoneAssumption DEF Start, Started, IInv

\* The destructor stores the widgets, and what it stores is what it would
\* store again.
LEMMA DestroyIInv == IInv /\ Destroy => IInv'
<1> SUFFICES ASSUME IInv, Destroy PROVE IInv'
  OBVIOUS
<1>1. ui \in Widgets /\ settings \in SettingsType
  BY ConstantsAssumption DEF IInv, Destroy
<1>2. /\ Saved(settings, ui) \in SettingsType
      /\ Saved(settings, ui).nSmartFeeSliderPosition = settings.nSmartFeeSliderPosition
      /\ Saved(Saved(settings, ui), ui) = Saved(settings, ui)
  BY <1>1, SavedFields
<1> QED
  BY <1>1, <1>2 DEF Destroy, IInv

\* A widget edit keeps the widgets in range while the dialog runs.
LEMMA WidgetIInv ==
    IInv /\ \/ \E b \in BOOLEAN : MinimizeFeeSection(b)
            \/ \E r \in {0, 1} : SelectRadio(r)
            \/ ToggleMinimumFee
            \/ \E v \in Fees : SetCustomFee(v)
            \/ \E i \in 0..(NTargets - 1) : SelectConfTarget(i)
    => IInv'
<1> SUFFICES ASSUME IInv, running, UNCHANGED <<running, settings>>,
                    \/ \E b \in BOOLEAN : MinimizeFeeSection(b)
                    \/ \E r \in {0, 1} : SelectRadio(r)
                    \/ ToggleMinimumFee
                    \/ \E v \in Fees : SetCustomFee(v)
                    \/ \E i \in 0..(NTargets - 1) : SelectConfTarget(i)
             PROVE  ui' \in Widgets
  BY NoneAssumption DEF IInv, MinimizeFeeSection, SelectRadio,
     ToggleMinimumFee, SetCustomFee, SelectConfTarget
<1>1. ui \in Widgets
  BY DEF IInv
<1>2. CASE \E b \in BOOLEAN : MinimizeFeeSection(b)
  BY <1>1, <1>2 DEF MinimizeFeeSection, Widgets
<1>3. CASE \E r \in {0, 1} : SelectRadio(r)
  BY <1>1, <1>3 DEF SelectRadio, Widgets
<1>4. CASE ToggleMinimumFee
  BY <1>1, <1>4, ConstantsAssumption DEF ToggleMinimumFee, Widgets
<1>5. CASE \E v \in Fees : SetCustomFee(v)
  BY <1>1, <1>5, ConstantsAssumption DEF SetCustomFee, Widgets
<1>6. CASE \E i \in 0..(NTargets - 1) : SelectConfTarget(i)
  BY <1>1, <1>6 DEF SelectConfTarget, Widgets
<1> QED
  BY <1>2, <1>3, <1>4, <1>5, <1>6

\* IInv is inductive.
LEMMA NextIInv == IInv /\ [Next]_vars => IInv'
<1> SUFFICES ASSUME IInv, [Next]_vars PROVE IInv'
  OBVIOUS
<1>1. CASE Start
  BY <1>1, StartIInv
<1>2. CASE Destroy
  BY <1>2, DestroyIInv
<1>3. CASE UNCHANGED vars
  BY <1>3 DEF IInv, vars
<1> QED
  BY <1>1, <1>2, <1>3, WidgetIInv DEF Next
-----------------------------------------------------------------------------
(* The theorems.                                                           *)

\* IInv holds in every state of every behaviour.
THEOREM InvariantHolds == Spec => []IInv
BY InitIInv, NextIInv, PTL DEF Spec

\* The dialog exists only with its widgets, which hold in-range values, and
\* QSettings holds exactly the dialog's six keys.
THEOREM TypeCorrect == Spec => []TypeOK
<1>1. IInv => TypeOK
  BY DEF IInv, TypeOK, SettingsType, Keys
<1> QED
  BY <1>1, InvariantHolds, PTL

\* Restarting the dialog shows the choices the destructor saved: the
\* constructor's defaults, setModel's migration and its target -> index
\* conversion give back the widgets the user left, the selector included.
THEOREM RestartCorrect == Spec => ChoiceSurvivesRestart
<1>1. IInv /\ [Next]_vars => [Start /\ ui # NONE => ui' = ui]_vars
  <2> SUFFICES ASSUME IInv, Start, ui # NONE PROVE ui' = ui
    BY DEF vars
  <2>1. ui \in Widgets /\ settings \in SettingsType
        /\ settings.nSmartFeeSliderPosition \in {0, NONE}
        /\ settings = Saved(settings, ui)
    BY DEF IInv, Start
  <2>2. Loaded(Migrate(Defaults(settings))) = ui
    BY <2>1, RestartLoads
  <2> QED
    BY <2>2 DEF Start, Started
<1> QED
  BY <1>1, InvariantHolds, PTL DEF Spec, ChoiceSurvivesRestart

\* Every start, the first from an older version's settings included,
\* selects the least offered target that is at least the requested one.
THEOREM TargetRoundsUp == Spec => StartRoundsTargetUp
<1>1. IInv /\ [Next]_vars =>
        [Start => getConfTargetForIndex(ui'.confIndex)
                    = LeastTargetAtLeast(Requested(settings))]_vars
  <2> SUFFICES ASSUME IInv, Start
               PROVE  getConfTargetForIndex(ui'.confIndex)
                        = LeastTargetAtLeast(Requested(settings))
    BY DEF vars
  <2> DEFINE s2 == Migrate(Defaults(settings))
             t == IntOf(s2.nConfTarget)
  <2>1. s2 \in SettingsType
    BY StartedType DEF IInv
  <2>2. t \in Int
    BY <2>1 DEF IntOf, SettingsType
  <2>3. Requested(settings) \in Int
    BY <2>2, ConstantsAssumption DEF Requested
  <2>4. ui'.confIndex = getIndexForConfTarget(Requested(settings))
    BY DEF Start, Started, Loaded, SelectedIndex, Requested
  <2> QED
    BY <2>3, <2>4, RoundsUp
<1> QED
  BY <1>1, InvariantHolds, PTL DEF Spec, StartRoundsTargetUp
=============================================================================
