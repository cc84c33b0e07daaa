CONSTANTS
    none = none
    NONE <- none
    DefaultConfirmTarget = 6
    DefaultTransactionFee = 0
    RequiredFee = 1000
    Fees <- MCFees
    LegacySlider <- MCLegacySlider
    LegacyTarget <- MCLegacyTarget
SPECIFICATION Spec
INVARIANTS
    TypeOK
PROPERTIES
    ChoiceSurvivesRestart
    StartRoundsTargetUp
