CONSTANTS
    Budgets <- Cases
    ArmedMax = 2
SPECIFICATION FairSpec
INVARIANTS
    OneActionPerPress
    NoHalfSwallowed
    NothingHeld
    TapLetsGo
PROPERTIES
    TapAttaches
CHECK_DEADLOCK FALSE
