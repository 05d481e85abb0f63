CONSTANTS
    Budgets <- OneEdit
    ArmedMax = 2
SPECIFICATION Spec
INVARIANTS
    HoldEnds
CHECK_DEADLOCK FALSE
