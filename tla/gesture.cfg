\* see MCButtonGesture.tla for the bindings
CONSTANTS
    Configs <- AllConfigs
    Prompt = TRUE
    MaxPresses = 4
    MaxResets = 2
    MaxCalls = 2
SPECIFICATION FairSpec
INVARIANTS
    ClickNotLost
PROPERTIES
    KeepsContract
    ClickResolves
    TimersRest
CHECK_DEADLOCK FALSE
