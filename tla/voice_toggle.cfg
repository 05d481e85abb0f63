\* see MCVoiceBridge.tla for the environments
CONSTANTS
    Preset = "toggle"
    Tap = TRUE
    QueueMax = 4
    Faults <- DeliveredFaults
    Timings <- OrderlyTimings
    MaxPresses = 3
    MaxControls = 3
    MaxFaults = 3
SPECIFICATION FairSpec
INVARIANTS
    HostMatchesController
    CleanSlate
PROPERTIES
    OpensForAHold
    TapSuppliesEdges
    SessionsEnd
    CleanupEnds
