\* see MCVoiceBridge.tla for the environments
CONSTANTS
    Preset = "transform"
    Tap = FALSE
    QueueMax = 1
    Faults <- AudioFaults
    Timings = {"reannounce", "lateStop"}
    MaxPresses = 3
    MaxControls = 2
    MaxFaults = 2
SPECIFICATION Spec
INVARIANTS
    HostOwed
