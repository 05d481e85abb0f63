\* see MCVoiceBridge.tla for the environments
CONSTANTS
    Preset = "transform"
    Tap = FALSE
    QueueMax = 4
    Faults = {"disconnect"}
    Timings = {"busyCleanup"}
    MaxPresses = 1
    MaxControls = 0
    MaxFaults = 1
SPECIFICATION Spec
INVARIANTS
    NoStuckAlt
