\* see MCInstanceControl.tla for the processes
CONSTANTS
    Bridges <- ThreeBridges
    Windows <- TwoWindows
    MaxRequests = 1
    MaxSaves = 2
    MaxRecords = 2
    MaxFaults = 1
SPECIFICATION MCSpec
INVARIANTS
    SingleInstance
    EventOutlivesLock
    UsageKept
PROPERTIES
    NoStaleStop
    StopEnds
    NoLostEdit
CHECK_DEADLOCK FALSE
