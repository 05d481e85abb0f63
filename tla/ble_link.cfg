\* see MCBleLink.tla for the bounds of each case
CONSTANTS
    QueueMax = 2
    MaxAttempts = 2
    MaxNotices = 7
    MaxCalls = 1
    MaxFaults = 1
SPECIFICATION MCSpec
INVARIANTS
    WritesInsideSession
    NoAttemptOverWorker
    ClosesRemoteMic
    FramesOfOneStream
PROPERTIES
    FaultEndsAttempt
CHECK_DEADLOCK FALSE
