CONSTANTS
    QueueMax = 2
    EventMax = 2
    Faults = {}
    Timings = {"busyStop"}
    Budgets <- OneEvent
SPECIFICATION FairSpec
PROPERTIES
    CleanupEnds
CHECK_DEADLOCK FALSE
