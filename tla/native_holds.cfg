CONSTANTS
    QueueMax = 2
    EventMax = 2
    Faults <- AllFaults
    Timings = {"lateCancel", "drainDeadline", "joinTimeout"}
    Budgets <- Cases
SPECIFICATION FairSpec
INVARIANTS
    HostFollowsHold
    MicFollowsHold
    LeaseInSession
    AudioIntoOpenRoute
    DisconnectKept
PROPERTIES
    EdgesTaken
