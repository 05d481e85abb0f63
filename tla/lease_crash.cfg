\* see MCPolicyLease.tla for the roles
CONSTANTS
    RoleOrder <- TwoRoles
    Mics = {"mic", "headset"}
    Cable = "cable"
    Duckings = {"unset", "low"}
    Faults = {"write", "delete", "set", "look", "read", "unread", "com", "ignored"}
    UserMayRace = FALSE
    MaxCrashes = 2
    MaxChanges = 1
    MaxFaults = 2
SPECIFICATION FairSpec
INVARIANTS
    Recoverable
    SessionLeased
PROPERTIES
    GivesBackOnly
    SettingsReturn
