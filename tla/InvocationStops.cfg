SPECIFICATION FairSpec
CONSTANTS
    UserReasons <- BothUserReasons
    Watchdogs <- AllWatchdogs
    LeaseFaults = TRUE
INVARIANTS
    LeaseOutlivesProcess
PROPERTIES
    KeepsContract StopEndsInvocation
