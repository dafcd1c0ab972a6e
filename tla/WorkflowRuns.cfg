SPECIFICATION Spec
CONSTANTS
    Agents <- TeamAgents
    Writers <- OneWriter
    Testers = {"t1", "t2"}
    Reviewers = {"r1"}
    IterationLimit = 2
    Commands = {"k1", "k2"}
    Covers <- MCCovers
    Manual = {"c2", "c3"}
    Signatures = {"same", "other"}
    FaultKinds = {"early", "late"}
    MaxFaults = 2
    Modes = {"dynamic", "team", "serial_team", "single"}
    RepairLimit = 1
    MaxRepairs = 1
INVARIANTS
    OnlyFaultsAreRefused JournalAnchored BoundOrRolledBack CompletedOnEvidence
CHECK_DEADLOCK FALSE
