SPECIFICATION FairSpec
CONSTANTS
    Fields = {"f1", "f2"}
    Kinds = {"shape", "rule"}
    Writers <- WriterThenIntegrator
    Integrators = {"i1"}
    Testers = {"t1"}
    Reviewers = {"r1"}
    BodyFields <- ReviewHasTwoFields
    Routes <- OneFallback
    Switching = TRUE
    RepairLimit <- Unlimited
    MaxHead = 2
    ToolStates = {"x"}
INVARIANTS
    ReportsShareOneCommit
PROPERTIES
    AcceptedAtHead InvocationsEnd
CHECK_DEADLOCK FALSE
