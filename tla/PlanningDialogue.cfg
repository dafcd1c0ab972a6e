SPECIFICATION FairSpec
CONSTANTS
    Fields = {"f1"}
    Kinds = {"shape", "rule"}
    ChangeTexts <- TwoChanges
    MaxRounds = 1
    MaxRevisions = 2
    RepairLimit <- NoLimit
    FallbackRoutes = 1
    CallBudget = 5
INVARIANTS
    ApprovalIsWhatWasShown EvidenceReadable
PROPERTIES
    CancelEndsPlanning
CHECK_DEADLOCK FALSE
