SPECIFICATION FairSpec
CONSTANTS
    Callers = {w1, w2}
    Waits = {w1, w2}
    Routes <- MCRoutes
    Pricing <- MCPricing
    Authorities = {"user_task", "controlled_evaluation"}
    MaxCost = 3
    MaxCalls = 2
    Limits <- MCLimits
    Reports <- MCReports
    NoCount = NoCount
    JournalFails = TRUE
    CallBound = 3
INVARIANTS
    PaidCallHoldsAllFunds OvershootIsOneCall LedgerTellsTheCalls
PROPERTIES
    WaitersServed
