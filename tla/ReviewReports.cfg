\* One Reviewer's chain: two evidence attempts before or after a submission.
SPECIFICATION ReviewSpec
CONSTANTS
    Criteria = {"c1", "c2", "c3"}
    Scope = {"c1", "c2"}
    Boundaries <- MCBoundaries
    Specialist = TRUE
    Calls <- MCCalls
    Commands <- MCCommands
    Answers <- MCAnswers
    Rewrites <- MCRewrites
    MaxAttempts = 3
    MaxCalls = 1
    MaxCandidates = 3
INVARIANTS
    PositiveIsProved
    AssemblyAgrees
PROPERTIES
    CatalogueGrounds
CHECK_DEADLOCK FALSE
