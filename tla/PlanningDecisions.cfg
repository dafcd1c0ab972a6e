SPECIFICATION DecisionsSpec
CONSTANTS
    Request <- MCRequest
    ChangeRequests <- MCChanges
    Questions <- MCQuestions
    Replies <- MCReplies
    Drafts <- MCDrafts
    MaxSummary = 2
    RevisionBound = 2
    MaxQuestions = 2
INVARIANTS
    AnswersStand
    NothingInvented
CHECK_DEADLOCK FALSE
