SPECIFICATION Spec
CONSTANTS
    ProfileCriteria <- Profile
    MaxEdits = 1
INVARIANTS
    NormalizationStable ControllerChecksAgree ApprovedPlanExecutable
CHECK_DEADLOCK FALSE
