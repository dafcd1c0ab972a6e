SPECIFICATION Spec
CONSTANTS
    Releases <- ThreeReleases
    Reference <- MCReference
    Build <- MCBuild
    Parent <- MCParent
    Legacy <- MCLegacy
    None = None
    Current <- MCCurrent
    Oldest <- MCOldest
    Advertised <- StableReleases
    MaxInstalls = 3
    MaxFaults = 1
    MaxCrashes = 1
INVARIANTS
    ReleaseUsable
    NoImageLeak
PROPERTIES
    FailureRestores
CONSTRAINT
    LegacyUndisturbed
CHECK_DEADLOCK FALSE
