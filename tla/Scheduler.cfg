SPECIFICATION FairSpec
CONSTANTS
    Agents <- MCAgents
    Capability <- MCCapability
    Dependencies <- MCDependencies
    Requests <- MCRequests
    MaxCommands = 2
    MaxConcurrency = 2
    MaxIterations = 2
    MaxAttempts = 2
INVARIANTS
    WorkspaceExclusive ResultTellsTheWork PausedIsQuiescent CancelDecides
PROPERTIES
    CommandsTakeEffectOnce RunEnds
