SPECIFICATION Spec
CONSTANTS
    Controllers = {c1, c2}
    MaxKills = 2
    MaxFaults = 1
SYMMETRY Symmetry
INVARIANT
    ExportedBeforePurge
PROPERTIES
    RecoveryKeepsEvidence ForeignUnharmed
CHECK_DEADLOCK FALSE
