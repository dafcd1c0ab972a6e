SPECIFICATION MonitorsSpec
CONSTANTS
  Cases <- MCCases
  Suspect = 1
  Limit = 2
  Recheck = 1
INVARIANTS
  WatchdogResultAccepted
  OnlyThisTurn
PROPERTIES
  StallIsSilence
