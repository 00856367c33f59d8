\* Limits of 1 to 3 on a clock that reaches 5: every order in which they can run out.
CONSTANTS
  Configs <- MCConfigs
  Plans <- MCPlans
  Failures <- MCFailures
  MaxPlanning = 3
  MaxClock = 5
SPECIFICATION FairSpec
INVARIANTS
  TypeOK
  BlameIsRight
PROPERTIES
  QuietAfterAbort
  RunSettles
