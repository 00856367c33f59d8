\* A decision with a limit, under a parent with a longer one.
CONSTANTS
  Configs <- MCConfigs
  Plans <- MCPlans
  Failures <- MCFailures
  MaxPlanning = 3
  MaxClock = 5
SPECIFICATION FairSpec
INVARIANT
  DecisionTimeoutHolds
