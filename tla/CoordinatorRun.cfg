\* Two workers; plan turns that delegate to one or two children, two in all;
\* every combination of conditions that may stop the run.
CONSTANTS
  Workers = 2
  MaxDispatch = 2
  MaxWidth = 2
  MaxCost = 1
  CostCap = 2
  IterationCap = 3
  Floor = 2
SPECIFICATION FairSpec
INVARIANTS
  TypeOK
  RunningTotals
  TranscriptMatchesEvents
  DispatchBounded
  NoSilentFailure
  MetricsAgree
  ReplayParity
PROPERTIES
  NoTurnOverCap
  AbortIsFinal
  RunSettles
