\* Every interleaving of a wave of up to three delegates over two slots:
\* failures, both policies, deadline, and cancel() at any await or inside a
\* subscriber's callback.
CONSTANTS
  MaxDelegates = 3
  MaxConcurrent = 2
  MaxSpend = 1
  HasDeadline = TRUE
  CallbackCancels = TRUE
SPECIFICATION FairSpec
INVARIANTS
  TypeOK
  SlotsInv
  QueueInv
  NoOvertaking
  ReasonTellsWhoRan
  CostRollUp
  PromptMatchesEvents
  AbortModeStops
PROPERTIES
  NoStartAfterFailure
  WaveSettles
