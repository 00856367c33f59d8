\* Cancellation between two awaits is enough.
CONSTANTS
  MaxDelegates = 3
  MaxConcurrent = 2
  MaxSpend = 1
  HasDeadline = FALSE
  CallbackCancels = FALSE
SPECIFICATION Spec
INVARIANT
  FailedNeverCompletes
