\* The parent's deadline ends a stream.
CONSTANTS
  MaxDelegates = 3
  MaxConcurrent = 2
  MaxSpend = 1
  HasDeadline = TRUE
  CallbackCancels = FALSE
SPECIFICATION Spec
INVARIANT
  DrainedIsReported
