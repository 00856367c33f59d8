\* Two delegates fail under onChildFailure: abort.
CONSTANTS
  MaxDelegates = 3
  MaxConcurrent = 2
  MaxSpend = 1
  HasDeadline = FALSE
  CallbackCancels = FALSE
SPECIFICATION Spec
INVARIANT
  AbortRethrowsLastFailure
