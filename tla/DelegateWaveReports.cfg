\* The stream's reports, when no subscriber cancels inside its callback.
CONSTANTS
  MaxDelegates = 3
  MaxConcurrent = 2
  MaxSpend = 1
  HasDeadline = TRUE
  CallbackCancels = FALSE
SPECIFICATION Spec
PROPERTY
  ReportsLifecycle
