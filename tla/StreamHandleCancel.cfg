\* A subscriber calls cancel() when it is handed the final event.
CONSTANTS
  Subscriber = {s1, s2}
  MaxTurns = 1
  HasTimeout = FALSE
  MaxReentrant = 1
SPECIFICATION Spec
INVARIANT
  CancelIsCancelled
