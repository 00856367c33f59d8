\* Two subscribers and a consumer, cancel() at any await or inside a callback,
\* a timeout, engine and evaluator failures.
CONSTANTS
  Subscriber = {s1, s2}
  MaxTurns = 2
  HasTimeout = TRUE
  MaxReentrant = 1
SPECIFICATION FairSpec
INVARIANTS
  TypeOK
  SettledTogether
  ViewsAgree
  IteratorLosesNothing
  TerminalEventLast
PROPERTY
  StreamSettles
