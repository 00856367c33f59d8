\* Two agents (once three): every protocol, with each kind of limit, hint and answer;
\* a limit on time that a run reaches; a malformed decision; tools that throw.
CONSTANTS
  Configs <- MCConfigs
  MaxChunks = 1
  MaxClock = 1
SPECIFICATION FairSpec
INVARIANTS
  TypeOK
  TurnLedger
  HintOnce
  StopIsJustified
  OutputIsCurrent
  ReportsAgree
  LegacyReplayAgrees
PROPERTIES
  EndIsQuiet
  RunSettles
