CONSTANTS
  total = 3
  threshold = 2
  always_active = FALSE
SPECIFICATION FairSpec
INVARIANTS TypeOK CountIsExact NoLostFailure NoStaleAlarm ActivatedIsPrefix
PROPERTY ActivationCompletes
\* A state with an impossible interaction is terminal.
CHECK_DEADLOCK FALSE
