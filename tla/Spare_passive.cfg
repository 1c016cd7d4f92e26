CONSTANTS
  total = 3
  repairable = TRUE
  always_active = FALSE
SPECIFICATION EnvSpec
INVARIANTS TypeOK UseIsClaimed NothingLeaked QuietMeansRight
\* A state with an impossible interaction is terminal.
CHECK_DEADLOCK FALSE
