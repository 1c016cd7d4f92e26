CONSTANTS
  phases = 6
  threshold = 2
  cold = FALSE
  repairable = TRUE
  self_repair = TRUE
  independent_repair = FALSE
  always_active = FALSE
  initially_failed = FALSE
SPECIFICATION FairSpec
INVARIANTS TypeOK ParentsInformed NoForgottenRepair
PROPERTY ComesBack
\* A state with an impossible interaction is terminal.
CHECK_DEADLOCK FALSE
