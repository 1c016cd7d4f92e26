CONSTANTS
  total = 3
  always_active = FALSE
SPECIFICATION HSpec
INVARIANTS TypeOK MarkIsOrderedPrefix
PROPERTY ImplementsOrderedAnd
\* A state with an impossible interaction is terminal.
CHECK_DEADLOCK FALSE
