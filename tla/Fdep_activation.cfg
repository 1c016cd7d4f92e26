CONSTANTS
  tree <- FdepAfterSpare
  top <- TopIsFirst
SPECIFICATION FairSpec
INVARIANTS FdepActivated
\* Without repair the system stops when every event has failed.
CHECK_DEADLOCK FALSE
