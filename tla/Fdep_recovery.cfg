CONSTANTS
  tree <- RepairedTrigger
  top <- TopIsFirst
SPECIFICATION FairSpec
INVARIANTS VotesCounted
CHECK_DEADLOCK FALSE
