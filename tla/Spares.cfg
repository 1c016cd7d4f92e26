CONSTANTS
  tree <- Spares
  top <- TopIsFirst
SPECIFICATION FairSpec
INVARIANTS NoModelError ParentsAgree ExclusiveUse SparesUsed ActiveExactlyWhenUsed SpareStatesAreClean
PROPERTIES ComesToRest
