CONSTANTS
  tree <- Static
  top <- TopIsFirst
SPECIFICATION FairSpec
INVARIANTS VotesCounted
PROPERTIES ImplementsFaultTree
PROPERTIES AnnouncementsFollow
