CONSTANTS
  Password <- MCPassword
  Silent = {"return"}
  None = None
  MaxLinks = 3
  MaxPushes = 3
  MaxDrops = 2
SPECIFICATION FairSpec
CHECK_DEADLOCK FALSE
INVARIANTS TypeOK NoStuckKey TypedWhole AdvertisedOrConnected
PROPERTIES ReachableAgain TypingEnds
