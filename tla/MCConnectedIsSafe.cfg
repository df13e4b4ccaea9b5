CONSTANTS
  Password <- MCPassword
  Silent = {"return"}
  None = None
  MaxLinks = 3
  MaxPushes = 2
  MaxDrops = 0
SPECIFICATION Spec
CHECK_DEADLOCK FALSE
INVARIANTS ConnectedIsSafe
