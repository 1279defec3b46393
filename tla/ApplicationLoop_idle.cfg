SPECIFICATION FairSpec
CONSTANTS
  Main = main
  Threads = {t1}
  Windows = {w1}
  MaxRuns = 1
  MaxPosts = 0
  MaxPushes = 1
  None = none
PROPERTY ActionsServed
CHECK_DEADLOCK FALSE
