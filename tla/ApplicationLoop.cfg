SPECIFICATION FairSpec
CONSTANTS
  Main = main
  Threads = {t1, t2}
  Windows = {w1}
  MaxRuns = 2
  MaxPosts = 1
  MaxPushes = 2
  None = none
INVARIANTS
  TypeOK
  NoSleepOnMessages
  HandlerAlive
  ExitNotLost
PROPERTIES
  ExitEndsLoop
  GoesToSleep
CHECK_DEADLOCK FALSE
