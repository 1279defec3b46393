\* A push meets a thread that has just ended.
SPECIFICATION PoolSpec
CONSTANTS
  w1 = w1  Own = {}
  Clients = {c1}
  Workers = {w1, w2}
  Threads = {c1, w1, w2}
  Shared = {background}
  Background = background
  Waiters = {}
  Actions = {a1, a2}
  Target <- SomeOfItsOwn
  Periodic = {}
  MaxRuns = 2
  None = None
  NewThread = 1
INVARIANTS TasksKeepAThread
CHECK_DEADLOCK FALSE
