\* A worker that ends and comes back, an action in the background queue, and in the
\* worker's own queue another and a periodic one, which may be due always.
SPECIFICATION FairPoolSpec
CONSTANTS
  w1 = w1  Own = {own, p}
  Clients = {c1}
  Workers = {w1}
  Threads = {c1, w1}
  Shared = {background}
  Background = background
  Waiters = {}
  Actions = {a1, p, own}
  Target <- SomeOfItsOwn
  Periodic = {p}
  MaxRuns = 2
  None = None
  NewThread = 1
INVARIANTS PoolTypeOK ThreadsCounted
PROPERTIES PoolServes
CHECK_DEADLOCK FALSE
