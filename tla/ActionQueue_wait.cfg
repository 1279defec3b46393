\* A thread waits for an action while another thread pops: "thread safe".
SPECIFICATION Spec
CONSTANTS
  t1 = t1  t2 = t2  a1 = a1  a2 = a2  p = p  main = main
  Threads = {t1, t2}
  Waiters = {t1}
  Shared = {main}
  Actions = {a1}
  Target <- OneEach
  Periodic = {}
  MaxRuns = 2
  None = None
INVARIANTS NoCircularWait
CHECK_DEADLOCK FALSE
