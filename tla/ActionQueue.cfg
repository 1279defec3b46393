\* Two threads that may wait; an action for either of them, and one for each.
SPECIFICATION Spec
CONSTANTS
  t1 = t1  t2 = t2  a1 = a1  a2 = a2  p = p  main = main
  Threads = {t1, t2}
  Waiters = {t1, t2}
  Shared = {main}
  Actions = {a1, a2, p}
  Target <- OneEach
  Periodic = {p}
  MaxRuns = 2
  None = None
INVARIANTS CountExact AtMostOnce NothingLost InItsThread
PROPERTIES OnlyAdmittedStart
\* A wait may block both threads: ActionQueue_wait.cfg.
CHECK_DEADLOCK FALSE
