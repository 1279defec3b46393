\* Two producers compete for the one place, with timeouts, spin waits and interrupted
\* waits; the consumer pops for ever, so calls may end up waiting without end.
SPECIFICATION FairSpec
CONSTANTS
  Producers = {p1, p2}
  Consumers = {c1}
  MaxSize = 1
  MaxCalls = 1
  Interrupts = TRUE
  SpinWait = TRUE
  NoThread = NoThread
INVARIANTS TypeOK LockDiscipline WaitersCounted NoLostWakeup
PROPERTIES ImplementsBoundedQueue SleeperServed TimedCallReturns
CHECK_DEADLOCK FALSE
