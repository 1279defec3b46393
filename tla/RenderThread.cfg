\* The render thread, its queue of two places, a client that makes up to four
\* calls with time limits, and one that waits once without.
SPECIFICATION RenderSpec
CONSTANTS
  Producers = {p1, p2}
  Consumers = {r}
  MaxSize = 2
  MaxCalls = 4
  Interrupts = TRUE
  Patient = {p2}
  Brief = {p2}
  None = None
INVARIANTS RenderTypeOK Fifo ResultIsTrue WaitMeansDone ConnectionsCounted
PROPERTIES WaitReturns JoinEnds
CHECK_DEADLOCK FALSE
