SPECIFICATION Spec
CONSTANTS
  Worker = worker
  Main = main
  Users = {}
  Timers = {1, 2}
  Addresses = {a1}
  MaxRaises <- RaisesOfTimer
  None = none
INVARIANT
  NotEarly
CHECK_DEADLOCK FALSE
