SPECIFICATION FairSpec
CONSTANTS
  Worker = worker
  Main = main
  Users = {u1}
  Timers = {1, 2}
  Addresses = {a1, a2}
  MaxRaises <- RaisesOfTimer
  None = none
INVARIANTS
  TypeOK
  KillWaitsForHandler
  TicksExact
PROPERTIES
  KillIsFinal
  TimersGoOff
  Closes
CHECK_DEADLOCK FALSE
