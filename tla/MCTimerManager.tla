--------------------------- MODULE MCTimerManager ---------------------------
(***************************************************************************)
(* Instances of TimerManager for TLC: timers are numbers, and the timer n  *)
(* is due at most n times, so that one of them is re-armed.                *)
(***************************************************************************)
EXTENDS TimerManager

RaisesOfTimer == [x \in Timers |-> x]
=============================================================================
