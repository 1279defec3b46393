---------------------------- MODULE MCActionQueue ----------------------------
(* ActionQueue for TLC: what is pushed where. *)
EXTENDS ActionQueue

CONSTANTS t1, t2, a1, a2, p, main

\* One action for anybody, one for a thread, and a periodic one for the other.
OneEach == [a \in Actions |-> IF a = a1 THEN main ELSE IF a = a2 THEN t2 ELSE t1]
=============================================================================
