---------------------------- MODULE MCThreadPool -----------------------------
(* ThreadPool for TLC: what is pushed where. *)
EXTENDS ThreadPool

CONSTANTS w1,   \* the first worker
          Own   \* the actions pushed to its queue

\* Everything else goes to the background queue.
SomeOfItsOwn == [a \in Actions |-> IF a \in Own THEN w1 ELSE Background]
=============================================================================
