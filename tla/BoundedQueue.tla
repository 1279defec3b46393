---------------------------- MODULE BoundedQueue ----------------------------
(***************************************************************************)
(* What syslib::SharedQueue promises to its callers                        *)
(* (src/components/system/include/syslib/shared_queue.h): a FIFO of at     *)
(* most MaxSize values, shared by producers that call Push / TryPush and   *)
(* consumers that call Pop / TryPop.  A call takes effect in one instant   *)
(* between its start and its return; it is refused, with no effect at all, *)
(* only when it was given a time limit and met a full (empty) queue, or    *)
(* when its wait was interrupted by the operating system.                  *)
(***************************************************************************)
EXTENDS Naturals, Sequences

CONSTANTS Producers,  \* threads that push
          Consumers,  \* threads that pop
          MaxSize,    \* max_queue_size
          MaxCalls,   \* bound: pushes attempted by one producer
          Interrupts  \* may a wait be interrupted by a signal?

ASSUME QueueAssumption ==
  /\ Producers \cap Consumers = {}
  /\ MaxSize \in Nat \ {0}
  /\ MaxCalls \in Nat
  /\ Interrupts \in BOOLEAN

VARIABLES queue,      \* values inside, oldest first
          stage,      \* stage of the call each thread is making
          timed,      \* was that call given a time limit?
          calls,      \* history: pushes each producer has started
          delivered,  \* history: values popped so far
          refused     \* history: values whose push was refused

vars == <<queue, stage, timed, calls, delivered, refused>>

Threads == Producers \cup Consumers
Stages  == {"idle", "waiting", "done", "refused"}

\* The n-th push of producer p carries the value <<p, n>>: every value is
\* pushed once, so that loss, duplication and reordering are visible.
Items    == Producers \X Nat
Value(p) == <<p, calls[p]>>

\* (fault) a producer may exceed the capacity by one.
Ready_OffByOne(t) == IF t \in Producers THEN Len(queue) <= MaxSize ELSE queue # <<>>
Ready(t) == IF t \in Producers THEN Len(queue) < MaxSize ELSE queue # <<>>

Init ==
  /\ queue = <<>>
  /\ stage = [t \in Threads |-> "idle"]
  /\ timed = [t \in Threads |-> FALSE]
  /\ calls = [p \in Producers |-> 0]
  /\ delivered = <<>>
  /\ refused = {}

Goto(t, s) == stage' = [stage EXCEPT ![t] = s]

\* TryPush / TryPop (limit TRUE) or Push / Pop (limit FALSE) is called.
Call(t, limit) ==
  /\ stage[t] = "idle"
  /\ t \in Producers => calls[t] < MaxCalls
  /\ Goto(t, "waiting")
  /\ timed' = [timed EXCEPT ![t] = limit]
  /\ calls' = IF t \in Producers THEN [calls EXCEPT ![t] = @ + 1] ELSE calls
  /\ UNCHANGED <<queue, delivered, refused>>

\* (fault) a new value overtakes those inside.
Push_AtFront(p) ==
  /\ stage[p] = "waiting"
  /\ Ready(p)
  /\ queue' = <<Value(p)>> \o queue
  /\ Goto(p, "done")
  /\ UNCHANGED <<timed, calls, delivered, refused>>

Push(p) ==
  /\ stage[p] = "waiting"
  /\ Ready(p)
  /\ queue' = Append(queue, Value(p))
  /\ Goto(p, "done")
  /\ UNCHANGED <<timed, calls, delivered, refused>>

Pop(c) ==
  /\ stage[c] = "waiting"
  /\ Ready(c)
  /\ queue' = Tail(queue)
  /\ delivered' = Append(delivered, Head(queue))
  /\ Goto(c, "done")
  /\ UNCHANGED <<timed, calls, refused>>

\* (fault) the call reports a timeout after it took effect.
Refuse_AfterEffect(t) ==
  /\ stage[t] \in {"waiting", "done"}
  /\ (timed[t] /\ ~Ready(t)) \/ Interrupts
  /\ refused' = IF t \in Producers THEN refused \cup {Value(t)} ELSE refused
  /\ Goto(t, "refused")
  /\ UNCHANGED <<queue, timed, calls, delivered>>

Refuse(t) ==
  /\ stage[t] = "waiting"
  /\ (timed[t] /\ ~Ready(t)) \/ Interrupts
  /\ refused' = IF t \in Producers THEN refused \cup {Value(t)} ELSE refused
  /\ Goto(t, "refused")
  /\ UNCHANGED <<queue, timed, calls, delivered>>

Return(t) ==
  /\ stage[t] \in {"done", "refused"}
  /\ Goto(t, "idle")
  /\ UNCHANGED <<queue, timed, calls, delivered, refused>>

Next ==
  \/ \E t \in Threads :
       \/ \E limit \in BOOLEAN : Call(t, limit)
       \/ Refuse(t)
       \/ Return(t)
  \/ \E p \in Producers : Push(p)
  \/ \E c \in Consumers : Pop(c)

Spec == Init /\ [][Next]_vars

-----------------------------------------------------------------------------
History == delivered \o queue

\* Types, and the capacity: max_queue_size is never exceeded.
TypeOK ==
  /\ queue \in Seq(Items) /\ Len(queue) <= MaxSize
  /\ delivered \in Seq(Items)
  /\ refused \subseteq Items
  /\ stage \in [Threads -> Stages]
  /\ timed \in [Threads -> BOOLEAN]
  /\ calls \in [Producers -> 0..MaxCalls]

\* Values of one producer leave the queue in the order of its pushes, and no
\* value enters it twice: SharedQueue neither duplicates nor reorders.
Fifo ==
  \A i, j \in 1..Len(History) :
    i < j /\ History[i][1] = History[j][1] => History[i][2] < History[j][2]

\* A value is inside or was delivered exactly when its push took effect: a push
\* that returned false left nothing behind, a push that returned true lost
\* nothing (the return value of TryPush can be relied on).
ResultIsTrue ==
  \A p \in Producers, n \in 1..MaxCalls :
    LET inside == \E i \in 1..Len(History) : History[i] = <<p, n>>
        begun  == n < calls[p] \/ (n = calls[p] /\ stage[p] # "waiting")
    IN /\ inside <=> begun /\ <<p, n>> \notin refused
       /\ <<p, n>> \in refused => begun
=============================================================================
