---------------------------- MODULE SharedQueue -----------------------------
(***************************************************************************)
(* syslib::SharedQueue<T>, the blocking queue between the logic thread and *)
(* the render thread and inside the TCP client                             *)
(* (src/components/system/include/syslib/detail/shared_queue.inl).         *)
(*                                                                         *)
(* A spin lock guards the deque and two counters of waiting threads; a     *)
(* thread that finds the queue not ready raises the counter of its         *)
(* condition, releases the lock, sleeps on a semaphore, takes the lock     *)
(* again and only then lowers the counter.  A thread that changes the      *)
(* queue posts the semaphore of the other side if that side's counter is   *)
(* not zero.                                                               *)
(***************************************************************************)
EXTENDS Naturals, Sequences, FiniteSets

CONSTANTS Producers, Consumers, MaxSize, MaxCalls, Interrupts,
          SpinWait,   \* spin_lock_timeout > 0: threads poll before they sleep
          NoThread    \* the value of holder while the lock is free

ASSUME QueueAssumption ==
  /\ Producers \cap Consumers = {}
  /\ NoThread \notin Producers \cup Consumers
  /\ IsFiniteSet(Producers) /\ IsFiniteSet(Consumers)
  /\ MaxSize \in Nat \ {0}
  /\ MaxCalls \in Nat
  /\ Interrupts \in BOOLEAN /\ SpinWait \in BOOLEAN

VARIABLES queue,      \* the deque
          holder,     \* the thread inside the spin lock
          sem,        \* counts of empty_semaphore and full_semaphore
          waiters,    \* empty_condition_wait_counter, full_condition_wait_counter
          pc,         \* where each thread is
          timed,      \* was the call given a finite timeout?
          clock,      \* where the call's delay is with respect to its limits
          calls, delivered, refused  \* histories, as in BoundedQueue

vars == <<queue, holder, sem, waiters, pc, timed, clock, calls, delivered, refused>>
histories == <<calls, delivered, refused>>

Threads == Producers \cup Consumers

\* "empty" is what a consumer waits on, "full" what a producer waits on.
Conditions == {"empty", "full"}
Side(k)    == IF k = "empty" THEN Consumers ELSE Producers
Cond(t)    == IF t \in Consumers THEN "empty" ELSE "full"
Opposite(k) == IF k = "empty" THEN "full" ELSE "empty"

\*   idle         not in a call
\*   enter        the call's Guard is taking the lock
\*   check        lock held, about to test the queue
\*   post         lock held, the queue just changed
\*   spin, sleep  lock released by Unguard, polling / blocked on the semaphore
\*   woken        back from the semaphore, Unguard is taking the lock again
\*   interrupted  the semaphore threw, Unguard is taking the lock again
\*   expired      timed out, Unguard is taking the lock again
\*   fail         lock held, about to return false or to rethrow
PCs == {"idle", "enter", "check", "post", "spin", "sleep", "woken",
        "interrupted", "expired", "fail"}

\* delay < loop_timeout; loop_timeout <= delay < timeout; timeout <= delay
Phases == {"spinning", "sleeping", "over"}

Items    == Producers \X Nat
Value(p) == <<p, calls[p]>>

\* What a thread of condition k waits for: a value, or a free place.
Available(k) == IF k = "empty" THEN Len(queue) ELSE MaxSize - Len(queue)
\* (fault) a producer may exceed the capacity by one.
Ready_OffByOne(t) == IF t \in Producers THEN Len(queue) <= MaxSize ELSE queue # <<>>
Ready(t)     == IF t \in Producers THEN Len(queue) < MaxSize ELSE queue # <<>>

-----------------------------------------------------------------------------
Init ==
  /\ queue = <<>>
  /\ holder = NoThread
  /\ sem = [k \in Conditions |-> IF k = "full" THEN MaxSize ELSE 0]
  /\ waiters = [k \in Conditions |-> 0]
  /\ pc = [t \in Threads |-> "idle"]
  /\ timed = [t \in Threads |-> FALSE]
  /\ clock = [t \in Threads |-> "spinning"]
  /\ calls = [p \in Producers |-> 0]
  /\ delivered = <<>>
  /\ refused = {}

Goto(t, l) == pc' = [pc EXCEPT ![t] = l]

\* The spin lock, a compare-and-swap that succeeds only when the lock is free.
TakeLock_Blind(t) == holder' = t  \* (fault) the result of the swap is ignored
TakeLock(t) == holder = NoThread /\ holder' = t

Call(t, limit) ==
  /\ pc[t] = "idle"
  /\ t \in Producers => calls[t] < MaxCalls
  /\ Goto(t, "enter")
  /\ timed' = [timed EXCEPT ![t] = limit]
  /\ clock' = [clock EXCEPT ![t] = IF SpinWait THEN "spinning" ELSE "sleeping"]
  /\ calls' = IF t \in Producers THEN [calls EXCEPT ![t] = @ + 1] ELSE calls
  /\ UNCHANGED <<queue, holder, sem, waiters, delivered, refused>>

\* wait_counter-- after the semaphore, in both its places.
LowerCounter_NotOnThrow(t) ==  \* (fault) the catch clause forgets it
  waiters' = IF pc[t] = "woken" THEN [waiters EXCEPT ![Cond(t)] = @ - 1] ELSE waiters
LowerCounter(t) == waiters' = [waiters EXCEPT ![Cond(t)] = @ - 1]

\* The spin lock is taken, by the Guard of a new call or by the destructor of
\* Unguard; the counter is lowered under the lock, before the next test.
Acquire(t) ==
  /\ TakeLock(t)
  /\ \/ /\ pc[t] \in {"enter", "spin"}
        /\ Goto(t, "check")
        /\ UNCHANGED waiters
     \/ /\ pc[t] \in {"woken", "interrupted"}
        /\ Goto(t, IF pc[t] = "woken" THEN "check" ELSE "fail")
        /\ LowerCounter(t)
     \/ /\ pc[t] = "expired"
        /\ Goto(t, "fail")
        /\ UNCHANGED waiters
  /\ UNCHANGED <<queue, sem, timed, clock, histories>>

Push(p) ==
  /\ pc[p] = "check"
  /\ Ready(p)
  /\ queue' = Append(queue, Value(p))
  /\ Goto(p, "post")
  /\ UNCHANGED <<holder, sem, waiters, timed, clock, histories>>

Pop(c) ==
  /\ pc[c] = "check"
  /\ Ready(c)
  /\ queue' = Tail(queue)
  /\ delivered' = Append(delivered, Head(queue))
  /\ Goto(c, "post")
  /\ UNCHANGED <<holder, sem, waiters, timed, clock, calls, refused>>

\* The semaphore of condition k is posted if somebody waits there.
Signal_OffByOne(k) ==  \* (fault) a single waiter is overlooked
  sem' = IF waiters[k] > 1 THEN [sem EXCEPT ![k] = @ + 1] ELSE sem
Signal_OwnSide(k) ==   \* (fault) the two semaphores are swapped
  sem' = IF waiters[k] > 0 THEN [sem EXCEPT ![Opposite(k)] = @ + 1] ELSE sem
Signal(k) == sem' = IF waiters[k] > 0 THEN [sem EXCEPT ![k] = @ + 1] ELSE sem

\* (fault) the timeout is tested once more after the queue has changed.
Post_TimeoutTested(t) ==
  /\ pc[t] = "post"
  /\ Signal(Opposite(Cond(t)))
  /\ IF clock[t] = "over" THEN Goto(t, "fail") /\ UNCHANGED holder
                          ELSE Goto(t, "idle") /\ holder' = NoThread
  /\ UNCHANGED <<queue, waiters, timed, clock, histories>>

\* The other side is signalled, the Guard releases the lock, the call returns true.
Post(t) ==
  /\ pc[t] = "post"
  /\ Signal(Opposite(Cond(t)))
  /\ holder' = NoThread
  /\ Goto(t, "idle")
  /\ UNCHANGED <<queue, waiters, timed, clock, histories>>

\* WaitChanges on a queue that is not ready: poll, sleep or give up,
\* by the delay measured now.
Spin(t) ==
  /\ pc[t] = "check"
  /\ ~Ready(t)
  /\ clock[t] = "spinning"
  /\ holder' = NoThread
  /\ Goto(t, "spin")
  /\ UNCHANGED <<queue, sem, waiters, timed, clock, histories>>

Sleep(t) ==
  /\ pc[t] = "check"
  /\ ~Ready(t)
  /\ clock[t] = "sleeping"
  /\ waiters' = [waiters EXCEPT ![Cond(t)] = @ + 1]
  /\ holder' = NoThread
  /\ Goto(t, "sleep")
  /\ UNCHANGED <<queue, sem, timed, clock, histories>>

Refusing(t) ==
  refused' = IF t \in Producers THEN refused \cup {Value(t)} ELSE refused

Expire(t) ==
  /\ pc[t] = "check"
  /\ ~Ready(t)
  /\ clock[t] = "over"
  /\ holder' = NoThread
  /\ Goto(t, "expired")
  /\ Refusing(t)
  /\ UNCHANGED <<queue, sem, waiters, timed, clock, calls, delivered>>

\* Semaphore::Wait or TryWait returns because there was a token to take.
Wake(t) ==
  /\ pc[t] = "sleep"
  /\ sem[Cond(t)] > 0
  /\ sem' = [sem EXCEPT ![Cond(t)] = @ - 1]
  /\ Goto(t, "woken")
  /\ UNCHANGED <<queue, holder, waiters, timed, clock, histories>>

\* TryWait returns false: its deadline passed on the system's own clock, which
\* may happen before or after the delay measured by WaitChanges is over.
TimeOut(t) ==
  /\ pc[t] = "sleep"
  /\ timed[t]
  /\ Goto(t, "woken")
  /\ UNCHANGED <<queue, holder, sem, waiters, timed, clock, histories>>

\* sem_wait or sem_timedwait fails (EINTR) and the exception leaves the call.
Interrupt(t) ==
  /\ Interrupts
  /\ pc[t] = "sleep"
  /\ Goto(t, "interrupted")
  /\ Refusing(t)
  /\ UNCHANGED <<queue, holder, sem, waiters, timed, clock, calls, delivered>>

\* (fault) returning false without releasing the lock.
Fail_KeepsLock(t) ==
  /\ pc[t] = "fail"
  /\ Goto(t, "idle")
  /\ UNCHANGED <<queue, holder, sem, waiters, timed, clock, histories>>

\* The Guard releases the lock and the call returns false, or throws.
Fail(t) ==
  /\ pc[t] = "fail"
  /\ holder' = NoThread
  /\ Goto(t, "idle")
  /\ UNCHANGED <<queue, sem, waiters, timed, clock, histories>>

\* Time passes for a call: past the polling time, past its own timeout.
\* A timeout shorter than the polling time ends the call without a sleep.
Tick(t) ==
  /\ pc[t] # "idle"
  /\ \/ /\ clock[t] = "spinning"
        /\ clock' = [clock EXCEPT ![t] = "sleeping"]
     \/ /\ clock[t] # "over" /\ timed[t]
        /\ clock' = [clock EXCEPT ![t] = "over"]
  /\ UNCHANGED <<queue, holder, sem, waiters, pc, timed, histories>>

Internal(t) == Post(t) \/ Spin(t) \/ Sleep(t) \/ Expire(t) \/ Fail(t)
                 \/ (t \in Producers /\ Push(t)) \/ (t \in Consumers /\ Pop(t))

Next ==
  \E t \in Threads :
    \/ \E limit \in BOOLEAN : Call(t, limit)
    \/ Acquire(t)
    \/ Internal(t)
    \/ Wake(t)
    \/ TimeOut(t)
    \/ Interrupt(t)
    \/ Tick(t)

Spec == Init /\ [][Next]_vars

\* The scheduler runs every thread that can run, and time passes.  The spin
\* lock is a bare compare-and-swap loop: which of the contenders wins is left
\* open, except that a thread which contends again and again wins some day.
Fairness ==
  \A t \in Threads :
    /\ WF_vars(Internal(t)) /\ WF_vars(Wake(t)) /\ WF_vars(TimeOut(t))
    /\ WF_vars(Tick(t))
    /\ SF_vars(Acquire(t))

FairSpec == Spec /\ Fairness

-----------------------------------------------------------------------------
\* Type invariant, with the capacity of the deque and the counters as naturals.
TypeOK ==
  /\ queue \in Seq(Items) /\ Len(queue) <= MaxSize
  /\ delivered \in Seq(Items)
  /\ refused \subseteq Items
  /\ holder \in Threads \cup {NoThread}
  /\ sem \in [Conditions -> Nat]
  /\ waiters \in [Conditions -> Nat]
  /\ pc \in [Threads -> PCs]
  /\ timed \in [Threads -> BOOLEAN]
  /\ clock \in [Threads -> Phases]
  /\ calls \in [Producers -> 0..MaxCalls]

Inside(t) == pc[t] \in {"check", "post", "fail"}

\* The deque and the counters are touched by one thread at a time: a thread is
\* inside the critical section exactly when it owns the spin lock, across all
\* the releases and re-acquisitions of Unguard.
LockDiscipline == \A t \in Threads : Inside(t) <=> holder = t

At(S, L)   == {t \in S : pc[t] \in L}
Waiting(k) == At(Side(k), {"sleep", "woken", "interrupted"})
Asleep(k)  == At(Side(k), {"sleep"})
Looking(k) == At(Side(k), {"woken", "check"})
Posting(k) == At(Side(Opposite(k)), {"post"})

\* Each wait counter is the number of threads between the increment and the
\* decrement in WaitChanges, whatever woke them (a token, a timeout, a thrown
\* exception): it never drifts and never wraps below zero.
WaitersCounted == \A k \in Conditions : waiters[k] = Cardinality(Waiting(k))

\* No lost wake-up: while somebody sleeps on a semaphore, every value (every
\* free place) is matched by a token in the semaphore, by a thread already on
\* its way to test the queue, or by a thread about to post.
NoLostWakeup ==
  \A k \in Conditions :
    Asleep(k) # {} =>
      Available(k) <= sem[k] + Cardinality(Looking(k)) + Cardinality(Posting(k))

\* Every behaviour of the lock, the counters and the semaphores is a behaviour
\* of the FIFO that shared_queue.h announces.
Stage(l) == CASE l = "idle"                                -> "idle"
              [] l = "post"                                -> "done"
              [] l \in {"interrupted", "expired", "fail"} -> "refused"
              [] OTHER                                     -> "waiting"

Abstract == INSTANCE BoundedQueue WITH stage <- [t \in Threads |-> Stage(pc[t])]

ImplementsBoundedQueue == Abstract!Spec

\* A thread asleep on its semaphore is not left there while the queue is ready
\* for it: either it wakes up, or the others use up what it waits for.
SleeperServed ==
  \A t \in Threads :
    pc[t] = "sleep" /\ Ready(t) ~> pc[t] # "sleep" \/ ~Ready(t)

\* TryPush and TryPop with a finite timeout always return.
TimedCallReturns ==
  \A t \in Threads : pc[t] # "idle" /\ timed[t] ~> pc[t] = "idle"
=============================================================================
