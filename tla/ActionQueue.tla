---------------------------- MODULE ActionQueue -----------------------------
(***************************************************************************)
(* common::ActionQueue and common::Action                                  *)
(* (src/components/common/sources/utils/utils_action_queue.cpp): its       *)
(* queues (main thread, background, and one for each thread that has been  *)
(* pushed to or has popped), its actions, and the threads that push, pop,  *)
(* perform, cancel and wait.                                               *)
(*                                                                         *)
(* Locks.  Every ActionQueue function runs under the recursive mutex of    *)
(* ActionQueueSingleton (qlock).  Every action has a recursive mutex of    *)
(* its own, held for a few instructions everywhere except in Action::Wait, *)
(* which holds it for the whole wait: holder says who does.                *)
(*                                                                         *)
(* Time.  An action is due when its next_time has come.                    *)
(***************************************************************************)
EXTENDS Naturals, Sequences, SequencesExt

CONSTANTS Threads,
          Waiters,   \* threads that may call Action::Wait
          Shared,    \* the queues anybody may pop: main thread, background
          Actions,   \* the actions of a run, each pushed at most once
          Target,    \* the queue each action is pushed to, a thread for its own
          Periodic,  \* actions pushed with a period
          MaxRuns,   \* bound: runs of one action are counted up to MaxRuns
          None       \* no thread, no action

ASSUME ActionAssumption ==
  /\ Waiters \subseteq Threads
  /\ Shared \cap Threads = {}
  /\ Target \in [Actions -> Shared \cup Threads]
  /\ Periodic \subseteq Actions
  /\ MaxRuns \in Nat /\ MaxRuns > 1
  /\ None \notin Threads \cup Actions

VARIABLES queue,          \* ThreadActionQueue::actions of every queue
          actions_count,  \* ThreadActionQueue::actions_count
          thread_queues,  \* threads that have a queue of their own
          qlock,          \* owner of the singleton's mutex
          from,           \* the queue the owner of qlock pops
          pos,            \* where it is in PopAction's loop
          holder,         \* the thread that holds an action's mutex in Wait
          due,            \* actions whose next_time <= timer.Time ()
          is_canceled,
          is_completed,
          pc,             \* where each thread is
          cur,            \* the action each thread got from PopAction
          waiting,        \* the action each thread waits for
          pushed,         \* history: actions pushed so far
          runs            \* history: how often each handler was started

vars == <<queue, actions_count, thread_queues, qlock, from, pos, holder, due,
          is_canceled, is_completed, pc, cur, waiting, pushed, runs>>
queues  == <<queue, actions_count, thread_queues>>
cursor  == <<from, pos>>
flags   == <<is_canceled, is_completed>>
history == <<pushed, runs>>
waits   == <<holder, waiting>>

\*   idle      outside the queue (inside the loop of Wait, if waiting)
\*   push      in PushAction, the action is in the queue, listeners run
\*   scan      in PopAction
\*   popped    has an action, about to perform it
\*   admitted  past the test of the action's flags, about to call its handler
\*   running   in the action's handler
PCs == {"idle", "push", "scan", "popped", "admitted", "running"}

Queues == Shared \cup Threads
list   == queue[from]

Goto(t, l) == pc' = [pc EXCEPT ![t] = l]

\* The mutex of a is free for t (it is recursive).
Free(t, a) == holder[a] \in {None, t}

Init ==
  /\ queue = [q \in Queues |-> <<>>]
  /\ actions_count = [q \in Queues |-> 0]
  /\ thread_queues = {}
  /\ qlock = None
  /\ from \in Queues
  /\ pos = 1
  /\ holder = [a \in Actions |-> None]
  /\ due = {}
  /\ is_canceled = {} /\ is_completed = {}
  /\ pc = [t \in Threads |-> "idle"]
  /\ cur = [t \in Threads |-> None]
  /\ waiting = [t \in Threads |-> None]
  /\ pushed = {}
  /\ runs = [a \in Actions |-> 0]

-----------------------------------------------------------------------------
\* ThreadActionQueue::PushAction.
Enqueue(a) ==
  /\ queue' = [queue EXCEPT ![Target[a]] = Append(@, a)]
  /\ actions_count' = [actions_count EXCEPT ![Target[a]] = @ + 1]

\* GetQueue makes a queue for a thread that has none.
GetQueue(q) == thread_queues' = thread_queues \cup ({q} \cap Threads)

\* PushAction with or without a delay, by a handler too; the listeners of
\* OnPushAction run with qlock held, then the function returns.
Push(t, a, delayed) ==
  /\ pc[t] \in {"idle", "running"}
  /\ waiting[t] # None => pc[t] = "running"
  /\ a \notin pushed
  /\ qlock = None
  /\ qlock' = t
  /\ GetQueue(Target[a])
  /\ Enqueue(a)
  /\ due' = IF delayed THEN due ELSE due \cup {a}
  /\ pushed' = pushed \cup {a}
  /\ Goto(t, "push")
  /\ UNCHANGED <<cursor, waits, flags, cur, runs>>

PushReturn(t) ==
  /\ pc[t] = "push"
  /\ qlock' = None
  /\ Goto(t, IF cur[t] = None THEN "idle" ELSE "running")
  /\ UNCHANGED <<queues, cursor, waits, due, flags, cur, history>>

\* The timer reaches an action's next_time.
Tick(a) ==
  /\ a \in pushed \ due
  /\ due' = due \cup {a}
  /\ UNCHANGED <<queues, qlock, cursor, waits, flags, pc, cur, history>>

\* The queues t may pop: the shared ones and its own.  The default wait handler
\* pops the kind of queue its action is in: the waiting thread's own queue if
\* the action is in that of another thread.
PopsFrom_Target(t) ==  \* (fault) it pops the queue its action is in
  IF waiting[t] = None THEN Shared \cup {t} ELSE {Target[waiting[t]]}
PopsFrom(t) ==
  IF waiting[t] = None THEN Shared \cup {t}
  ELSE IF Target[waiting[t]] \in Shared THEN {Target[waiting[t]]} ELSE {t}

\* PopAction walks the list, locking each action in turn.
BeginPop(t, q) ==
  /\ pc[t] = "idle"
  /\ waiting[t] # None => waiting[t] \notin is_completed \cup is_canceled
  /\ q \in PopsFrom(t)
  /\ qlock = None
  /\ qlock' = t
  /\ GetQueue(q)
  /\ from' = q /\ pos' = 1
  /\ Goto(t, "scan")
  /\ UNCHANGED <<queue, actions_count, waits, due, flags, cur, history>>

Scanning(t) == pc[t] = "scan" /\ pos <= Len(list) /\ Free(t, list[pos])

Dead(a) == a \in is_canceled \cup is_completed

\* The action under the cursor is erased.
Erase ==
  /\ queue' = [queue EXCEPT ![from] = RemoveAt(@, pos)]
  /\ actions_count' = [actions_count EXCEPT ![from] = @ - 1]

\* (fault) the counter is lowered only where an action is returned.
Drop_Uncounted(t) ==
  /\ Scanning(t)
  /\ Dead(list[pos])
  /\ queue' = [queue EXCEPT ![from] = RemoveAt(@, pos)]
  /\ UNCHANGED <<actions_count, thread_queues, qlock, cursor, waits, due, flags, pc, cur,
                 history>>

Drop(t) ==
  /\ Scanning(t)
  /\ Dead(list[pos])
  /\ Erase
  /\ UNCHANGED <<thread_queues, qlock, cursor, waits, due, flags, pc, cur, history>>

Skip(t) ==
  /\ Scanning(t)
  /\ ~Dead(list[pos]) /\ list[pos] \notin due
  /\ pos' = pos + 1
  /\ UNCHANGED <<queues, qlock, from, waits, due, flags, pc, cur, history>>

\* A popped action that is not periodic leaves the list ...
Unlink_Kept ==  \* (fault) it stays for another thread to find
  UNCHANGED <<queue, actions_count, due>>
Unlink == Erase /\ UNCHANGED due

\* ... and a periodic one moves to its end.
Rotate ==
  /\ queue' = [queue EXCEPT ![from] = Append(RemoveAt(@, pos), list[pos])]
  /\ due' \in {due, due \ {list[pos]}}
  /\ UNCHANGED actions_count

\* The first live action that is due: a periodic one goes to the end of the
\* list, due again when next_time + period comes (which may be over already).
Take(t) ==
  /\ Scanning(t)
  /\ ~Dead(list[pos]) /\ list[pos] \in due
  /\ IF list[pos] \in Periodic THEN Rotate ELSE Unlink
  /\ cur' = [cur EXCEPT ![t] = list[pos]]
  /\ qlock' = None
  /\ Goto(t, "popped")
  /\ UNCHANGED <<thread_queues, cursor, waits, flags, history>>

PopNothing(t) ==
  /\ pc[t] = "scan" /\ pos > Len(list)
  /\ qlock' = None
  /\ Goto(t, "idle")
  /\ UNCHANGED <<queues, cursor, waits, due, flags, cur, history>>

\* CleanupCurrentThread: the thread's queue is erased, or an exception says that
\* it is not empty.
Cleanup_Unchecked(t) ==  \* (fault) it is not asked whether the queue is empty
  /\ pc[t] = "idle" /\ waiting[t] = None /\ qlock = None
  /\ thread_queues' = thread_queues \ {t}
  /\ queue' = [queue EXCEPT ![t] = <<>>]
  /\ actions_count' = [actions_count EXCEPT ![t] = 0]
  /\ UNCHANGED <<qlock, cursor, waits, due, flags, pc, cur, history>>
CleanupCurrentThread(t) ==
  /\ pc[t] = "idle" /\ waiting[t] = None /\ qlock = None
  /\ t \in thread_queues /\ queue[t] = <<>>
  /\ thread_queues' = thread_queues \ {t}
  /\ queue' = [queue EXCEPT ![t] = <<>>]
  /\ actions_count' = [actions_count EXCEPT ![t] = 0]
  /\ UNCHANGED <<qlock, cursor, waits, due, flags, pc, cur, history>>

-----------------------------------------------------------------------------
\* A wait ends: its action's mutex is released.
StopWaiting(t) ==
  /\ holder' = [a \in Actions |-> IF holder[a] = t THEN None ELSE holder[a]]
  /\ waiting' = [waiting EXCEPT ![t] = None]

\* Action::Perform: the flags are tested under the action's mutex ...
Perform_FlagsUntested(t) ==  \* (fault) only an empty action is refused
  /\ pc[t] = "popped"
  /\ Free(t, cur[t])
  /\ Goto(t, "admitted")
  /\ UNCHANGED <<queues, qlock, cursor, waits, due, flags, cur, history>>
Perform(t) ==
  /\ pc[t] = "popped"
  /\ Free(t, cur[t])
  /\ ~Dead(cur[t])
  /\ Goto(t, "admitted")
  /\ UNCHANGED <<queues, qlock, cursor, waits, due, flags, cur, history>>

\* ... which is released before the handler is called: the action may have been
\* canceled meanwhile.
CallHandler(t) ==
  /\ pc[t] = "admitted"
  /\ runs' = [runs EXCEPT ![cur[t]] = IF @ < MaxRuns THEN @ + 1 ELSE @]
  /\ Goto(t, "running")
  /\ UNCHANGED <<queues, qlock, cursor, waits, due, flags, cur, pushed>>

\* Canceled after it was popped: Perform throws, a thread pool worker swallows
\* the exception; the loop of Wait tests the flags first and goes on, unless the
\* cancellation comes between the two tests.
Refuse(t) ==
  /\ pc[t] = "popped"
  /\ Free(t, cur[t])
  /\ Dead(cur[t])
  /\ Goto(t, "idle")
  /\ cur' = [cur EXCEPT ![t] = None]
  /\ StopWaiting(t) \/ UNCHANGED waits
  /\ UNCHANGED <<queues, qlock, cursor, due, flags, history>>

\* The handler returned; the action is completed unless it is periodic.
Finish(t) ==
  /\ pc[t] = "running"
  /\ Free(t, cur[t])
  /\ is_completed' = IF cur[t] \in Periodic THEN is_completed
                                             ELSE is_completed \cup {cur[t]}
  /\ Goto(t, "idle")
  /\ cur' = [cur EXCEPT ![t] = None]
  /\ UNCHANGED <<queues, qlock, cursor, waits, due, is_canceled, history>>

\* The handler threw: nothing is marked, a wait is left by the exception.
Throw(t) ==
  /\ pc[t] = "running"
  /\ Goto(t, "idle")
  /\ cur' = [cur EXCEPT ![t] = None]
  /\ StopWaiting(t)
  /\ UNCHANGED <<queues, qlock, cursor, due, flags, history>>

\* Action::Cancel, by any thread, from inside a handler too.
Cancel(t, a) ==
  /\ pc[t] \in {"idle", "running"}
  /\ waiting[t] # None => pc[t] = "running"
  /\ a \in pushed \ is_canceled
  /\ Free(t, a)
  /\ is_canceled' = is_canceled \cup {a}
  /\ UNCHANGED <<queues, qlock, cursor, waits, due, is_completed, pc, cur,
                 history>>

\* Action::Wait: the mutex of the action is held until the wait ends; the
\* default wait handler pops and performs actions of the queue meanwhile.
Wait(t, a) ==
  /\ t \in Waiters
  /\ pc[t] = "idle" /\ waiting[t] = None
  /\ a \in pushed
  /\ holder[a] = None
  /\ holder' = [holder EXCEPT ![a] = t]
  /\ waiting' = [waiting EXCEPT ![t] = a]
  /\ UNCHANGED <<queues, qlock, cursor, due, flags, pc, cur, history>>

\* The loop of the wait handler ends: completed, canceled or out of time.
WaitReturn(t, expired) ==
  /\ pc[t] = "idle" /\ waiting[t] # None
  /\ Dead(waiting[t]) \/ expired
  /\ StopWaiting(t)
  /\ UNCHANGED <<queues, qlock, cursor, due, flags, pc, cur, history>>

-----------------------------------------------------------------------------
PopStep(t)     == Drop(t) \/ Skip(t) \/ Take(t) \/ PopNothing(t)
PerformStep(t) == Perform(t) \/ CallHandler(t) \/ Refuse(t) \/ Finish(t) \/ Throw(t)

Next ==
  \/ \E t \in Threads, a \in Actions :
       \/ \E delayed \in BOOLEAN : Push(t, a, delayed)
       \/ Cancel(t, a)
       \/ Wait(t, a)
  \/ \E t \in Threads :
       \/ PushReturn(t)
       \/ \E q \in Queues : BeginPop(t, q)
       \/ CleanupCurrentThread(t)
       \/ PopStep(t)
       \/ PerformStep(t)
       \/ \E expired \in BOOLEAN : WaitReturn(t, expired)
  \/ \E a \in Actions : Tick(a)

Spec == Init /\ [][Next]_vars

-----------------------------------------------------------------------------
\* Type invariant: the list, the mutexes and the state of each thread and action.
TypeOK ==
  /\ queue \in [Queues -> Seq(Actions)]
  /\ actions_count \in [Queues -> Nat]
  /\ thread_queues \subseteq Threads
  /\ qlock \in Threads \cup {None}
  /\ from \in Queues /\ pos \in Nat \ {0}
  /\ holder \in [Actions -> Waiters \cup {None}]
  /\ due \subseteq pushed /\ pushed \subseteq Actions
  /\ is_canceled \subseteq pushed /\ is_completed \subseteq pushed
  /\ pc \in [Threads -> PCs]
  /\ cur \in [Threads -> Actions \cup {None}]
  /\ waiting \in [Threads -> Actions \cup {None}]
  /\ runs \in [Actions -> 0..MaxRuns]

\* actions_count, which decides when the pool starts and ends threads, is kept
\* apart from the list it counts and never drifts from it.
CountExact == \A q \in Queues : actions_count[q] = Len(queue[q])

InHand(a) == \E t \in Threads : cur[t] = a
Listed(a) == \E q \in Queues : a \in Range(queue[q])

\* However pushes, pops, cancellations and waits interleave, the handler of an
\* action pushed without a period is started at most once, and the action is in
\* the list, in one thread's hands or finished, never in two of these at once.
AtMostOnce ==
  \A a \in Actions \ Periodic :
    /\ runs[a] <= 1
    /\ InHand(a) => ~Listed(a)
    /\ runs[a] = 1 => ~Listed(a)
    /\ \A t, u \in Threads : cur[t] = a /\ cur[u] = a => t = u

\* An action that was pushed is not lost: it is in the list, in somebody's
\* hands, was started, or was canceled; a periodic one stays in the list.
NothingLost ==
  \A a \in pushed \ is_canceled :
    \/ Listed(a)
    \/ a \notin Periodic /\ (InHand(a) \/ runs[a] > 0)

\* Threads that are past Perform's test of the flags of a and have yet to call its
\* handler.
Admitted(a) == {t \in Threads : pc[t] = "admitted" /\ cur[t] = a}

\* After Cancel has returned, the handler is called by threads only that were past
\* Perform's test before, and once by each; no thread passes the test any more.
OnlyAdmittedStart ==
  [][\A a \in is_canceled :
       /\ a \in is_canceled'
       /\ Admitted(a)' \subseteq Admitted(a)
       /\ runs'[a] # runs[a] => \E t \in Admitted(a) : Admitted(a)' = Admitted(a) \ {t}]_vars

\* An action pushed for a thread is performed by that thread and no other, even if
\* others wait for it, and while it waits itself for an action of another.
InItsThread ==
  \A t \in Threads :
    cur[t] # None /\ Target[cur[t]] \in Threads => Target[cur[t]] = t

\* "thread safe": no two threads wait for each other.  t waits for u when
\* t needs the queue's mutex, an action's mutex, or the end of an action,
\* and u has it in hand.
WaitsFor(t, u) ==
  \/ /\ pc[t] = "idle" /\ waiting[t] # None
     /\ qlock = u \/ cur[u] = waiting[t]
  \/ pc[t] = "scan" /\ pos <= Len(list) /\ holder[list[pos]] = u
  \/ pc[t] \in {"popped", "running"} /\ holder[cur[t]] = u

NoCircularWait ==
  \A t, u \in Threads : t # u => ~(WaitsFor(t, u) /\ WaitsFor(u, t))
=============================================================================
