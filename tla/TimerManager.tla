---------------------------- MODULE TimerManager ----------------------------
(***************************************************************************)
(* The timers of the Unix platforms                                        *)
(* (src/components/system/sources/platform/unistd/                         *)
(* unistd_timer_manager.cpp): a thread that waits for the next timer and   *)
(* posts a message for it, the main loop that dispatches the message to    *)
(* the timer's handler, and threads that create and kill timers.           *)
(*                                                                         *)
(* A message names its timer by address, and the allocator may give the    *)
(* address of a dead timer to a new one.  DispatchTimer runs the handler   *)
(* under the manager's recursive mutex.                                    *)
(*                                                                         *)
(* kill_lock and need_delete are left out: they are set and read under the *)
(* mutex, and could be met only by the timer thread itself, re-entered     *)
(* from PushMessage, which no listener of the message queue does.          *)
(***************************************************************************)
EXTENDS MessageQueue, FiniteSets, SequencesExt

CONSTANTS Worker,     \* the thread of TimersRoutine
          Main,       \* the thread of the main loop
          Users,      \* other threads that create and kill timers
          Timers,     \* the timers of a run, each created at most once
          Addresses,  \* where the allocator may put a timer_handle
          MaxRaises,  \* bound: how often each timer is due
          None

ASSUME TimerAssumption ==
  /\ Worker # Main /\ {Worker, Main} \cap Users = {}
  /\ IsFiniteSet(Timers) /\ MaxRaises \in [Timers -> Nat]
  /\ None \notin {Worker, Main} \cup Users \cup Timers \cup Addresses

Callers == Users \cup {Main}
Manager == "manager"  \* the handler id of the TimerManager
MessageOf(a) == [id |-> Manager, timer |-> a]

VARIABLES mutex,             \* owner of the manager's mutex
          timers,            \* the vector of live timers
          addr,              \* the address of each timer created
          due,               \* live timers whose next_raise_time has come
          new_timers_count,
          loop,
          pc,
          waits_for,         \* the timers TryWait's delay was computed from
          raising,           \* due when the pass over the timers began
          iter,              \* place of the timer thread in that pass
          msg,               \* the address in the message being dispatched
          running,           \* the timer whose handler runs
          owes,              \* threads about to call NotifyOne
          killed,            \* history: timers killed
          raised, ticks      \* history: messages posted, handlers run

worker  == <<waits_for, raising, iter>>
history == <<killed, raised, ticks>>
vars == <<queueVars, mutex, timers, addr, due, new_timers_count, loop, pc, worker, msg,
          running, owes, history>>

WorkerPCs == {"test", "lock", "look", "asleep", "raise", "end"}
MainPCs   == {"loop", "dispatch", "handler", "join", "done"}

Goto(t, l) == pc' = [pc EXCEPT ![t] = l]
Live       == Range(timers)
Created    == {x \in Timers : addr[x] # None}

Init ==
  /\ QueueInit({Manager})
  /\ mutex = None
  /\ timers = <<>> /\ addr = [x \in Timers |-> None] /\ due = {}
  /\ new_timers_count = 0 /\ loop = TRUE
  /\ pc = [t \in {Worker, Main} |-> IF t = Worker THEN "test" ELSE "loop"]
  /\ waits_for = {} /\ raising = {} /\ iter = 1
  /\ msg = None /\ running = None
  /\ owes = {} /\ killed = {}
  /\ raised = [x \in Timers |-> 0] /\ ticks = [x \in Timers |-> 0]

\* The clock reaches the next_raise_time of x.
Tick(x) ==
  /\ x \in Live \ due /\ raised[x] < MaxRaises[x]
  /\ due' = due \cup {x}
  /\ UNCHANGED <<queueVars, mutex, timers, addr, new_timers_count, loop, pc, worker, msg,
                 running, owes, history>>

-----------------------------------------------------------------------------
(* CreateTimer and KillTimer, by a thread outside the manager or by the      *)
(* handler of a timer: the mutex is recursive.                               *)

MayCall(t) == /\ t \notin owes
              /\ mutex \in {None, t}
              /\ t = Main => pc[Main] \in {"loop", "handler"}

CreateTimer_Silent(t, x) ==  \* (fault) condition.NotifyOne is forgotten
  /\ MayCall(t) /\ x \notin Created
  /\ \E a \in Addresses \ {addr[y] : y \in Live} : addr' = [addr EXCEPT ![x] = a]
  /\ timers' = Append(timers, x)
  /\ new_timers_count' = new_timers_count + 1
  /\ UNCHANGED <<queueVars, mutex, due, loop, pc, worker, msg, running, owes, history>>
CreateTimer(t, x) ==
  /\ MayCall(t) /\ x \notin Created
  /\ \E a \in Addresses \ {addr[y] : y \in Live} : addr' = [addr EXCEPT ![x] = a]
  /\ timers' = Append(timers, x)
  /\ new_timers_count' = new_timers_count + 1
  /\ owes' = owes \cup {t}
  /\ UNCHANGED <<queueVars, mutex, due, loop, pc, worker, msg, running, history>>

\* A handler that kills its own timer goes on without it.
KillTimer_StaysListed(t, x) ==  \* (fault) it is not erased from timers
  /\ MayCall(t) /\ x \in Live
  /\ killed' = killed \cup {x}
  /\ running' = IF t = Main /\ running = x THEN None ELSE running
  /\ owes' = owes \cup {t}
  /\ UNCHANGED <<queueVars, mutex, timers, addr, due, new_timers_count, loop, pc, worker,
                 msg, raised, ticks>>
KillTimer(t, x) ==
  /\ MayCall(t) /\ x \in Live
  /\ \E i \in DOMAIN timers : timers[i] = x /\ timers' = RemoveAt(timers, i)
  /\ due' = due \ {x}
  /\ killed' = killed \cup {x}
  /\ running' = IF t = Main /\ running = x THEN None ELSE running
  /\ owes' = owes \cup {t}
  /\ UNCHANGED <<queueVars, mutex, addr, new_timers_count, loop, pc, worker, msg, raised,
                 ticks>>

\* Both notify after they have left the critical section.
WakeWorker == IF pc[Worker] = "asleep" THEN Goto(Worker, "lock") ELSE UNCHANGED pc

NotifyOne(t) ==
  /\ t \in owes
  /\ owes' = owes \ {t}
  /\ WakeWorker
  /\ UNCHANGED <<queueVars, mutex, timers, addr, due, new_timers_count, loop, worker, msg,
                 running, history>>

-----------------------------------------------------------------------------
(* TimersRoutine *)

still == <<addr, new_timers_count, loop, msg, running, owes>>

\* The outer loop reads its flag without the mutex, then takes it.
TestLoop ==
  /\ pc[Worker] = "test"
  /\ Goto(Worker, IF loop THEN "lock" ELSE "end")
  /\ UNCHANGED <<queueVars, mutex, timers, due, worker, history, still>>

Lock ==
  /\ pc[Worker] = "lock" /\ mutex = None
  /\ mutex' = Worker
  /\ Goto(Worker, "look")
  /\ UNCHANGED <<queueVars, timers, due, worker, history, still>>

\* A timer is due, or the manager is closing: the pass over the timers begins.
StartPass ==
  /\ pc[Worker] = "look"
  /\ due # {} \/ ~loop
  /\ raising' = due /\ iter' = 1
  /\ Goto(Worker, "raise")
  /\ UNCHANGED <<queueVars, mutex, timers, due, waits_for, history, still>>

LookAgain ==
  /\ pc[Worker] = "look"
  /\ due = {} /\ loop /\ new_timers_count > 0
  /\ new_timers_count' = new_timers_count - 1
  /\ UNCHANGED <<queueVars, mutex, timers, addr, due, loop, pc, worker, msg, running, owes,
                 history>>

\* condition.TryWait: until a notification or, if there are timers, a time out.
TryWait ==
  /\ pc[Worker] = "look"
  /\ due = {} /\ loop /\ new_timers_count = 0
  /\ mutex' = None
  /\ waits_for' = Live
  /\ Goto(Worker, "asleep")
  /\ UNCHANGED <<queueVars, timers, due, raising, iter, history, still>>

\* The delay is a part of the time to the first raise: it may be over early.
TimeOut ==
  /\ pc[Worker] = "asleep" /\ waits_for # {}
  /\ Goto(Worker, "lock")
  /\ UNCHANGED <<queueVars, mutex, timers, due, worker, history, still>>

\* The pass: one message for each timer that was due, which is then re-armed.
Raise ==
  /\ pc[Worker] = "raise" /\ iter <= Len(timers)
  /\ IF timers[iter] \in raising
       THEN /\ PushMessage(MessageOf(addr[timers[iter]]))
            /\ due' = due \ {timers[iter]}
            /\ raised' = [raised EXCEPT ![timers[iter]] = @ + 1]
       ELSE UNCHANGED <<queueVars, due, raised>>
  /\ iter' = iter + 1
  /\ UNCHANGED <<mutex, timers, pc, waits_for, raising, killed, ticks, still>>

EndPass ==
  /\ pc[Worker] = "raise" /\ iter > Len(timers)
  /\ mutex' = None
  /\ Goto(Worker, "test")
  /\ UNCHANGED <<queueVars, timers, due, worker, history, still>>

-----------------------------------------------------------------------------
(* The main loop *)

PopTimerMessage ==
  /\ pc[Main] = "loop" /\ Main \notin owes
  /\ \E a \in Addresses : PopMessage(MessageOf(a)) /\ msg' = a
  /\ Goto(Main, "dispatch")
  /\ UNCHANGED <<mutex, timers, addr, due, new_timers_count, loop, worker, running, owes,
                 history>>

At(a) == {x \in Live : addr[x] = a}

\* (fault) the timer is called through the pointer, without a look at the list.
DispatchTimer_ByPointer ==
  /\ pc[Main] = "dispatch" /\ mutex = None
  /\ msg' = None
  /\ \E x \in Created : /\ addr[x] = msg
                        /\ mutex' = Main /\ running' = x
                        /\ ticks' = [ticks EXCEPT ![x] = @ + 1]
                        /\ Goto(Main, "handler")
  /\ UNCHANGED <<queueVars, timers, addr, due, new_timers_count, loop, worker, owes,
                 killed, raised>>
\* (fault) the handler runs without the mutex.
DispatchTimer_Unlocked ==
  /\ pc[Main] = "dispatch" /\ mutex = None
  /\ msg' = None
  /\ IF At(msg) = {}
       THEN Goto(Main, "loop") /\ UNCHANGED <<running, ticks>>
       ELSE \E x \in At(msg) : /\ running' = x
                               /\ ticks' = [ticks EXCEPT ![x] = @ + 1]
                               /\ Goto(Main, "handler")
  /\ UNCHANGED <<queueVars, mutex, timers, addr, due, new_timers_count, loop, worker, owes,
                 killed, raised>>
\* (fault) the search begins at the second timer.
DispatchTimer_OffByOne ==
  /\ pc[Main] = "dispatch" /\ mutex = None
  /\ msg' = None
  /\ IF At(msg) \ {timers[i] : i \in 1..1 \cap DOMAIN timers} = {}
       THEN Goto(Main, "loop") /\ UNCHANGED <<mutex, running, ticks>>
       ELSE \E x \in At(msg) : /\ mutex' = Main /\ running' = x
                               /\ ticks' = [ticks EXCEPT ![x] = @ + 1]
                               /\ Goto(Main, "handler")
  /\ UNCHANGED <<queueVars, timers, addr, due, new_timers_count, loop, worker, owes,
                 killed, raised>>
\* The handler of the timer now at that address, if there is one.
DispatchTimer ==
  /\ pc[Main] = "dispatch" /\ mutex = None
  /\ msg' = None
  /\ IF At(msg) = {}
       THEN Goto(Main, "loop") /\ UNCHANGED <<mutex, running, ticks>>
       ELSE \E x \in At(msg) : /\ mutex' = Main /\ running' = x
                               /\ ticks' = [ticks EXCEPT ![x] = @ + 1]
                               /\ Goto(Main, "handler")
  /\ UNCHANGED <<queueVars, timers, addr, due, new_timers_count, loop, worker, owes,
                 killed, raised>>

HandlerReturns ==
  /\ pc[Main] = "handler" /\ Main \notin owes
  /\ mutex' = None
  /\ running' = None
  /\ Goto(Main, "loop")
  /\ UNCHANGED <<queueVars, timers, addr, due, new_timers_count, loop, worker, msg, owes,
                 history>>

-----------------------------------------------------------------------------
(* ~TimerManager, by the main thread when the loop is over *)

CloseTimersThread_Silent ==  \* (fault) only the flag is set
  /\ pc[Main] = "loop" /\ Main \notin owes /\ mutex = None
  /\ loop' = FALSE
  /\ Goto(Main, "join")
  /\ UNCHANGED <<queueVars, mutex, timers, addr, due, new_timers_count, worker, msg,
                 running, owes, history>>
CloseTimersThread ==
  /\ pc[Main] = "loop" /\ Main \notin owes /\ mutex = None
  /\ loop' = FALSE
  /\ pc' = [pc EXCEPT ![Main] = "join",
                      ![Worker] = IF @ = "asleep" THEN "lock" ELSE @]
  /\ UNCHANGED <<queueVars, mutex, timers, addr, due, new_timers_count, worker, msg,
                 running, owes, history>>

Join ==
  /\ pc[Main] = "join" /\ pc[Worker] = "end"
  /\ UnregisterHandler(Manager)
  /\ Goto(Main, "done")
  /\ UNCHANGED <<mutex, timers, due, worker, history, still>>

-----------------------------------------------------------------------------
WorkerStep == TestLoop \/ Lock \/ StartPass \/ LookAgain \/ TryWait \/ TimeOut \/ Raise
              \/ EndPass
MainStep   == PopTimerMessage \/ DispatchTimer \/ HandlerReturns \/ Join

Next ==
  \/ \E t \in Callers :
       \/ \E x \in Timers : CreateTimer(t, x) \/ KillTimer(t, x)
       \/ NotifyOne(t)
  \/ \E x \in Timers : Tick(x)
  \/ WorkerStep
  \/ MainStep
  \/ CloseTimersThread

Spec == Init /\ [][Next]_vars

\* Both threads run, each gets the mutex it asks for again and again, a thread
\* inside a function goes on, and time passes.
Fairness ==
  /\ SF_vars(WorkerStep) /\ SF_vars(MainStep)
  /\ \A t \in Callers : WF_vars(NotifyOne(t))
  /\ \A x \in Timers : WF_vars(Tick(x))

FairSpec == Spec /\ Fairness

-----------------------------------------------------------------------------
\* Type invariant; the vector holds each timer that was created and not killed
\* once, and only those can be due.
TypeOK ==
  /\ messages \in Seq({MessageOf(a) : a \in Addresses})
  /\ handlers \subseteq {Manager} /\ asleep = {} /\ was_empty_message_pushed = FALSE
  /\ mutex \in {None, Worker, Main}
  /\ timers \in Seq(Timers) /\ Cardinality(Live) = Len(timers)
  /\ addr \in [Timers -> Addresses \cup {None}]
  /\ due \subseteq Live /\ Live = Created \ killed
  /\ new_timers_count \in 0..Cardinality(Timers) /\ loop \in BOOLEAN
  /\ pc[Worker] \in WorkerPCs /\ pc[Main] \in MainPCs
  /\ waits_for \subseteq Timers /\ raising \subseteq Timers
  /\ iter \in 1..Cardinality(Timers) + 1
  /\ msg \in Addresses \cup {None} /\ running \in Timers \cup {None}
  /\ owes \subseteq Callers
  /\ raised \in [Timers -> Nat] /\ (\A x \in Timers : raised[x] <= MaxRaises[x]) /\ ticks \in [Timers -> Nat]

\* KillTimer waits for the handler: when it returns in another thread the
\* handler is not running, so that thread may destroy what the handler uses.
KillWaitsForHandler == running # None => running \in Live

\* Once a timer is killed its handler is never started again, whatever messages
\* are left in the queue.
KillIsFinal == [][\A x \in killed : ticks'[x] = ticks[x]]_vars

Sent(x) == Cardinality({i \in DOMAIN messages : messages[i].timer = addr[x]})
           + (IF msg = addr[x] THEN 1 ELSE 0)

\* A timer that shares its address with no other is ticked exactly once for each
\* time it was due: its messages are neither lost nor doubled.
TicksExact ==
  \A x \in Live :
    (\A y \in Created \ {x} : addr[y] # addr[x]) => ticks[x] + Sent(x) = raised[x]

\* A live timer goes off in the end, also one created while the timer thread
\* sleeps without a time out.
TimersGoOff ==
  \A x \in Timers : x \in Live ~> (raised[x] > 0 \/ x \in killed \/ ~loop)

\* Closing the manager ends the timer thread, asleep or not.
Closes == ~loop ~> pc[Main] = "done"

\* "the time of the next firing": a timer does not fire before it was due.
NotEarly == \A x \in Timers : ticks[x] <= raised[x]
=============================================================================
