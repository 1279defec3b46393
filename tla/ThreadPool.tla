----------------------------- MODULE ThreadPool -----------------------------
(***************************************************************************)
(* The pool of background threads that serves the background queue of      *)
(* ActionQueue, and each of its threads its own                            *)
(* (src/components/system/sources/wrappers/sys_thread_pool.cpp), composed  *)
(* with those queues.  The pool listens to OnPushAction, inside the        *)
(* queue's mutex, and starts a thread when there is none or when too many  *)
(* actions wait; a thread that found nothing to do for two minutes ends    *)
(* itself, under the pool's own mutex, if the background queue is empty.   *)
(* A new thread may have the id of one that has ended.                     *)
(***************************************************************************)
EXTENDS ActionQueue, FiniteSets

CONSTANTS Clients,    \* threads of the program that push and cancel
          Workers,    \* bound: places for threads of the pool
          Background, \* the queue of ActionThread_Background
          NewThread   \* NEW_THREAD_WAIT_ACTIONS_COUNT

ASSUME PoolAssumption ==
  /\ Threads = Clients \cup Workers
  /\ Clients \cap Workers = {}
  /\ IsFiniteSet(Workers)
  /\ Background \in Shared
  /\ Waiters = {}
  /\ NewThread \in Nat

VARIABLES plock,          \* owner of the pool's mutex
          threads_count,
          notified,       \* threads whose OnPushAction listeners have run
          wpc,            \* where each worker is in BackgroundThread::Run
          left,           \* pops of its own queue it has before it: count - i
          processed       \* workers with processed_actions > 0

run == <<left, processed>>
pool == <<plock, threads_count, notified, wpc, run>>
allvars == <<vars, pool>>

\*   absent      no such thread
\*   loop        at the beginning of the loop
\*   own         performing actions of its own queue
\*   background  performing an action of the background queue
\*   empty       has performed nothing in this pass
\*   checking    two minutes idle, holds the pool's mutex, about to count actions
\*   cleaning    counted none, about to call CleanupCurrentThread
\*   exiting     left Run, the pool's mutex released, not yet destroyed
WorkerPCs == {"absent", "loop", "own", "background", "empty", "checking", "cleaning",
              "exiting"}
InLoop    == {"loop", "own", "background", "empty"}
Alive     == {w \in Workers : wpc[w] # "absent"}
Become(w, l) == wpc' = [wpc EXCEPT ![w] = l]

PoolInit ==
  /\ Init
  /\ plock = None
  /\ threads_count = 0
  /\ notified = {}
  /\ wpc = [w \in Workers |-> "absent"]
  /\ left = [w \in Workers |-> 0]
  /\ processed = {}

-----------------------------------------------------------------------------
\* Pushing and canceling, by clients and by the handlers that workers run.
MayCall(t) == t \in Clients \/ pc[t] = "running"

\* The pool's listener returns at once unless the action is for it.
PoolPush(t, a, delayed) ==
  /\ MayCall(t) /\ Push(t, a, delayed)
  /\ notified' = IF Target[a] = Background THEN notified \ {t} ELSE notified \cup {t}
  /\ UNCHANGED <<plock, threads_count, wpc, run>>

\* (fault) the thread is never counted.
Create_Uncounted(w) ==
  /\ wpc[w] = "absent"
  /\ Become(w, "loop")
  /\ UNCHANGED threads_count

\* The constructor of BackgroundThread: the thread is started and counted.
Create(w) ==
  /\ wpc[w] = "absent"
  /\ Become(w, "loop")
  /\ threads_count' = threads_count + 1

\* A new thread is needed.
TooFew == threads_count = 0 \/ actions_count[Background] > NewThread

\* ProcessNewEvent, with the queue's mutex held by the pushing thread.
ProcessNewEvent(t) ==
  /\ pc[t] = "push" /\ t \notin notified
  /\ plock = None
  /\ IF TooFew
     THEN \/ \E w \in Workers : Create(w)
          \/ Alive = Workers /\ UNCHANGED <<wpc, threads_count>>
     ELSE UNCHANGED <<wpc, threads_count>>
  /\ notified' = notified \cup {t}
  /\ UNCHANGED <<vars, plock, run>>

PoolPushReturn(t) ==
  /\ t \in notified
  /\ PushReturn(t)
  /\ UNCHANGED pool

PoolCancel(t, a) == MayCall(t) /\ Cancel(t, a) /\ UNCHANGED pool

-----------------------------------------------------------------------------
\* The workers: a pass of the loop performs as many actions of the worker's own
\* queue as there were when it began ...
CountOwn(w) ==
  /\ wpc[w] = "loop" /\ qlock = None
  /\ Become(w, "own")
  /\ left' = [left EXCEPT ![w] = actions_count[w]]
  /\ processed' = processed \ {w}
  /\ UNCHANGED <<vars, plock, threads_count, notified>>

PopOwn_UntilEmpty(w) ==  \* (fault) it performs as many as there are
  /\ wpc[w] = "own" /\ left[w] > 0
  /\ BeginPop(w, w)
  /\ UNCHANGED pool
PopOwn(w) ==
  /\ wpc[w] = "own" /\ left[w] > 0
  /\ BeginPop(w, w)
  /\ left' = [left EXCEPT ![w] = @ - 1]
  /\ UNCHANGED <<plock, threads_count, notified, wpc, processed>>

\* ... and one of the background queue.
PopBackground(w) ==
  /\ wpc[w] = "own" /\ left[w] = 0
  /\ BeginPop(w, Background)
  /\ Become(w, "background")
  /\ UNCHANGED <<plock, threads_count, notified, run>>

WorkerScan(w) == (Drop(w) \/ Skip(w) \/ Take(w)) /\ UNCHANGED pool
WorkerPerform(w) == (Perform(w) \/ CallHandler(w)) /\ UNCHANGED pool

\* What comes after a pop, and after performing what it gave.
AfterPop(w, done) ==
  /\ processed' = processed \cup {u \in {w} : done}
  /\ IF wpc[w] = "own" THEN UNCHANGED wpc
     ELSE Become(w, IF w \in processed' THEN "loop" ELSE "empty")
  /\ UNCHANGED <<plock, threads_count, notified, left>>

WorkerFinishes(w) == Finish(w) /\ AfterPop(w, TRUE)

\* Nothing was popped, or an exception swallowed: nothing counts as processed.
WorkerHasNone(w) ==
  /\ PopNothing(w) \/ Refuse(w) \/ Throw(w)
  /\ AfterPop(w, FALSE)

WorkerSleep(w) ==
  /\ wpc[w] = "empty"
  /\ Become(w, "loop")
  /\ UNCHANGED <<vars, plock, threads_count, notified, run>>

\* Two minutes without an action performed: the pool is locked ...
Expired(w) ==
  /\ wpc[w] = "empty"
  /\ plock = None
  /\ plock' = w
  /\ Become(w, "checking")
  /\ UNCHANGED <<vars, threads_count, notified, run>>

\* ... and the queue's mutex taken for ActionsCount (ActionThread_Background) ...
CheckEmpty(w) ==
  /\ wpc[w] = "checking"
  /\ qlock = None
  /\ IF actions_count[Background] = 0
     THEN Become(w, "cleaning") /\ UNCHANGED plock
     ELSE Become(w, "loop") /\ plock' = None
  /\ UNCHANGED <<vars, threads_count, notified, run>>

\* ... and taken again for CleanupCurrentThread, which erases the worker's own
\* queue or throws; either way Run is left, unlocking the pool.
Cleanup(w) ==
  /\ wpc[w] = "cleaning"
  /\ qlock = None
  /\ plock' = None
  /\ Become(w, "exiting")
  /\ IF w \in thread_queues /\ queue[w] = <<>> THEN CleanupCurrentThread(w)
                                               ELSE UNCHANGED vars
  /\ UNCHANGED <<threads_count, notified, run>>

\* (fault) the counter is not lowered.
Destroy_Uncounted(w) ==
  /\ wpc[w] = "exiting"
  /\ plock = None
  /\ Become(w, "absent")
  /\ UNCHANGED <<vars, plock, threads_count, notified, run>>

\* The destructor of BackgroundThread.
Destroy(w) ==
  /\ wpc[w] = "exiting"
  /\ plock = None
  /\ threads_count' = threads_count - 1
  /\ Become(w, "absent")
  /\ UNCHANGED <<vars, plock, notified, run>>

-----------------------------------------------------------------------------
WorkerPop(w) == CountOwn(w) \/ PopOwn(w) \/ PopBackground(w)

WorkerStep(w) ==
  \/ WorkerScan(w) \/ WorkerPerform(w) \/ WorkerFinishes(w) \/ WorkerHasNone(w)
  \/ WorkerSleep(w) \/ Destroy(w)

WorkerExit(w) == Expired(w) \/ CheckEmpty(w) \/ Cleanup(w)

PoolNext ==
  \/ \E t \in Threads :
       \/ \E a \in Actions :
            \/ \E delayed \in BOOLEAN : PoolPush(t, a, delayed)
            \/ PoolCancel(t, a)
       \/ ProcessNewEvent(t)
       \/ PoolPushReturn(t)
  \/ \E w \in Workers : WorkerPop(w) \/ WorkerStep(w) \/ WorkerExit(w)
  \/ \E a \in Actions : Tick(a) /\ UNCHANGED pool

PoolSpec == PoolInit /\ [][PoolNext]_allvars

\* Every thread runs, handlers end, and a contended mutex is granted to who keeps
\* asking.
PoolFairness ==
  /\ \A t \in Threads : SF_allvars(ProcessNewEvent(t)) /\ WF_allvars(PoolPushReturn(t))
  /\ \A w \in Workers :
       /\ SF_allvars(WorkerPop(w)) /\ WF_allvars(WorkerStep(w))
       /\ SF_allvars(CheckEmpty(w)) /\ SF_allvars(Cleanup(w))
  /\ \A a \in Actions : WF_allvars(Tick(a) /\ UNCHANGED pool)

FairPoolSpec == PoolSpec /\ PoolFairness

-----------------------------------------------------------------------------
\* Type invariant of the queue and the pool together.
PoolTypeOK ==
  /\ TypeOK
  /\ plock \in Workers \cup {None}
  /\ threads_count \in Nat
  /\ notified \subseteq Threads
  /\ wpc \in [Workers -> WorkerPCs]
  /\ left \in [Workers -> Nat]
  /\ processed \subseteq Workers

\* threads_count is the number of threads constructed and not yet destroyed,
\* and a thread that has left its loop has no action in hand.
ThreadsCounted ==
  /\ threads_count = Cardinality(Alive)
  /\ \A w \in Workers :
       wpc[w] \in {"absent", "checking", "cleaning", "exiting"} =>
         cur[w] = None /\ pc[w] = "idle"

\* Every action pushed while a thread serves its queue, or to the background queue
\* when no thread exists at all, is started some day unless it is canceled or a
\* thread that would serve it begins to end itself: a thread is created if there is
\* none, also after all have ended, no action is starved by periodic ones, and
\* neither queue by the other.
Started(a) == runs[a] > 0 \/ a \in is_canceled
Serves(a)  == IF Target[a] = Background THEN Workers ELSE Workers \cap {Target[a]}
Pushing    == \E t \in Threads : pc[t] = "push" /\ t \notin notified

PoolServes ==
  \A a \in Actions :
    /\ a \in pushed
    /\ \/ \E w \in Serves(a) : wpc[w] \in InLoop
       \/ Target[a] = Background /\ Alive = {} /\ Pushing
    ~> Started(a) \/ \E w \in Serves(a) : wpc[w] \in {"checking", "cleaning", "exiting"}

\* "time of self-destruction of a thread in the absence of active tasks": when
\* an action is in the queue and its push has returned, some thread of the pool
\* is still going to look at it.
TasksKeepAThread ==
  queue[Background] # <<>> /\ (\A c \in Clients : pc[c] # "push") =>
    \E w \in Workers : wpc[w] \notin {"absent", "exiting"}

\* "thread safe": a thread that pushes and a thread of the pool that ends do not
\* wait for each other's mutex.
NoPoolDeadlock ==
  \A c \in Clients, w \in Workers :
    ~(/\ qlock = c /\ pc[c] = "push" /\ c \notin notified
      /\ plock = w /\ wpc[w] \in {"checking", "cleaning"})
=============================================================================
