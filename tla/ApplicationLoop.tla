--------------------------- MODULE ApplicationLoop --------------------------
(***************************************************************************)
(* The main loop: syslib::Application                                      *)
(* (src/components/system/sources/wrappers/sys_application.cpp) driving    *)
(* the delegate of the message queue platforms                             *)
(* (sources/platform/message_queue/sys_application_delegate.cpp), with     *)
(* other threads that push actions for the main thread, post messages and  *)
(* call Application::Exit.                                                 *)
(*                                                                         *)
(* The loop alternates between messages and, while idle_enabled is set,    *)
(* OnIdle, which performs the main thread's actions; with neither to do it *)
(* sleeps in WaitMessage.  Actions are counted here, module ActionQueue    *)
(* says what they are; delays are left out, an action is due at once.  No  *)
(* handler of OnIdle is connected: with one the loop never sleeps.         *)
(*                                                                         *)
(* Locks: applock is the mutex of ApplicationSingleton, qlock that of      *)
(* ActionQueueSingleton, held by a pushing thread through OnPushAction.    *)
(* idle_enabled, is_exit_detected and current_delegate have none.          *)
(***************************************************************************)
EXTENDS MessageQueue, SequencesExt

CONSTANTS Main, Threads,  \* the main thread and the others
          Windows,        \* message handlers other than the delegates
          MaxRuns,        \* bound: calls of Application::Run, a delegate each
          MaxPosts,       \* bound: messages posted to windows
          MaxPushes,      \* bound: actions pushed
          None

ASSUME LoopAssumption ==
  /\ Main \notin Threads
  /\ MaxRuns \in Nat /\ MaxPosts \in Nat /\ MaxPushes \in Nat
  /\ Windows \cap (1..MaxRuns) = {}
  /\ None \notin Threads \cup {Main} \cup Windows \cup (0..MaxRuns)

Delegates == 1..MaxRuns
Queues    == {"main", "current"}  \* ActionThread_Main, the main thread's own

Messages   == [id : Windows \cup Delegates, kind : {"exit", "user"}]
ExitOf(d)  == [id |-> d, kind |-> "exit"]
UserOf(w)  == [id |-> w, kind |-> "user"]

VARIABLES applock, qlock,
          is_exit_detected, current_delegate,  \* ApplicationImpl
          idle_enabled, is_exited,             \* of each delegate
          pending,                             \* actions in each queue
          pc,
          run,      \* calls of Run so far, and the delegate of the last
          updates,  \* calls of SetIdleState the main thread has left to make
          answer,   \* what IsIdleEnabled returned to it
          batch,    \* ProcessActions: the queue and the calls of PopAction left
          msg,      \* the message DispatchFirstMessage popped
          target,   \* the delegate a pushing thread found
          posts, pushes

locks    == <<applock, qlock>>
app      == <<is_exit_detected, current_delegate>>
delegate == <<idle_enabled, is_exited>>
main     == <<run, updates, answer, batch, msg>>
bounds   == <<posts, pushes>>
vars == <<queueVars, locks, app, delegate, pending, pc, main, target, bounds>>

MainPCs   == {"out", "begin", "ask_main", "ask_current", "set", "set_push", "loop",
              "drain", "dispatch", "handle", "check", "test", "wait", "count",
              "pop", "perform", "end", "destroy"}
ThreadPCs == {"idle", "exit", "pushed", "set", "set_push"}

Goto(t, l) == pc' = [pc EXCEPT ![t] = l]
AtMain(l)  == pc[Main] = l

Init ==
  /\ QueueInit(Windows)
  /\ applock = None /\ qlock = None
  /\ is_exit_detected = FALSE /\ current_delegate = None
  /\ idle_enabled = [d \in Delegates |-> FALSE]
  /\ is_exited = [d \in Delegates |-> FALSE]
  /\ pending = [q \in Queues |-> 0]
  /\ pc = [t \in Threads \cup {Main} |-> IF t = Main THEN "out" ELSE "idle"]
  /\ run = 0 /\ updates = 0 /\ answer = FALSE
  /\ batch = [queue |-> "main", left |-> 0]
  /\ msg = None
  /\ target = [t \in Threads |-> None]
  /\ posts = 0 /\ pushes = 0

-----------------------------------------------------------------------------
(* Application::Run *)

\* The delegate is constructed and registers itself.
CreateDelegate ==
  /\ AtMain("out") /\ run < MaxRuns
  /\ run' = run + 1
  /\ RegisterHandler(run + 1)
  /\ Goto(Main, "begin")
  /\ UNCHANGED <<locks, app, delegate, pending, updates, answer, batch, msg, target,
                 bounds>>

\* An exit asked for before the loop began is passed on to the delegate; then
\* UpdateIdleState, and SetIdleState once more from Run, under the same lock.
BeginDelegate_ForgetsExit ==  \* (fault) is_exit_detected is not looked at
  /\ AtMain("begin") /\ applock = None
  /\ applock' = Main
  /\ current_delegate' = run
  /\ updates' = 2
  /\ Goto(Main, "ask_main")
  /\ UNCHANGED <<queueVars, qlock, is_exit_detected, delegate, pending, run, answer,
                 batch, msg, target, bounds>>
BeginDelegate ==
  /\ AtMain("begin") /\ applock = None
  /\ applock' = Main
  /\ current_delegate' = run
  /\ IF is_exit_detected THEN PushMessage(ExitOf(run)) ELSE UNCHANGED queueVars
  /\ updates' = 2
  /\ Goto(Main, "ask_main")
  /\ UNCHANGED <<qlock, is_exit_detected, delegate, pending, run, answer, batch, msg,
                 target, bounds>>

\* The loop has ended, or a message handler threw.
EndDelegate ==
  /\ AtMain("end") /\ applock = None
  /\ current_delegate' = None
  /\ Goto(Main, "destroy")
  /\ UNCHANGED <<queueVars, locks, is_exit_detected, delegate, pending, main, target,
                 bounds>>

DestroyDelegate ==
  /\ AtMain("destroy")
  /\ UnregisterHandler(run)
  /\ Goto(Main, "out")
  /\ UNCHANGED <<locks, app, delegate, pending, main, target, bounds>>

-----------------------------------------------------------------------------
(* UpdateIdleState on the main thread: IsIdleEnabled takes qlock twice,     *)
(* then SetIdleState writes the flag.                                       *)

AskMain ==
  /\ AtMain("ask_main") /\ qlock = None
  /\ answer' = (pending["main"] > 0)
  /\ Goto(Main, IF pending["main"] > 0 THEN "set" ELSE "ask_current")
  /\ UNCHANGED <<queueVars, locks, app, delegate, pending, run, updates, batch, msg,
                 target, bounds>>

AskCurrent ==
  /\ AtMain("ask_current") /\ qlock = None
  /\ answer' = (pending["current"] > 0)
  /\ Goto(Main, "set")
  /\ UNCHANGED <<queueVars, locks, app, delegate, pending, run, updates, batch, msg,
                 target, bounds>>

\* Where the main thread goes after SetIdleState.
Updated ==
  /\ updates' = updates - 1
  /\ IF updates > 1
       THEN Goto(Main, "ask_main") /\ UNCHANGED applock
       ELSE Goto(Main, "loop") /\ applock' = IF applock = Main THEN None ELSE applock

SetIdleState ==
  /\ AtMain("set")
  /\ idle_enabled' = [idle_enabled EXCEPT ![run] = answer]
  /\ IF answer THEN Goto(Main, "set_push") /\ UNCHANGED <<applock, updates>>
               ELSE Updated
  /\ UNCHANGED <<queueVars, qlock, app, is_exited, pending, run, answer, batch, msg,
                 target, bounds>>

SetIdlePush ==
  /\ AtMain("set_push")
  /\ PushEmptyMessage
  /\ Updated
  /\ UNCHANGED <<qlock, app, delegate, pending, run, answer, batch, msg, target, bounds>>

-----------------------------------------------------------------------------
(* ApplicationDelegate::Run *)

quiet == <<locks, app, delegate, pending, run, updates, answer, batch, target, bounds>>

Loop ==
  /\ AtMain("loop")
  /\ Goto(Main, IF is_exited[run] THEN "end" ELSE "drain")
  /\ UNCHANGED <<queueVars, msg, quiet>>

Drain ==
  /\ AtMain("drain")
  /\ Goto(Main, IF is_exited[run] \/ messages = <<>> THEN "check" ELSE "dispatch")
  /\ UNCHANGED <<queueVars, msg, quiet>>

\* A message whose handler is gone is dropped.
Dispatch_Unchecked ==  \* (fault) it is dispatched all the same
  /\ AtMain("dispatch")
  /\ \E m \in Messages : PopMessage(m) /\ msg' = m
  /\ Goto(Main, "handle")
  /\ UNCHANGED quiet
Dispatch ==
  /\ AtMain("dispatch")
  /\ \E m \in Messages :
       /\ PopMessage(m)
       /\ IF m.id \in handlers THEN msg' = m /\ Goto(Main, "handle")
                               ELSE Goto(Main, "drain") /\ UNCHANGED msg
  /\ UNCHANGED quiet

\* ExitMessage: the delegate's OnExit; Application::Exit has nothing left to do.
HandleExit ==
  /\ AtMain("handle") /\ msg.kind = "exit"
  /\ is_exited' = [is_exited EXCEPT ![msg.id] = TRUE]
  /\ msg' = None
  /\ Goto(Main, "drain")
  /\ UNCHANGED <<queueVars, locks, app, idle_enabled, pending, run, updates, answer,
                 batch, target, bounds>>

Check ==
  /\ AtMain("check")
  /\ IF ~idle_enabled[run] THEN Goto(Main, "test") /\ UNCHANGED batch
     ELSE IF is_exit_detected THEN Goto(Main, "loop") /\ UNCHANGED batch
     ELSE Goto(Main, "count") /\ batch' = [queue |-> "main", left |-> 0]
  /\ UNCHANGED <<queueVars, locks, app, delegate, pending, run, updates, answer, msg,
                 target, bounds>>

Test ==
  /\ AtMain("test")
  /\ Goto(Main, IF messages = <<>> /\ ~is_exited[run] THEN "wait" ELSE "loop")
  /\ UNCHANGED <<queueVars, msg, quiet>>

WaitMessage ==
  /\ AtMain("wait")
  /\ \/ WaitSleep(Main) /\ UNCHANGED pc
     \/ WaitReturn(Main) /\ Goto(Main, "loop")
  /\ UNCHANGED <<msg, quiet>>

WakeForNothing == SpuriousWakeup(Main) /\ UNCHANGED <<msg, pc, quiet>>

-----------------------------------------------------------------------------
(* OnIdle: ProcessActions for both queues, then UpdateIdleState *)

Count ==
  /\ AtMain("count") /\ qlock = None
  /\ batch' = [batch EXCEPT !.left = pending[batch.queue]]
  /\ Goto(Main, "pop")
  /\ UNCHANGED <<queueVars, locks, app, delegate, pending, run, updates, answer, msg,
                 target, bounds>>

Pop ==
  /\ AtMain("pop") /\ batch.left > 0 /\ qlock = None
  /\ batch' = [batch EXCEPT !.left = @ - 1]
  /\ IF pending[batch.queue] > 0
       THEN /\ pending' = [pending EXCEPT ![batch.queue] = @ - 1]
            /\ Goto(Main, "perform")
       ELSE UNCHANGED <<pending, pc>>
  /\ UNCHANGED <<queueVars, locks, app, delegate, run, updates, answer, msg, target,
                 bounds>>

EndBatch ==
  /\ AtMain("pop") /\ batch.left = 0
  /\ IF batch.queue = "main"
       THEN /\ batch' = [batch EXCEPT !.queue = "current"]
            /\ Goto(Main, "count") /\ UNCHANGED updates
       ELSE /\ updates' = 1
            /\ Goto(Main, "ask_main") /\ UNCHANGED batch
  /\ UNCHANGED <<queueVars, locks, app, delegate, pending, run, answer, msg, target,
                 bounds>>

-----------------------------------------------------------------------------
(* What a handler, of a message or of an action, may do on the main thread *)

HandlerNothing ==
  UNCHANGED <<queueVars, app, idle_enabled, pending, bounds>>

HandlerPost ==
  /\ posts < MaxPosts
  /\ \E w \in Windows : PushMessage(UserOf(w))
  /\ posts' = posts + 1
  /\ UNCHANGED <<app, idle_enabled, pending, pushes>>

\* PushAction and OnPushAction, in one step: nobody else runs inside qlock.
HandlerPush ==
  /\ pushes < MaxPushes /\ qlock = None
  /\ \E q \in Queues : pending' = [pending EXCEPT ![q] = @ + 1]
  /\ pushes' = pushes + 1
  /\ idle_enabled' = [idle_enabled EXCEPT ![run] = TRUE]
  /\ PushEmptyMessage
  /\ UNCHANGED <<app, posts>>

HandlerExit ==
  /\ ~is_exit_detected /\ applock = None
  /\ is_exit_detected' = TRUE
  /\ PushMessage(ExitOf(run))
  /\ UNCHANGED <<current_delegate, idle_enabled, pending, bounds>>

\* A window is destroyed.
HandlerDestroy ==
  /\ \E w \in Windows \cap handlers : UnregisterHandler(w)
  /\ UNCHANGED <<app, idle_enabled, pending, bounds>>

HandlerBody ==
  /\ HandlerNothing \/ HandlerPost \/ HandlerPush \/ HandlerExit \/ HandlerDestroy
  /\ UNCHANGED <<locks, is_exited, run, updates, answer, batch, target>>

\* A message handler that throws ends the loop; an action's is logged.
HandleUser ==
  /\ AtMain("handle") /\ msg.kind = "user"
  /\ HandlerBody
  /\ msg' = None
  /\ Goto(Main, "drain") \/ Goto(Main, "end")

PerformAction ==
  /\ AtMain("perform")
  /\ HandlerBody
  /\ Goto(Main, "pop")
  /\ UNCHANGED msg

-----------------------------------------------------------------------------
(* The other threads *)

Post(t) ==
  /\ pc[t] = "idle"
  /\ posts < MaxPosts
  /\ \E w \in Windows : PushMessage(UserOf(w))
  /\ posts' = posts + 1
  /\ UNCHANGED <<locks, app, delegate, pending, pc, main, target, pushes>>

\* Application::Exit, under applock.
Exit(t) ==
  /\ pc[t] = "idle" /\ applock = None
  /\ ~is_exit_detected
  /\ applock' = t
  /\ is_exit_detected' = TRUE
  /\ Goto(t, "exit")
  /\ UNCHANGED <<queueVars, qlock, current_delegate, delegate, pending, main, target,
                 bounds>>

ExitDelegate(t) ==
  /\ pc[t] = "exit"
  /\ applock' = None
  /\ IF current_delegate # None THEN PushMessage(ExitOf(current_delegate))
                                ELSE UNCHANGED queueVars
  /\ Goto(t, "idle")
  /\ UNCHANGED <<qlock, app, delegate, pending, main, target, bounds>>

Push(t, q) ==
  /\ pc[t] = "idle" /\ qlock = None
  /\ pushes < MaxPushes
  /\ qlock' = t
  /\ pending' = [pending EXCEPT ![q] = @ + 1]
  /\ pushes' = pushes + 1
  /\ Goto(t, "pushed")
  /\ UNCHANGED <<queueVars, applock, app, delegate, main, target, posts>>

\* OnPushAction: UpdateIdleState reads current_delegate and calls it; what
\* IsIdleEnabled answers under qlock, after the push, is TRUE.
OnPushAction_Untested(t) ==  \* (fault) also when there is no delegate
  /\ pc[t] = "pushed"
  /\ target' = [target EXCEPT ![t] = current_delegate]
  /\ Goto(t, "set")
  /\ UNCHANGED <<queueVars, locks, app, delegate, pending, main, bounds>>
OnPushAction(t) ==
  /\ pc[t] = "pushed"
  /\ IF current_delegate = None
       THEN Goto(t, "idle") /\ qlock' = None /\ UNCHANGED target
       ELSE /\ target' = [target EXCEPT ![t] = current_delegate]
            /\ Goto(t, "set") /\ UNCHANGED qlock
  /\ UNCHANGED <<queueVars, applock, app, delegate, pending, main, bounds>>

ThreadSetIdle(t) ==
  /\ pc[t] = "set"
  /\ idle_enabled' = [idle_enabled EXCEPT ![target[t]] = TRUE]
  /\ Goto(t, "set_push")
  /\ UNCHANGED <<queueVars, locks, app, is_exited, pending, main, target, bounds>>

ThreadSetIdlePush(t) ==
  /\ pc[t] = "set_push"
  /\ PushEmptyMessage
  /\ qlock' = None
  /\ target' = [target EXCEPT ![t] = None]
  /\ Goto(t, "idle")
  /\ UNCHANGED <<applock, app, delegate, pending, main, bounds>>

-----------------------------------------------------------------------------
UpdateStep == AskMain \/ AskCurrent \/ SetIdleState \/ SetIdlePush
RunStep    == Loop \/ Drain \/ Dispatch \/ HandleExit \/ HandleUser \/ Check \/ Test
              \/ WaitMessage
IdleStep   == Count \/ Pop \/ EndBatch \/ PerformAction
MainStep   == BeginDelegate \/ UpdateStep \/ RunStep \/ IdleStep \/ EndDelegate
              \/ DestroyDelegate
ThreadStep(t) == ExitDelegate(t) \/ OnPushAction(t) \/ ThreadSetIdle(t)
                 \/ ThreadSetIdlePush(t)

Next ==
  \/ CreateDelegate
  \/ MainStep
  \/ WakeForNothing
  \/ \E t \in Threads :
       Post(t) \/ Exit(t) \/ (\E q \in Queues : Push(t, q)) \/ ThreadStep(t)

Spec == Init /\ [][Next]_vars

\* Threads inside a function go on; nobody has to call one.
Fairness == WF_vars(MainStep) /\ \A t \in Threads : WF_vars(ThreadStep(t))

FairSpec == Spec /\ Fairness

-----------------------------------------------------------------------------
\* Type invariant: the state of the loop and of the threads that call it; a thread
\* inside UpdateIdleState has a delegate to call.
TypeOK ==
  /\ messages \in Seq(Messages)
  /\ handlers \subseteq Windows \cup Delegates
  /\ was_empty_message_pushed \in BOOLEAN
  /\ asleep \subseteq {Main}
  /\ applock \in Threads \cup {Main, None} /\ qlock \in Threads \cup {None}
  /\ is_exit_detected \in BOOLEAN /\ current_delegate \in Delegates \cup {None}
  /\ idle_enabled \in [Delegates -> BOOLEAN] /\ is_exited \in [Delegates -> BOOLEAN]
  /\ pending \in [Queues -> Nat]
  /\ pc[Main] \in MainPCs /\ \A t \in Threads :
       pc[t] \in ThreadPCs /\ (pc[t] \in {"set", "set_push"} <=> target[t] # None)
  /\ run \in 0..MaxRuns /\ updates \in 0..2 /\ answer \in BOOLEAN
  /\ batch \in [queue : Queues, left : Nat]
  /\ msg \in Messages \cup {None}
  /\ target \in [Threads -> Delegates \cup {None}]
  /\ posts \in 0..MaxPosts /\ pushes \in 0..MaxPushes

\* A message is never dispatched to a handler that was destroyed: not to a
\* window, and not to the delegate of an earlier call of Run whose exit message
\* was left in the queue.
HandlerAlive == AtMain("handle") => msg.id \in handlers

\* Application::Exit is never lost, whichever thread calls it and whether a loop
\* runs or not: while a delegate runs, its exit message is on the way or has
\* ended its loop.
ExitNotLost ==
  is_exit_detected /\ applock = None /\ current_delegate # None =>
    \/ ExitOf(current_delegate) \in Range(messages)
    \/ msg = ExitOf(current_delegate)
    \/ is_exited[current_delegate]
    \/ AtMain("end")

\* Application::Exit ends the loop, asleep or busy, in the end.
ExitEndsLoop == is_exit_detected /\ ~AtMain("out") ~> AtMain("out")

\* The loop does not spin: idle_enabled is cleared when the last action is done
\* and the main thread goes to sleep again and again, or leaves the loop.
GoesToSleep == []<>(AtMain("out") \/ Main \in asleep)

\* An action pushed for the main thread is performed while the loop runs.
ActionsServed ==
  (pending["main"] > 0 /\ ~AtMain("out")) ~> (pending["main"] = 0 \/ AtMain("out"))
=============================================================================
