----------------------- MODULE ApplicationLoopProofs -----------------------
(***************************************************************************)
(* Safety of the main loop for any number of threads, windows, runs and    *)
(* messages: types, NoSleepOnMessages, HandlerAlive and ExitNotLost.       *)
(*                                                                         *)
(* NoSleepOnMessages is inductive with the types.  HandlerAlive needs that *)
(* the delegate of a running loop is registered, and ExitNotLost, made     *)
(* inductive by ExitSent, that the delegate Exit finds is the one whose    *)
(* loop runs: both are in Loops.                                           *)
(***************************************************************************)
EXTENDS ApplicationLoop, TLAPS

Types ==
  /\ TypeOK
  /\ pc \in [Threads \cup {Main} -> MainPCs \cup ThreadPCs]

\* The main thread and the delegate of its loop.
Loops ==
  /\ ~AtMain("out") => run \in handlers \cap Delegates
  /\ pc[Main] \in {"ask_main", "ask_current", "set", "set_push"} => updates > 0
  /\ AtMain("handle") => msg \in Messages
  /\ current_delegate = IF pc[Main] \in {"out", "begin", "destroy"} THEN None ELSE run

\* ExitNotLost, also while the main thread holds the lock to begin its loop.
ExitSent ==
  is_exit_detected /\ applock \notin Threads /\ current_delegate # None =>
    \/ ExitOf(current_delegate) \in Range(messages)
    \/ AtMain("handle") /\ msg = ExitOf(current_delegate)
    \/ is_exited[current_delegate]
    \/ AtMain("end")

IInv == Types /\ Loops /\ NoSleepOnMessages /\ HandlerAlive /\ ExitSent

-----------------------------------------------------------------------------
(* The operations of the queue *)

\* The part of Types about the queue.
QueueOK ==
  /\ messages \in Seq(Messages)
  /\ handlers \subseteq Windows \cup Delegates
  /\ was_empty_message_pushed \in BOOLEAN
  /\ asleep \subseteq {Main}
  /\ NoSleepOnMessages

\* What no operation but PopMessage and the end of a handler does.
Grows == QueueOK' /\ Range(messages) \subseteq Range(messages)' /\ handlers' = handlers

LEMMA PushMessageGrows ==
  ASSUME QueueOK, NEW m \in Messages, PushMessage(m)
  PROVE  Grows /\ m \in Range(messages)'
<1>1. /\ messages' = Append(messages, m) /\ messages' \in Seq(Messages)
      /\ DOMAIN messages = 1..Len(messages) /\ DOMAIN messages' = 1..Len(messages) + 1
      /\ \A i \in DOMAIN messages : messages'[i] = messages[i]
      /\ messages'[Len(messages) + 1] = m
      /\ Len(messages) \in Nat
  BY DEF PushMessage, QueueOK
<1>2. Range(messages) \subseteq Range(messages)' /\ m \in Range(messages)'
  BY <1>1 DEF Range
<1>3. asleep' = {}
  BY DEF PushMessage, QueueOK, NoSleepOnMessages, CanReturn
<1> QED BY <1>1, <1>2, <1>3 DEF PushMessage, Grows, QueueOK, NoSleepOnMessages

LEMMA PushEmptyGrows ==
  ASSUME QueueOK, PushEmptyMessage PROVE Grows
BY DEF PushEmptyMessage, QueueOK, NoSleepOnMessages, CanReturn, Grows, queueVars

LEMMA SameGrows ==
  ASSUME QueueOK, UNCHANGED queueVars PROVE Grows
BY DEF QueueOK, NoSleepOnMessages, CanReturn, Grows, queueVars

\* The message popped is the only one that goes.
LEMMA PopMessagePops ==
  ASSUME QueueOK, NEW m \in Messages, PopMessage(m)
  PROVE  QueueOK' /\ handlers' = handlers /\ Range(messages) \subseteq Range(messages)' \cup {m}
<1>1. /\ messages' = Tail(messages) /\ messages' \in Seq(Messages)
      /\ DOMAIN messages = 1..Len(messages) /\ DOMAIN messages' = 1..Len(messages) - 1
      /\ \A i \in DOMAIN messages' : messages'[i] = messages[i + 1]
      /\ m = messages[1]
      /\ Len(messages) \in Nat
  BY DEF PopMessage, QueueOK
<1>2. ASSUME NEW i \in DOMAIN messages PROVE messages[i] \in Range(messages)' \cup {m}
  <2>1. CASE i = 1
    BY <1>1, <2>1
  <2>2. CASE i # 1
    <3>1. i - 1 \in DOMAIN messages' /\ messages'[i - 1] = messages[i]
      BY <1>1, <2>2
    <3> QED BY <3>1 DEF Range
  <2> QED BY <2>1, <2>2
<1>3. asleep' = {}
  BY DEF PopMessage, QueueOK, NoSleepOnMessages, CanReturn
<1> QED BY <1>1, <1>2, <1>3 DEF PopMessage, QueueOK, NoSleepOnMessages, Range

-----------------------------------------------------------------------------
LEMMA InitInv == Init => IInv
<1> SUFFICES ASSUME Init PROVE IInv
  OBVIOUS
<1> USE LoopAssumption
<1>1. Types
  <2>1. pc \in [Threads \cup {Main} -> MainPCs \cup ThreadPCs]
    BY DEF Init, MainPCs, ThreadPCs
  <2>2. pc[Main] \in MainPCs /\ \A t \in Threads :
          pc[t] \in ThreadPCs /\ (pc[t] \in {"set", "set_push"} <=> target[t] # None)
    BY DEF Init, MainPCs, ThreadPCs
  <2>3. batch \in [queue : Queues, left : Nat] /\ messages \in Seq(Messages)
    BY DEF Init, QueueInit, Queues
  <2>4. run \in 0..MaxRuns /\ updates \in 0..2 /\ posts \in 0..MaxPosts
        /\ pushes \in 0..MaxPushes
    BY DEF Init
  <2>5. idle_enabled \in [Delegates -> BOOLEAN] /\ is_exited \in [Delegates -> BOOLEAN]
        /\ pending \in [Queues -> Nat] /\ target \in [Threads -> Delegates \cup {None}]
    BY DEF Init
  <2> QED BY <2>1, <2>2, <2>3, <2>4, <2>5 DEF Init, QueueInit, Types, TypeOK
<1>2. Loops
  BY DEF Init, Loops, AtMain
<1>3. NoSleepOnMessages /\ HandlerAlive /\ ExitSent
  BY DEF Init, QueueInit, NoSleepOnMessages, HandlerAlive, ExitSent, AtMain
<1> QED BY <1>1, <1>2, <1>3 DEF IInv

\* What is used of the invariant in every step.
LEMMA Facts ==
  ASSUME IInv
  PROVE  /\ QueueOK /\ Types /\ Loops /\ HandlerAlive /\ ExitSent
         /\ Main \notin Threads /\ None \notin Threads
         /\ None \notin Delegates /\ Main # None
         /\ \A d \in Delegates : ExitOf(d) \in Messages /\ ExitOf(d).kind = "exit"
                                 /\ ExitOf(d).id = d
         /\ \A w \in Windows : UserOf(w) \in Messages
BY LoopAssumption DEF IInv, Types, TypeOK, QueueOK, Delegates, Messages, ExitOf, UserOf

-----------------------------------------------------------------------------
(* What a step does to the main thread, to the queue and to the exit, *)
(* without its types.                                                  *)

\* An exit on its way stays on its way.
ExitKept ==
  /\ UNCHANGED <<is_exit_detected, current_delegate, is_exited>>
  /\ applock' \notin Threads => applock \notin Threads

\* The main thread goes on inside its loop, anywhere but into a message handler.
LEMMA MainMoves ==
  ASSUME IInv, Types', Grows, ExitKept, UNCHANGED <<run, msg>>,
         pc[Main] \notin {"out", "begin", "destroy", "handle", "end"},
         pc'[Main] \notin {"out", "begin", "destroy", "handle"},
         pc'[Main] \in {"ask_main", "ask_current", "set", "set_push"} => updates' > 0
  PROVE  IInv'
<1>1. Loops'
  BY Facts DEF Loops, Grows, ExitKept, AtMain
<1>2. HandlerAlive'
  BY DEF HandlerAlive, AtMain
<1>3. ExitSent'
  BY Facts DEF ExitSent, Grows, ExitKept, AtMain
<1> QED BY <1>1, <1>2, <1>3 DEF IInv, Grows, QueueOK

\* Another thread makes a step, and no call of Exit begins or ends.
LEMMA MainStays ==
  ASSUME IInv, Types', Grows, ExitKept, UNCHANGED main, pc'[Main] = pc[Main]
  PROVE  IInv'
<1>1. Loops'
  BY Facts DEF Loops, Grows, ExitKept, AtMain, main
<1>2. HandlerAlive'
  BY Facts DEF HandlerAlive, AtMain, Grows, main
<1>3. ExitSent'
  BY Facts DEF ExitSent, Grows, ExitKept, AtMain, main
<1> QED BY <1>1, <1>2, <1>3 DEF IInv, Grows, QueueOK

-----------------------------------------------------------------------------
(* The main thread *)

\* UpdateIdleState: SetIdleState is called once or twice.
LEMMA UpdateInv == ASSUME IInv, UpdateStep PROVE IInv'
<1> USE Facts
<1>1. CASE AskMain
  <2>1. Types'
    BY <1>1 DEF AskMain, Goto, Types, TypeOK, MainPCs, queueVars, locks, app, delegate, bounds
  <2>2. Grows /\ ExitKept
    BY <1>1, SameGrows DEF AskMain, ExitKept, locks, app, delegate
  <2> QED BY <1>1, <2>1, <2>2, MainMoves DEF AskMain, Goto, AtMain, Types, TypeOK, Loops
<1>2. CASE AskCurrent
  <2>1. Types'
    BY <1>2 DEF AskCurrent, Goto, Types, TypeOK, MainPCs, queueVars, locks, app, delegate, bounds
  <2>2. Grows /\ ExitKept
    BY <1>2, SameGrows DEF AskCurrent, ExitKept, locks, app, delegate
  <2> QED BY <1>2, <2>1, <2>2, MainMoves DEF AskCurrent, Goto, AtMain, Types, TypeOK, Loops
<1>3. ASSUME Updated, pc[Main] \in {"set", "set_push"}
      PROVE  /\ pc' \in [Threads \cup {Main} -> MainPCs \cup ThreadPCs]
             /\ pc'[Main] \in {"ask_main", "loop"}
             /\ pc'[Main] = "ask_main" => updates' > 0
             /\ \A t \in Threads : pc'[t] = pc[t]
             /\ updates' \in 0..2
             /\ applock' \in {None, applock}
             /\ applock' \notin Threads => applock \notin Threads
  BY <1>3 DEF Updated, Goto, Types, TypeOK, MainPCs, Loops
<1>4. CASE SetIdleState
  <2>1. pc[Main] = "set"
    BY <1>4 DEF SetIdleState, AtMain
  <2>2. idle_enabled' \in [Delegates -> BOOLEAN]
    BY <1>4 DEF SetIdleState, Types, TypeOK
  <2>3. /\ pc' \in [Threads \cup {Main} -> MainPCs \cup ThreadPCs]
        /\ pc'[Main] \in {"ask_main", "loop", "set_push"}
        /\ pc'[Main] \in {"ask_main", "set_push"} => updates' > 0
        /\ \A t \in Threads : pc'[t] = pc[t]
        /\ updates' \in 0..2
        /\ applock' \in {None, applock}
        /\ applock' \notin Threads => applock \notin Threads
    BY <1>3, <1>4, <2>1 DEF SetIdleState, Goto, Types, TypeOK, MainPCs, Loops
  <2>4. Types'
    BY <1>4, <2>2, <2>3 DEF SetIdleState, Types, TypeOK, MainPCs, queueVars, app, bounds
  <2>5. Grows /\ ExitKept
    BY <1>4, <2>3, SameGrows DEF SetIdleState, ExitKept, app
  <2> QED BY <1>4, <2>1, <2>3, <2>4, <2>5, MainMoves DEF SetIdleState
<1>5. CASE SetIdlePush
  <2>1. pc[Main] = "set_push" /\ Updated
    BY <1>5 DEF SetIdlePush, AtMain
  <2>2. Grows /\ ExitKept
    BY <1>3, <1>5, <2>1, PushEmptyGrows DEF SetIdlePush, ExitKept, app, delegate
  <2>3. Types'
    BY <1>3, <1>5, <2>1, <2>2
    DEF SetIdlePush, Types, TypeOK, MainPCs, app, delegate, bounds, Grows, QueueOK
  <2> QED BY <1>3, <1>5, <2>1, <2>2, <2>3, MainMoves DEF SetIdlePush
<1> QED BY <1>1, <1>2, <1>4, <1>5 DEF UpdateStep

\* The loop around the messages, but for their handlers.
LEMMA RunInv ==
  ASSUME IInv, Loop \/ Drain \/ Check \/ Test \/ WaitMessage
  PROVE  IInv'
<1> USE Facts
<1>1. CASE Loop \/ Drain \/ Test
  <2>1. /\ pc[Main] \in {"loop", "drain", "test"}
        /\ \E l \in {"end", "drain", "check", "dispatch", "wait", "loop"} : Goto(Main, l)
        /\ UNCHANGED <<queueVars, msg, quiet>>
    BY <1>1 DEF Loop, Drain, Test, AtMain
  <2>2. /\ pc' \in [Threads \cup {Main} -> MainPCs \cup ThreadPCs]
        /\ pc'[Main] \in {"end", "drain", "check", "dispatch", "wait", "loop"}
        /\ \A t \in Threads : pc'[t] = pc[t]
    BY <2>1 DEF Goto, Types, MainPCs
  <2>3. Types'
    BY <2>1, <2>2 DEF Types, TypeOK, MainPCs, quiet, queueVars, locks, app, delegate, bounds
  <2>4. Grows /\ ExitKept
    BY <2>1, SameGrows DEF ExitKept, quiet, locks, app, delegate
  <2> QED BY <2>1, <2>2, <2>3, <2>4, MainMoves DEF quiet
<1>2. CASE Check
  <2>1. /\ pc' \in [Threads \cup {Main} -> MainPCs \cup ThreadPCs]
        /\ pc'[Main] \in {"test", "loop", "count"}
        /\ \A t \in Threads : pc'[t] = pc[t]
        /\ batch' \in [queue : Queues, left : Nat]
    BY <1>2 DEF Check, Goto, Types, TypeOK, MainPCs, Queues
  <2>2. Types'
    BY <1>2, <2>1 DEF Check, Types, TypeOK, MainPCs, queueVars, locks, app, delegate, bounds
  <2>3. Grows /\ ExitKept
    BY <1>2, SameGrows DEF Check, ExitKept, locks, app, delegate
  <2> QED BY <1>2, <2>1, <2>2, <2>3, MainMoves DEF Check, AtMain
<1>3. CASE WaitMessage
  <2>1. /\ pc[Main] = "wait" /\ UNCHANGED <<msg, quiet>>
        /\ pc' \in [Threads \cup {Main} -> MainPCs \cup ThreadPCs]
        /\ pc'[Main] \in {"wait", "loop"}
        /\ \A t \in Threads : pc'[t] = pc[t]
    BY <1>3 DEF WaitMessage, Goto, AtMain, Types, MainPCs
  <2>2. Grows
    <3>1. CASE WaitSleep(Main)
      BY <3>1 DEF WaitSleep, Grows, QueueOK, NoSleepOnMessages, CanReturn
    <3>2. CASE WaitReturn(Main)
      <4>1. asleep = {}
        BY <3>2 DEF WaitReturn, QueueOK, NoSleepOnMessages
      <4> QED BY <3>2, <4>1 DEF WaitReturn, Grows, QueueOK, NoSleepOnMessages
    <3> QED BY <1>3, <3>1, <3>2 DEF WaitMessage
  <2>3. Types'
    BY <2>1, <2>2
    DEF Types, TypeOK, MainPCs, quiet, locks, app, delegate, bounds, Grows, QueueOK
  <2>4. ExitKept
    BY <2>1 DEF ExitKept, quiet, locks, app, delegate
  <2> QED BY <2>1, <2>2, <2>3, <2>4, MainMoves DEF quiet
<1> QED BY <1>1, <1>2, <1>3

\* The message popped goes to its handler if that is registered, and the delegate of
\* the loop is.
LEMMA DispatchInv == ASSUME IInv, Dispatch PROVE IInv'
<1> USE Facts
<1>1. pc[Main] = "dispatch" /\ UNCHANGED quiet
  BY DEF Dispatch, AtMain
<1>2. PICK m \in Messages :
        /\ PopMessage(m)
        /\ IF m.id \in handlers THEN msg' = m /\ Goto(Main, "handle")
                                ELSE Goto(Main, "drain") /\ UNCHANGED msg
  BY DEF Dispatch
<1>3. QueueOK' /\ handlers' = handlers /\ Range(messages) \subseteq Range(messages)' \cup {m}
  BY <1>2, PopMessagePops
<1>4. /\ pc' \in [Threads \cup {Main} -> MainPCs \cup ThreadPCs]
      /\ IF m.id \in handlers THEN msg' = m /\ pc'[Main] = "handle"
                              ELSE msg' = msg /\ pc'[Main] = "drain"
      /\ \A t \in Threads : pc'[t] = pc[t]
  BY <1>2 DEF Goto, Types, MainPCs
<1>5. Types'
  BY <1>1, <1>3, <1>4
  DEF Types, TypeOK, MainPCs, quiet, locks, app, delegate, bounds, QueueOK
<1>6. Loops' /\ HandlerAlive'
  BY <1>1, <1>3, <1>4 DEF Loops, HandlerAlive, AtMain, quiet, app
<1>7. ExitSent'
  <2> SUFFICES ASSUME is_exit_detected, applock \notin Threads, current_delegate # None
               PROVE  \/ ExitOf(current_delegate) \in Range(messages)'
                      \/ pc'[Main] = "handle" /\ msg' = ExitOf(current_delegate)
                      \/ is_exited[current_delegate]
    BY <1>1 DEF ExitSent, AtMain, quiet, locks, app, delegate
  <2>1. current_delegate \in Delegates \cap handlers
    BY <1>1 DEF Loops, AtMain
  <2>2. CASE m = ExitOf(current_delegate)
    BY <1>4, <2>1, <2>2
  <2>3. CASE m # ExitOf(current_delegate)
    BY <1>1, <1>3, <2>3 DEF ExitSent, AtMain
  <2> QED BY <2>2, <2>3
<1> QED BY <1>3, <1>5, <1>6, <1>7 DEF IInv, QueueOK

\* ExitMessage ends the loop of the delegate it was sent to.
LEMMA HandleExitInv == ASSUME IInv, HandleExit PROVE IInv'
<1> USE Facts
<1>1. /\ pc[Main] = "handle" /\ pc' \in [Threads \cup {Main} -> MainPCs \cup ThreadPCs]
      /\ pc'[Main] = "drain" /\ \A t \in Threads : pc'[t] = pc[t]
  BY DEF HandleExit, AtMain, Goto, Types, MainPCs
<1>2. is_exited' \in [Delegates -> BOOLEAN] /\ \A d \in Delegates : is_exited[d] => is_exited'[d]
  BY DEF HandleExit, Types, TypeOK
<1>3. Grows
  BY SameGrows DEF HandleExit
<1>4. Types'
  BY <1>1, <1>2 DEF HandleExit, Types, TypeOK, MainPCs, queueVars, locks, app, bounds
<1>5. Loops' /\ HandlerAlive'
  BY <1>1, <1>3 DEF Loops, HandlerAlive, AtMain, HandleExit, app, Grows
<1>6. ExitSent'
  <2> SUFFICES ASSUME is_exit_detected, applock \notin Threads, current_delegate # None
               PROVE  \/ ExitOf(current_delegate) \in Range(messages)'
                      \/ is_exited'[current_delegate]
    BY DEF ExitSent, HandleExit, locks, app
  <2>1. current_delegate \in Delegates
    BY DEF Types, TypeOK
  <2>2. CASE msg = ExitOf(current_delegate)
    BY <2>1, <2>2 DEF HandleExit, Types, TypeOK
  <2>3. CASE msg # ExitOf(current_delegate)
    BY <1>1, <1>2, <1>3, <2>1, <2>3 DEF ExitSent, Grows, AtMain
  <2> QED BY <2>2, <2>3
<1> QED BY <1>3, <1>4, <1>5, <1>6 DEF IInv, Grows, QueueOK

\* OnIdle, but for the handlers of actions.
LEMMA IdleInv == ASSUME IInv, Count \/ Pop \/ EndBatch PROVE IInv'
<1> USE Facts
<1>1. /\ pc[Main] \in {"count", "pop"}
      /\ pc' \in [Threads \cup {Main} -> MainPCs \cup ThreadPCs]
      /\ pc'[Main] \in {"count", "pop", "perform", "ask_main"}
      /\ pc'[Main] = "ask_main" => updates' > 0
      /\ \A t \in Threads : pc'[t] = pc[t]
  BY DEF Count, Pop, EndBatch, Goto, AtMain, Types, TypeOK, MainPCs
<1>2. batch' \in [queue : Queues, left : Nat] /\ pending' \in [Queues -> Nat]
  <2>1. batch.queue \in Queues /\ pending[batch.queue] \in Nat /\ batch.left \in Nat
    BY DEF Types, TypeOK
  <2>2. CASE Count
    BY <2>1, <2>2 DEF Count, Types, TypeOK
  <2>3. CASE Pop
    <3>1. batch.left - 1 \in Nat /\ (pending[batch.queue] > 0 => pending[batch.queue] - 1 \in Nat)
      BY <2>1, <2>3 DEF Pop
    <3> QED BY <2>1, <2>3, <3>1 DEF Pop, Types, TypeOK
  <2>4. CASE EndBatch
    BY <2>1, <2>4 DEF EndBatch, Types, TypeOK, Queues
  <2> QED BY <2>2, <2>3, <2>4
<1>3. /\ updates' \in 0..2
      /\ UNCHANGED <<queueVars, locks, app, delegate, run, answer, msg, target, bounds>>
  BY DEF Count, Pop, EndBatch, Types, TypeOK
<1>4. Types'
  BY <1>1, <1>2, <1>3 DEF Types, TypeOK, MainPCs, queueVars, locks, app, delegate, bounds
<1>5. Grows /\ ExitKept
  BY <1>3, SameGrows DEF ExitKept, locks, app, delegate
<1> QED BY <1>1, <1>3, <1>4, <1>5, MainMoves

\* What a handler does: a window may go, but no delegate; an exit it asks for is
\* sent to the delegate of the loop.
LEMMA HandlerBodyOK ==
  ASSUME IInv, HandlerBody, pc[Main] \in {"handle", "perform"}
  PROVE  /\ QueueOK' /\ Range(messages) \subseteq Range(messages)' /\ run \in handlers'
         /\ is_exit_detected' \in BOOLEAN
         /\ is_exit_detected' /\ ~is_exit_detected => ExitOf(run) \in Range(messages)'
         /\ idle_enabled' \in [Delegates -> BOOLEAN] /\ pending' \in [Queues -> Nat]
         /\ posts' \in 0..MaxPosts /\ pushes' \in 0..MaxPushes
         /\ UNCHANGED <<current_delegate, locks, is_exited, run, updates, answer, batch, target>>
<1> USE Facts
<1>1. run \in handlers \cap Delegates
  BY DEF Loops, AtMain
<1>2. UNCHANGED <<locks, is_exited, run, updates, answer, batch, target>>
  BY DEF HandlerBody
<1>3. CASE HandlerNothing
  BY <1>1, <1>2, <1>3, SameGrows DEF HandlerNothing, app, bounds, Grows, Types, TypeOK
<1>4. CASE HandlerPost
  <2>1. Grows
    BY <1>4, PushMessageGrows DEF HandlerPost
  <2>2. posts' \in 0..MaxPosts
    BY <1>4, LoopAssumption DEF HandlerPost, Types, TypeOK
  <2> QED BY <1>1, <1>2, <1>4, <2>1, <2>2 DEF HandlerPost, app, Grows, Types, TypeOK
<1>5. CASE HandlerPush
  <2>1. Grows
    BY <1>5, PushEmptyGrows DEF HandlerPush
  <2>2. pushes' \in 0..MaxPushes
    BY <1>5, LoopAssumption DEF HandlerPush, Types, TypeOK
  <2>3. pending' \in [Queues -> Nat]
    <3>1. PICK q \in Queues : pending' = [pending EXCEPT ![q] = @ + 1]
      BY <1>5 DEF HandlerPush
    <3>2. pending[q] + 1 \in Nat
      BY DEF Types, TypeOK
    <3> QED BY <3>1, <3>2 DEF Types, TypeOK
  <2>4. idle_enabled' \in [Delegates -> BOOLEAN]
    BY <1>5 DEF HandlerPush, Types, TypeOK
  <2> QED BY <1>1, <1>2, <1>5, <2>1, <2>2, <2>3, <2>4 DEF HandlerPush, app, Grows, Types, TypeOK
<1>6. CASE HandlerExit
  <2>1. Grows /\ ExitOf(run) \in Range(messages)'
    BY <1>1, <1>6, PushMessageGrows DEF HandlerExit
  <2> QED BY <1>1, <1>2, <1>6, <2>1 DEF HandlerExit, bounds, Grows, Types, TypeOK
<1>7. CASE HandlerDestroy
  <2>1. PICK w \in Windows : UnregisterHandler(w)
    BY <1>7 DEF HandlerDestroy
  <2>2. run \in handlers'
    BY <1>1, <2>1, LoopAssumption DEF UnregisterHandler, Delegates
  <2>3. QueueOK' /\ Range(messages) \subseteq Range(messages)'
    BY <2>1 DEF UnregisterHandler, QueueOK, NoSleepOnMessages, CanReturn
  <2> QED BY <1>2, <1>7, <2>2, <2>3 DEF HandlerDestroy, app, bounds, Types, TypeOK
<1> QED BY <1>3, <1>4, <1>5, <1>6, <1>7 DEF HandlerBody

LEMMA HandlersInv == ASSUME IInv, HandleUser \/ PerformAction PROVE IInv'
<1> USE Facts
<1>1. HandlerBody /\ pc[Main] \in {"handle", "perform"}
  BY DEF HandleUser, PerformAction, AtMain
<1>2. /\ QueueOK' /\ Range(messages) \subseteq Range(messages)' /\ run \in handlers'
      /\ is_exit_detected' \in BOOLEAN
      /\ is_exit_detected' /\ ~is_exit_detected => ExitOf(run) \in Range(messages)'
      /\ idle_enabled' \in [Delegates -> BOOLEAN] /\ pending' \in [Queues -> Nat]
      /\ posts' \in 0..MaxPosts /\ pushes' \in 0..MaxPushes
      /\ UNCHANGED <<current_delegate, locks, is_exited, run, updates, answer, batch, target>>
  BY <1>1, HandlerBodyOK
<1>3. /\ pc' \in [Threads \cup {Main} -> MainPCs \cup ThreadPCs]
      /\ pc'[Main] \in {"drain", "end", "pop"}
      /\ \A t \in Threads : pc'[t] = pc[t]
      /\ msg' \in {msg, None}
      /\ AtMain("handle") => msg.kind = "user"
  BY DEF HandleUser, PerformAction, AtMain, Goto, Types, MainPCs
<1>4. Types'
  BY <1>2, <1>3 DEF Types, TypeOK, MainPCs, locks, QueueOK
<1>5. Loops' /\ HandlerAlive'
  BY <1>1, <1>2, <1>3 DEF Loops, HandlerAlive, AtMain, Types, TypeOK
<1>6. ExitSent'
  <2> SUFFICES ASSUME is_exit_detected', applock \notin Threads, current_delegate # None
               PROVE  \/ ExitOf(current_delegate) \in Range(messages)'
                      \/ is_exited[current_delegate]
    BY <1>2 DEF ExitSent, locks
  <2>1. current_delegate = run /\ run \in Delegates
    BY <1>1 DEF Loops, AtMain
  <2>2. CASE is_exit_detected
    <3>1. ~(AtMain("handle") /\ msg = ExitOf(run)) /\ ~AtMain("end")
      BY <1>1, <1>3, <2>1 DEF AtMain
    <3> QED BY <1>2, <2>1, <2>2, <3>1 DEF ExitSent
  <2> QED BY <1>2, <2>1, <2>2
<1> QED BY <1>2, <1>4, <1>5, <1>6 DEF IInv, QueueOK

LEMMA MainInv == ASSUME IInv, UpdateStep \/ RunStep \/ IdleStep PROVE IInv'
BY UpdateInv, RunInv, DispatchInv, HandleExitInv, HandlersInv, IdleInv DEF RunStep, IdleStep

-----------------------------------------------------------------------------
(* Application::Run *)

LEMMA CreateInv == ASSUME IInv, CreateDelegate PROVE IInv'
<1> USE Facts
<1>1. /\ pc[Main] = "out" /\ pc' \in [Threads \cup {Main} -> MainPCs \cup ThreadPCs]
      /\ pc'[Main] = "begin" /\ \A t \in Threads : pc'[t] = pc[t]
  BY DEF CreateDelegate, AtMain, Goto, Types, MainPCs
<1>2. run' = run + 1 /\ run' \in Delegates
  BY LoopAssumption DEF CreateDelegate, Types, TypeOK, Delegates
<1>3. QueueOK' /\ messages' = messages /\ handlers' = handlers \cup {run'}
  BY <1>2 DEF CreateDelegate, RegisterHandler, QueueOK, NoSleepOnMessages, CanReturn
<1>4. Types'
  BY <1>1, <1>2, <1>3
  DEF CreateDelegate, Types, TypeOK, MainPCs, Delegates, locks, app, delegate, bounds, QueueOK
<1>5. Loops' /\ HandlerAlive' /\ ExitSent'
  BY <1>1, <1>2, <1>3 DEF Loops, HandlerAlive, ExitSent, AtMain, CreateDelegate, app
<1> QED BY <1>3, <1>4, <1>5 DEF IInv, QueueOK

\* An exit asked for earlier is sent to the delegate now.
LEMMA BeginInv == ASSUME IInv, BeginDelegate PROVE IInv'
<1> USE Facts
<1>1. /\ pc[Main] = "begin" /\ pc' \in [Threads \cup {Main} -> MainPCs \cup ThreadPCs]
      /\ pc'[Main] = "ask_main" /\ \A t \in Threads : pc'[t] = pc[t]
      /\ updates' = 2 /\ applock' = Main /\ current_delegate' = run
  BY DEF BeginDelegate, AtMain, Goto, Types, MainPCs
<1>2. run \in Delegates /\ run \in handlers
  BY <1>1 DEF Loops, AtMain
<1>3. Grows /\ (is_exit_detected => ExitOf(run) \in Range(messages)')
  BY <1>2, PushMessageGrows, SameGrows DEF BeginDelegate
<1>4. Types'
  BY <1>1, <1>2, <1>3 DEF BeginDelegate, Types, TypeOK, MainPCs, delegate, bounds, Grows, QueueOK
<1>5. Loops' /\ HandlerAlive'
  BY <1>1, <1>2, <1>3 DEF Loops, HandlerAlive, AtMain, BeginDelegate, Grows
<1>6. ExitSent'
  BY <1>1, <1>3 DEF ExitSent, BeginDelegate
<1> QED BY <1>3, <1>4, <1>5, <1>6 DEF IInv, Grows, QueueOK

LEMMA EndInv == ASSUME IInv, EndDelegate \/ DestroyDelegate PROVE IInv'
<1> USE Facts
<1>1. /\ pc[Main] \in {"end", "destroy"}
      /\ pc' \in [Threads \cup {Main} -> MainPCs \cup ThreadPCs]
      /\ pc'[Main] = IF pc[Main] = "end" THEN "destroy" ELSE "out"
      /\ \A t \in Threads : pc'[t] = pc[t]
  BY DEF EndDelegate, DestroyDelegate, AtMain, Goto, Types, MainPCs
<1>2. current_delegate' = None
  BY <1>1 DEF EndDelegate, DestroyDelegate, AtMain, app, Loops
<1>3. QueueOK' /\ messages' = messages /\ (AtMain("end") => handlers' = handlers)
  <2>1. CASE EndDelegate
    BY <2>1 DEF EndDelegate, queueVars, QueueOK, NoSleepOnMessages, CanReturn
  <2>2. CASE DestroyDelegate
    BY <2>2 DEF DestroyDelegate, UnregisterHandler, AtMain, QueueOK, NoSleepOnMessages, CanReturn
  <2> QED BY <2>1, <2>2
<1>4. UNCHANGED <<locks, is_exit_detected, delegate, pending, main, target, bounds>>
  BY DEF EndDelegate, DestroyDelegate, app
<1>5. Types'
  BY <1>1, <1>2, <1>3, <1>4 DEF Types, TypeOK, MainPCs, locks, delegate, main, bounds, QueueOK
<1>6. Loops' /\ HandlerAlive' /\ ExitSent'
  BY <1>1, <1>2, <1>3, <1>4 DEF Loops, HandlerAlive, ExitSent, AtMain, main
<1> QED BY <1>3, <1>5, <1>6 DEF IInv, QueueOK

-----------------------------------------------------------------------------
(* The other threads, and a wake-up for no reason *)

LEMMA WakeInv == ASSUME IInv, WakeForNothing PROVE IInv'
<1> USE Facts
<1>1. UNCHANGED <<msg, pc, quiet>>
  BY DEF WakeForNothing
<1>2. Grows
  BY DEF WakeForNothing, SpuriousWakeup, Grows, QueueOK, NoSleepOnMessages, CanReturn
<1>3. Types'
  BY <1>1, <1>2 DEF Types, TypeOK, quiet, locks, app, delegate, bounds, Grows, QueueOK
<1> QED BY <1>1, <1>2, <1>3, MainStays DEF ExitKept, quiet, main, locks, app, delegate

\* The place of another thread is none of the main thread's.
LEMMA ThreadGoes ==
  ASSUME Types, NEW t \in Threads, NEW l \in ThreadPCs, Goto(t, l)
  PROVE  /\ pc' \in [Threads \cup {Main} -> MainPCs \cup ThreadPCs]
         /\ pc'[t] = l /\ pc'[Main] = pc[Main]
         /\ \A u \in Threads \ {t} : pc'[u] = pc[u]
BY LoopAssumption DEF Types, Goto

LEMMA PushInv ==
  ASSUME IInv, NEW t \in Threads, Post(t) \/ \E q \in Queues : Push(t, q)
  PROVE  IInv'
<1> USE Facts
<1>1. CASE Post(t)
  <2>1. Grows
    BY <1>1, PushMessageGrows DEF Post
  <2>2. posts' \in 0..MaxPosts
    BY <1>1, LoopAssumption DEF Post, Types, TypeOK
  <2>3. Types'
    BY <1>1, <2>1, <2>2
    DEF Post, Types, TypeOK, locks, app, delegate, main, Grows, QueueOK
  <2> QED BY <1>1, <2>1, <2>3, MainStays DEF Post, ExitKept, locks, app, delegate
<1>2. ASSUME NEW q \in Queues, Push(t, q) PROVE IInv'
  <2>1. /\ pc' \in [Threads \cup {Main} -> MainPCs \cup ThreadPCs]
        /\ pc'[t] = "pushed" /\ pc'[Main] = pc[Main] /\ pc[t] = "idle"
        /\ \A u \in Threads \ {t} : pc'[u] = pc[u]
    BY <1>2, ThreadGoes DEF Push, ThreadPCs
  <2>2. Grows /\ ExitKept
    BY <1>2, SameGrows DEF Push, ExitKept, app, delegate
  <2>3. pushes' \in 0..MaxPushes
    BY <1>2, LoopAssumption DEF Push, Types, TypeOK
  <2>4. pending' \in [Queues -> Nat]
    <3>1. pending[q] + 1 \in Nat
      BY DEF Types, TypeOK
    <3> QED BY <1>2, <3>1 DEF Push, Types, TypeOK
  <2>5. Types'
    BY <1>2, <2>1, <2>2, <2>3, <2>4
    DEF Push, Types, TypeOK, ThreadPCs, app, delegate, main, Grows, QueueOK
  <2> QED BY <1>2, <2>1, <2>2, <2>5, MainStays DEF Push
<1> QED BY <1>1, <1>2

\* Application::Exit: the message is sent before the lock is given back.
LEMMA ExitInv ==
  ASSUME IInv, NEW t \in Threads, Exit(t) \/ ExitDelegate(t)
  PROVE  IInv'
<1> USE Facts
<1>1. UNCHANGED <<qlock, current_delegate, delegate, pending, main, target, bounds>>
  BY DEF Exit, ExitDelegate, app
<1>2. /\ pc' \in [Threads \cup {Main} -> MainPCs \cup ThreadPCs]
      /\ pc[t] \in {"idle", "exit"} /\ pc'[t] \in {"idle", "exit"} /\ pc'[Main] = pc[Main]
      /\ \A u \in Threads \ {t} : pc'[u] = pc[u]
  BY ThreadGoes DEF Exit, ExitDelegate, ThreadPCs
<1>3. /\ Grows
      /\ \/ applock' = t /\ is_exit_detected' = TRUE
         \/ /\ applock' = None /\ is_exit_detected' = is_exit_detected
            /\ current_delegate # None => ExitOf(current_delegate) \in Range(messages)'
  <2>1. CASE Exit(t)
    BY <2>1, SameGrows DEF Exit
  <2>2. CASE ExitDelegate(t)
    <3>1. current_delegate # None => ExitOf(current_delegate) \in Messages
      BY DEF Types, TypeOK
    <3> QED BY <2>2, <3>1, SameGrows, PushMessageGrows DEF ExitDelegate, app
  <2> QED BY <2>1, <2>2
<1>4. Types'
  BY <1>1, <1>2, <1>3
  DEF Types, TypeOK, ThreadPCs, delegate, main, bounds, Grows, QueueOK
<1>5. Loops' /\ HandlerAlive'
  BY <1>1, <1>2, <1>3 DEF Loops, HandlerAlive, AtMain, main, Grows
<1>6. ExitSent'
  BY <1>1, <1>3 DEF ExitSent
<1> QED BY <1>3, <1>4, <1>5, <1>6 DEF IInv, Grows, QueueOK

\* OnPushAction: a thread that goes on to UpdateIdleState has found a delegate.
LEMMA OnPushInv ==
  ASSUME IInv, NEW t \in Threads,
         OnPushAction(t) \/ ThreadSetIdle(t) \/ ThreadSetIdlePush(t)
  PROVE  IInv'
<1> USE Facts
<1>1. UNCHANGED <<applock, app, is_exited, pending, main, bounds>> /\ qlock' \in {qlock, None}
  BY DEF OnPushAction, ThreadSetIdle, ThreadSetIdlePush, locks, delegate
<1>2. /\ pc' \in [Threads \cup {Main} -> MainPCs \cup ThreadPCs]
      /\ pc'[t] \in ThreadPCs /\ pc'[Main] = pc[Main]
      /\ \A u \in Threads \ {t} : pc'[u] = pc[u]
      /\ target' \in [Threads -> Delegates \cup {None}]
      /\ \A u \in Threads \ {t} : target'[u] = target[u]
      /\ pc'[t] \in {"set", "set_push"} <=> target'[t] # None
  <2>1. CASE OnPushAction(t)
    <3>1. CASE current_delegate = None
      BY <2>1, <3>1, ThreadGoes DEF OnPushAction, Types, TypeOK, ThreadPCs
    <3>2. CASE current_delegate # None
      <4>1. pc[t] = "pushed" /\ Goto(t, "set") /\ "set" \in ThreadPCs
        BY <2>1, <3>2 DEF OnPushAction, ThreadPCs
      <4>2. current_delegate \in Delegates /\ target' = [target EXCEPT ![t] = current_delegate]
        BY <2>1, <3>2 DEF OnPushAction, Types, TypeOK
      <4> QED BY <3>2, <4>1, <4>2, ThreadGoes DEF Types, TypeOK
    <3> QED BY <3>1, <3>2
  <2>2. CASE ThreadSetIdle(t)
    BY <2>2, ThreadGoes DEF ThreadSetIdle, Types, TypeOK, ThreadPCs
  <2>3. CASE ThreadSetIdlePush(t)
    BY <2>3, ThreadGoes DEF ThreadSetIdlePush, Types, TypeOK, ThreadPCs
  <2> QED BY <2>1, <2>2, <2>3
<1>3. Grows
  BY SameGrows, PushEmptyGrows DEF OnPushAction, ThreadSetIdle, ThreadSetIdlePush
<1>4. idle_enabled' \in [Delegates -> BOOLEAN]
  BY DEF OnPushAction, ThreadSetIdle, ThreadSetIdlePush, delegate, Types, TypeOK
<1>5. Types'
  BY <1>1, <1>2, <1>3, <1>4 DEF Types, TypeOK, app, main, bounds, Grows, QueueOK
<1> QED BY <1>1, <1>2, <1>3, <1>5, MainStays DEF ExitKept, app

-----------------------------------------------------------------------------
LEMMA NextInv == IInv /\ [Next]_vars => IInv'
<1> SUFFICES ASSUME IInv, [Next]_vars PROVE IInv'
  OBVIOUS
<1>1. CASE CreateDelegate
  BY <1>1, CreateInv
<1>2. CASE MainStep
  BY <1>2, BeginInv, MainInv, EndInv DEF MainStep
<1>3. CASE WakeForNothing
  BY <1>3, WakeInv
<1>4. ASSUME NEW t \in Threads,
             Post(t) \/ Exit(t) \/ (\E q \in Queues : Push(t, q)) \/ ThreadStep(t)
      PROVE  IInv'
  BY <1>4, PushInv, ExitInv, OnPushInv DEF ThreadStep
<1>5. CASE UNCHANGED vars
  <2>1. Grows
    BY <1>5, Facts, SameGrows DEF vars
  <2>2. Types'
    BY <1>5, Facts DEF vars, queueVars, locks, app, delegate, main, bounds, Types, TypeOK
  <2>3. UNCHANGED main /\ ExitKept /\ pc'[Main] = pc[Main]
    BY <1>5 DEF vars, ExitKept, locks, app, delegate
  <2> QED BY <2>1, <2>2, <2>3, MainStays
<1> QED BY <1>1, <1>2, <1>3, <1>4, <1>5 DEF Next

LEMMA SpecInv == Spec => []IInv
BY InitInv, NextInv, PTL DEF Spec

\* The state of the loop and of the threads that call it keeps its types, and a
\* thread inside UpdateIdleState has a delegate to call.
THEOREM TypeCorrect == Spec => []TypeOK
<1>1. IInv => TypeOK
  BY DEF IInv, Types
<1> QED BY <1>1, SpecInv, PTL

\* Nobody sleeps in WaitMessage while there is a message or an empty message: that
\* PushMessage notifies for the first message only is enough.
THEOREM MessageWakes == Spec => []NoSleepOnMessages
<1>1. IInv => NoSleepOnMessages
  BY DEF IInv
<1> QED BY <1>1, SpecInv, PTL

\* A message is only dispatched to a handler that is registered, whatever is left in
\* the queue of windows and delegates that are gone.
THEOREM HandlersLive == Spec => []HandlerAlive
<1>1. IInv => HandlerAlive
  BY DEF IInv
<1> QED BY <1>1, SpecInv, PTL

\* An exit asked for, before the loop or during it and by any thread, is on its way
\* to the delegate of the loop or has arrived.
THEOREM ExitArrives == Spec => []ExitNotLost
<1>1. IInv => ExitNotLost
  BY LoopAssumption DEF IInv, ExitSent, ExitNotLost
<1> QED BY <1>1, SpecInv, PTL
=============================================================================
