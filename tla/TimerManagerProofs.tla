------------------------- MODULE TimerManagerProofs -------------------------
(***************************************************************************)
(* Safety of the timers for any number of timers, addresses and threads:   *)
(* types, KillWaitsForHandler, TicksExact and KillIsFinal.                 *)
(*                                                                         *)
(* KillWaitsForHandler needs who holds the mutex (Holders).  That a timer  *)
(* is never raised more often than it is due needs that a pass meets each  *)
(* timer once (Distinct, InPass).  TicksExact needs that what is in the    *)
(* queue names timers that were created (Births): a new timer, if it has   *)
(* its address for itself, begins without messages.                        *)
(***************************************************************************)
EXTENDS TimerManager, SequenceFacts

Types ==
  /\ TypeOK
  /\ pc \in [{Worker, Main} -> WorkerPCs \cup MainPCs]

\* The vector has no timer twice.
Distinct == \A i, j \in 1..Len(timers) : timers[i] = timers[j] => i = j

\* Where the mutex, the message and the handler in hand are.
Holders ==
  /\ pc[Worker] \in {"look", "raise"} <=> mutex = Worker
  /\ pc[Main] = "handler" <=> mutex = Main
  /\ running # None => pc[Main] = "handler"
  /\ pc[Main] = "dispatch" => msg \in Addresses
  /\ pc[Main] # "dispatch" => msg = None

\* What the pass has before it is still due.
InPass ==
  /\ \A x \in due : raised[x] < MaxRaises[x]
  /\ pc[Worker] = "raise" =>
       \A i \in 1..Len(timers) : i >= iter /\ timers[i] \in raising => timers[i] \in due

\* Timers begin without a history, and messages name timers that were created.
Births ==
  /\ killed \subseteq Created
  /\ new_timers_count <= Cardinality(Created)
  /\ \A x \in Timers \ Created : raised[x] = 0 /\ ticks[x] = 0
  /\ \A i \in DOMAIN messages : \E y \in Created : messages[i].timer = addr[y]
  /\ msg # None => \E y \in Created : msg = addr[y]

IInv == Types /\ Distinct /\ Holders /\ InPass /\ Births /\ TicksExact /\ KillWaitsForHandler

-----------------------------------------------------------------------------
Posts == {MessageOf(a) : a \in Addresses}

LEMMA InitInv == Init => IInv
<1> SUFFICES ASSUME Init PROVE IInv
  OBVIOUS
<1> USE TimerAssumption
<1>1. Created = {} /\ Live = {} /\ Len(timers) = 0 /\ DOMAIN messages = {}
  BY DEF Init, QueueInit, Created, Live, Range
<1>2. Cardinality({}) = 0 /\ Cardinality(Timers) \in Nat
  BY FS_EmptySet, FS_CardinalityType
<1>3. Types
  <2>1. pc \in [{Worker, Main} -> WorkerPCs \cup MainPCs] /\ pc[Worker] \in WorkerPCs
        /\ pc[Main] \in MainPCs
    BY DEF Init, WorkerPCs, MainPCs
  <2>2. messages \in Seq(Posts) /\ timers \in Seq(Timers) /\ Cardinality(Live) = Len(timers)
    BY <1>1, <1>2 DEF Init, QueueInit
  <2>3. /\ addr \in [Timers -> Addresses \cup {None}]
        /\ raised \in [Timers -> Nat] /\ ticks \in [Timers -> Nat]
        /\ \A x \in Timers : raised[x] <= MaxRaises[x]
    BY DEF Init
  <2>4. new_timers_count \in 0..Cardinality(Timers) /\ iter \in 1..Cardinality(Timers) + 1
    BY <1>2 DEF Init
  <2>5. handlers \subseteq {Manager} /\ asleep = {} /\ was_empty_message_pushed = FALSE
    BY DEF Init, QueueInit
  <2> QED BY <1>1, <2>1, <2>2, <2>3, <2>4, <2>5 DEF Init, Types, TypeOK, Posts
<1>4. Distinct /\ Holders /\ InPass
  BY <1>1 DEF Init, Distinct, Holders, InPass
<1>5. Births
  BY <1>1, <1>2 DEF Init, Births
<1>6. TicksExact /\ KillWaitsForHandler
  BY <1>1 DEF Init, TicksExact, KillWaitsForHandler
<1> QED BY <1>3, <1>4, <1>5, <1>6 DEF IInv

\* Threads are told apart, and what is created or live is a set of timers.
LEMMA Facts ==
  ASSUME IInv
  PROVE  /\ Types /\ TypeOK /\ Distinct /\ Holders /\ InPass /\ Births
         /\ TicksExact /\ KillWaitsForHandler
         /\ Worker # Main /\ Worker # None /\ Main # None
         /\ Worker \notin Callers /\ Main \in Callers /\ Main \notin Users
         /\ None \notin Timers /\ None \notin Addresses
         /\ Live \subseteq Created /\ Created \subseteq Timers
         /\ Live = {timers[i] : i \in 1..Len(timers)}
         /\ Len(timers) \in Nat
         /\ \A x \in Created : addr[x] \in Addresses
         /\ Cardinality(Timers) \in Nat
         /\ IsFiniteSet(Created) /\ Cardinality(Created) \in Nat
         /\ Cardinality(Created) <= Cardinality(Timers)
<1>1. Created \in SUBSET Timers /\ \A x \in Created : addr[x] \in Addresses
  BY DEF IInv, Types, TypeOK, Created
<1>2. Live = {timers[i] : i \in 1..Len(timers)} /\ Len(timers) \in Nat
  <2>1. timers \in Seq(Timers)
    BY DEF IInv, Types, TypeOK
  <2> QED BY <2>1 DEF Live, Range
<1>3. /\ IsFiniteSet(Created) /\ Cardinality(Created) <= Cardinality(Timers)
      /\ Cardinality(Created) \in Nat /\ Cardinality(Timers) \in Nat
  BY <1>1, TimerAssumption, FS_Subset, FS_CardinalityType
<1>4. Live \subseteq Created
  BY DEF IInv, Types, TypeOK
<1>5. Worker # Main /\ Worker # None /\ Main # None
      /\ Worker \notin Callers /\ Main \in Callers /\ Main \notin Users
      /\ None \notin Timers /\ None \notin Addresses
  BY TimerAssumption DEF Callers
<1> QED BY <1>1, <1>2, <1>3, <1>4, <1>5 DEF IInv, Types

\* Sent counts the places of one message.
LEMMA SentCounts ==
  ASSUME NEW q \in Seq(Posts), NEW a
  PROVE  /\ {i \in DOMAIN q : q[i].timer = a} = Places(q, MessageOf(a))
         /\ Cardinality(Places(q, MessageOf(a))) \in Nat
<1>1. \A i \in DOMAIN q : q[i] = MessageOf(q[i].timer)
  BY DEF Posts, MessageOf
<1>2. \A i \in DOMAIN q : q[i].timer = a <=> q[i] = MessageOf(a)
  BY <1>1 DEF MessageOf
<1> QED BY <1>2, PlacesFinite DEF Places

-----------------------------------------------------------------------------
(* Steps that leave timers, messages and their history alone *)

Still == UNCHANGED <<messages, timers, addr, msg, history>>

LEMMA StillKeeps ==
  ASSUME IInv, Still, new_timers_count' \in 0..new_timers_count
  PROVE  Distinct' /\ Births' /\ TicksExact' /\ Live' = Live /\ Created' = Created
<1> USE Facts
<1>1. Live' = Live /\ Created' = Created
  BY DEF Still, Live, Created, Range
<1>2. UNCHANGED <<messages, timers, addr, msg, killed, raised, ticks>>
  BY DEF Still, history
<1>3. new_timers_count' <= Cardinality(Created)
  BY DEF Births, TypeOK
<1>4. Births'
  BY <1>1, <1>2, <1>3 DEF Births
<1>5. \A x : Sent(x)' = Sent(x)
  BY <1>2 DEF Sent
<1>6. TicksExact'
  BY <1>1, <1>2, <1>5 DEF TicksExact
<1> QED BY <1>1, <1>2, <1>4, <1>6 DEF Distinct

\* The timer thread, but for the messages it posts.
LEMMA WorkerInv ==
  ASSUME IInv, TestLoop \/ Lock \/ StartPass \/ LookAgain \/ TryWait \/ TimeOut \/ EndPass
  PROVE  IInv'
<1> USE Facts
<1>1. /\ Still /\ UNCHANGED <<queueVars, due, loop, running, owes>>
      /\ new_timers_count' \in 0..new_timers_count
  <2>1. CASE LookAgain
    <3>1. new_timers_count - 1 \in 0..new_timers_count
      BY <2>1 DEF LookAgain, TypeOK
    <3> QED BY <2>1, <3>1 DEF LookAgain, Still, queueVars
  <2>2. CASE TestLoop \/ Lock \/ StartPass \/ TryWait \/ TimeOut \/ EndPass
    <3>1. new_timers_count \in 0..new_timers_count
      BY DEF TypeOK
    <3> QED BY <2>2, <3>1 DEF TestLoop, Lock, StartPass, TryWait, TimeOut, EndPass, Still, still,
                              queueVars
  <2> QED BY <2>1, <2>2
<1>2. /\ pc' \in [{Worker, Main} -> WorkerPCs \cup MainPCs]
      /\ pc'[Main] = pc[Main] /\ pc'[Worker] \in WorkerPCs
  BY DEF TestLoop, Lock, StartPass, LookAgain, TryWait, TimeOut, EndPass, Goto, Types, TypeOK,
         WorkerPCs
<1>3. /\ mutex' \in {None, Worker, Main}
      /\ pc'[Worker] \in {"look", "raise"} <=> mutex' = Worker
      /\ mutex' = Main <=> mutex = Main
  BY <1>2 DEF TestLoop, Lock, StartPass, LookAgain, TryWait, TimeOut, EndPass, Goto, Types,
              TypeOK, Holders
<1>4. waits_for' \subseteq Timers /\ raising' \subseteq Timers
      /\ iter' \in 1..Cardinality(Timers) + 1
  BY DEF TestLoop, Lock, StartPass, LookAgain, TryWait, TimeOut, EndPass, worker, TypeOK
<1>5. Distinct' /\ Births' /\ TicksExact' /\ Live' = Live /\ Created' = Created
  BY <1>1, StillKeeps
<1>6. Types'
  BY <1>1, <1>2, <1>3, <1>4, <1>5
  DEF Types, TypeOK, Still, queueVars, history, Births
<1>7. Holders'
  BY <1>1, <1>2, <1>3 DEF Holders, Still
<1>8. InPass'
  <2>1. pc'[Worker] = "raise" => raising' = due /\ pc[Worker] = "look"
    BY <1>2 DEF TestLoop, Lock, StartPass, LookAgain, TryWait, TimeOut, EndPass, Goto, Types
  <2> QED BY <1>1, <2>1 DEF InPass, Still, history
<1>9. KillWaitsForHandler'
  BY <1>1, <1>5 DEF KillWaitsForHandler
<1> QED BY <1>5, <1>6, <1>7, <1>8, <1>9 DEF IInv

\* The clock: only a timer that may still be raised is due.
LEMMA TickInv == ASSUME IInv, NEW x \in Timers, Tick(x) PROVE IInv'
<1> USE Facts
<1>1. /\ Still /\ due' = due \cup {x} /\ x \in Live /\ raised[x] < MaxRaises[x]
      /\ UNCHANGED <<queueVars, mutex, new_timers_count, loop, pc, worker, running, owes>>
  BY DEF Tick, Still, queueVars
<1>2. new_timers_count' \in 0..new_timers_count
  BY <1>1 DEF TypeOK
<1>3. Distinct' /\ Births' /\ TicksExact' /\ Live' = Live /\ Created' = Created
  BY <1>1, <1>2, StillKeeps
<1>4. Types'
  BY <1>1, <1>3 DEF Types, TypeOK, Still, queueVars, history, worker
<1>5. Holders' /\ InPass' /\ KillWaitsForHandler'
  BY <1>1, <1>3 DEF Holders, InPass, KillWaitsForHandler, Still, history, worker
<1> QED BY <1>3, <1>4, <1>5 DEF IInv

\* A notification, the end of a handler, and the end of the manager.
LEMMA ReturnsInv ==
  ASSUME IInv, (\E t \in Callers : NotifyOne(t)) \/ HandlerReturns \/ CloseTimersThread \/ Join
  PROVE  IInv'
<1> USE Facts
<1>1. /\ Still /\ UNCHANGED <<messages, asleep, was_empty_message_pushed, due, new_timers_count,
                              worker>>
      /\ handlers' \subseteq handlers /\ loop' \in BOOLEAN /\ owes' \subseteq owes
      /\ running' \in {running, None}
  BY DEF NotifyOne, HandlerReturns, CloseTimersThread, Join, UnregisterHandler, Still, still,
         queueVars, history, TypeOK
<1>2. /\ pc' \in [{Worker, Main} -> WorkerPCs \cup MainPCs]
      /\ pc'[Worker] \in WorkerPCs /\ pc'[Main] \in MainPCs
      /\ pc'[Worker] = pc[Worker] \/ (pc[Worker] = "asleep" /\ pc'[Worker] = "lock")
      /\ pc'[Main] = pc[Main] \/ (pc[Main] \in {"loop", "handler", "join"}
                                  /\ pc'[Main] \in {"loop", "join", "done"})
  <2>1. CASE \E t \in Callers : NotifyOne(t)
    BY <2>1 DEF NotifyOne, WakeWorker, Goto, Types, TypeOK, WorkerPCs
  <2>2. CASE HandlerReturns \/ CloseTimersThread \/ Join
    BY <2>2 DEF HandlerReturns, CloseTimersThread, Join, Goto, Types, TypeOK, WorkerPCs, MainPCs
  <2> QED BY <2>1, <2>2
<1>3. /\ mutex' \in {None, Worker, Main}
      /\ pc'[Main] = "handler" <=> mutex' = Main
      /\ mutex' = Worker <=> mutex = Worker
      /\ running' # None => pc'[Main] = "handler"
  <2>1. CASE HandlerReturns
    BY <1>2, <2>1 DEF HandlerReturns, Goto, Types, Holders
  <2>2. CASE \E t \in Callers : NotifyOne(t)
    BY <1>2, <2>2 DEF NotifyOne, WakeWorker, Goto, Types, TypeOK, Holders
  <2>3. CASE CloseTimersThread \/ Join
    BY <1>2, <2>3 DEF CloseTimersThread, Join, Goto, still, Types, TypeOK, Holders
  <2> QED BY <2>1, <2>2, <2>3
<1>4. new_timers_count' \in 0..new_timers_count
  BY <1>1 DEF TypeOK
<1>5. Distinct' /\ Births' /\ TicksExact' /\ Live' = Live /\ Created' = Created
  BY <1>1, <1>4, StillKeeps
<1>6. Types'
  BY <1>1, <1>2, <1>3, <1>5 DEF Types, TypeOK, Still, history, worker
<1>7. Holders'
  BY <1>1, <1>2, <1>3 DEF Holders, Still
<1>8. InPass' /\ KillWaitsForHandler'
  BY <1>1, <1>2, <1>5 DEF InPass, KillWaitsForHandler, Still, history, worker
<1> QED BY <1>5, <1>6, <1>7, <1>8 DEF IInv

-----------------------------------------------------------------------------
(* CreateTimer and KillTimer *)

\* Outside the handler nobody holds the mutex; the timer thread never does.
LEMMA CallerInside ==
  ASSUME IInv, NEW t \in Callers, MayCall(t)
  PROVE  /\ mutex # Worker /\ pc[Worker] # "raise"
         /\ running # None => t = Main
BY Facts DEF MayCall, Holders

LEMMA CreateInv ==
  ASSUME IInv, NEW t \in Callers, NEW x \in Timers, CreateTimer(t, x)
  PROVE  IInv'
<1> USE Facts
<1>1. PICK a \in Addresses : addr' = [addr EXCEPT ![x] = a]
  BY DEF CreateTimer
<1>2. /\ x \notin Created /\ timers' = Append(timers, x) /\ x \notin Live
      /\ new_timers_count' = new_timers_count + 1 /\ owes' = owes \cup {t}
      /\ UNCHANGED <<queueVars, mutex, due, loop, pc, worker, msg, running, history>>
      /\ addr' \in [Timers -> Addresses \cup {None}]
      /\ addr'[x] = a /\ \A y \in Timers \ {x} : addr'[y] = addr[y]
      /\ pc[Worker] # "raise"
  BY <1>1, CallerInside DEF CreateTimer, TypeOK
<1>3. /\ timers' \in Seq(Timers) /\ Len(timers') = Len(timers) + 1
      /\ Live' = Live \cup {x} /\ Distinct'
  BY <1>2, AppendRange DEF Live, Distinct, TypeOK
<1>4. /\ Created' = Created \cup {x} /\ Cardinality(Created') = Cardinality(Created) + 1
      /\ Cardinality(Created') <= Cardinality(Timers)
  <2>1. Created' = Created \cup {x}
    BY <1>2 DEF Created
  <2>2. Created' \in SUBSET Timers
    BY <2>1
  <2> QED BY <1>2, <2>1, <2>2, FS_AddElement, TimerAssumption, FS_Subset
<1>5. Cardinality(Live') = Len(timers')
  <2>1. IsFiniteSet(Live) /\ Cardinality(Live) = Len(timers)
    BY FS_Subset DEF TypeOK
  <2>2. Cardinality(Live \cup {x}) = Cardinality(Live) + 1
    BY <1>2, <2>1, FS_AddElement
  <2> QED BY <1>3, <2>1, <2>2
<1>6. new_timers_count' \in 0..Cardinality(Timers) /\ new_timers_count' <= Cardinality(Created')
  BY <1>2, <1>4 DEF Births, TypeOK
<1>7. Types'
  <2>1. Live' = Created' \ killed' /\ due' \subseteq Live'
    BY <1>2, <1>3, <1>4 DEF TypeOK, Births, history
  <2> QED BY <1>2, <1>3, <1>5, <1>6, <2>1 DEF Types, TypeOK, queueVars, history, worker
<1>8. Holders' /\ InPass' /\ KillWaitsForHandler'
  BY <1>2, <1>3 DEF Holders, InPass, KillWaitsForHandler, history
<1>9. Births'
  <2>1. ASSUME NEW i \in DOMAIN messages PROVE \E y \in Created' : messages[i].timer = addr'[y]
    <3>1. PICK y \in Created : messages[i].timer = addr[y]
      BY DEF Births
    <3> QED BY <1>2, <1>4, <3>1
  <2>2. ASSUME msg # None PROVE \E y \in Created' : msg = addr'[y]
    <3>1. PICK y \in Created : msg = addr[y]
      BY <2>2 DEF Births
    <3> QED BY <1>2, <1>4, <3>1
  <2> QED BY <1>2, <1>4, <1>6, <2>1, <2>2 DEF Births, queueVars, history
<1>10. TicksExact'
  <2> SUFFICES ASSUME NEW y \in Live', \A z \in Created' \ {y} : addr'[z] # addr'[y]
               PROVE  ticks'[y] + Sent(y)' = raised'[y]
    BY DEF TicksExact
  <2>1. CASE y = x
    <3>1. \A i \in DOMAIN messages : messages[i].timer # addr'[x]
      BY <1>2, <1>4, <2>1 DEF Births
    <3>2. msg # addr'[x]
      <4>1. CASE msg = None
        BY <1>2, <4>1
      <4>2. CASE msg # None
        BY <1>2, <1>4, <2>1, <4>2 DEF Births
      <4> QED BY <4>1, <4>2
    <3>3. {i \in DOMAIN messages' : messages'[i].timer = addr'[x]} = {}
      BY <1>2, <3>1 DEF queueVars
    <3>4. Sent(x)' = 0
      <4>1. Cardinality({i \in DOMAIN messages' : messages'[i].timer = addr'[x]}) = 0
        BY <3>3, FS_EmptySet
      <4> QED BY <1>2, <3>2, <4>1 DEF Sent
    <3>5. raised[x] = 0 /\ ticks[x] = 0
      BY <1>2 DEF Births
    <3> QED BY <1>2, <2>1, <3>4, <3>5 DEF history
  <2>2. CASE y # x
    <3>1. y \in Live /\ addr'[y] = addr[y]
      BY <1>2, <1>3, <2>2
    <3>2. \A z \in Created \ {y} : addr[z] # addr[y]
      BY <1>2, <1>4, <3>1
    <3>3. Sent(y)' = Sent(y)
      BY <1>2, <3>1 DEF Sent, queueVars
    <3> QED BY <1>2, <3>1, <3>2, <3>3 DEF TicksExact, history
  <2> QED BY <2>1, <2>2
<1> QED BY <1>3, <1>7, <1>8, <1>9, <1>10 DEF IInv

LEMMA KillInv ==
  ASSUME IInv, NEW t \in Callers, NEW x \in Timers, KillTimer(t, x)
  PROVE  IInv'
<1> USE Facts
<1>1. PICK i \in 1..Len(timers) : timers[i] = x /\ timers' = RemoveAt(timers, i)
  BY DEF KillTimer, TypeOK
<1>2. /\ x \in Live /\ due' = due \ {x} /\ killed' = killed \cup {x}
      /\ owes' = owes \cup {t}
      /\ running' = IF t = Main /\ running = x THEN None ELSE running
      /\ running # None => t = Main
      /\ UNCHANGED <<queueVars, mutex, addr, new_timers_count, loop, pc, worker, msg, raised,
                     ticks>>
      /\ pc[Worker] # "raise"
  BY CallerInside DEF KillTimer
<1>3. /\ timers' \in Seq(Timers) /\ Len(timers') = Len(timers) - 1
      /\ Live' = Live \ {x} /\ Distinct'
  <2>1. timers \in Seq(Timers) /\ \A j, k \in 1..Len(timers) : timers[j] = timers[k] => j = k
    BY DEF TypeOK, Distinct
  <2>2. RemoveAt(timers, i) \in Seq(Timers) /\ Len(RemoveAt(timers, i)) = Len(timers) - 1
    BY <2>1, RemoveAtIndex
  <2>3. /\ Range(RemoveAt(timers, i)) = Range(timers) \ {timers[i]}
        /\ \A j, k \in 1..Len(RemoveAt(timers, i)) :
             RemoveAt(timers, i)[j] = RemoveAt(timers, i)[k] => j = k
    BY <2>1, RemoveAtRange
  <2> QED BY <1>1, <2>2, <2>3 DEF Live, Distinct
<1>4. Created' = Created
  BY <1>2 DEF Created
<1>5. Cardinality(Live') = Len(timers')
  <2>1. IsFiniteSet(Live) /\ Cardinality(Live) = Len(timers)
    BY FS_Subset DEF TypeOK
  <2>2. Cardinality(Live \ {x}) = Cardinality(Live) - 1
    BY <1>2, <2>1, FS_RemoveElement
  <2> QED BY <1>3, <2>1, <2>2
<1>6. Types'
  <2>1. Live' = Created' \ killed' /\ due' \subseteq Live'
    BY <1>2, <1>3, <1>4 DEF TypeOK
  <2> QED BY <1>2, <1>3, <1>5, <2>1 DEF Types, TypeOK, queueVars, worker
<1>7. Holders' /\ InPass'
  BY <1>2 DEF Holders, InPass
<1>8. KillWaitsForHandler'
  BY <1>2, <1>3 DEF KillWaitsForHandler
<1>9. Births'
  BY <1>2, <1>4 DEF Births, queueVars
<1>10. TicksExact'
  <2>1. \A y : Sent(y)' = Sent(y)
    BY <1>2 DEF Sent, queueVars
  <2> QED BY <1>2, <1>3, <1>4, <2>1 DEF TicksExact
<1> QED BY <1>3, <1>6, <1>7, <1>8, <1>9, <1>10 DEF IInv

-----------------------------------------------------------------------------
(* Messages: posted by the pass, taken by the main loop, dispatched *)

\* One message more, of the timer the pass has come to: it was due, and is met once.
LEMMA RaiseInv == ASSUME IInv, Raise PROVE IInv'
<1> USE Facts
<1> DEFINE y == timers[iter]
<1>1. /\ pc[Worker] = "raise" /\ iter \in 1..Len(timers) /\ y \in Live /\ y \in Created
      /\ addr[y] \in Addresses
      /\ iter' = iter + 1 /\ iter' \in 1..Cardinality(Timers) + 1
      /\ UNCHANGED <<mutex, timers, pc, waits_for, raising, killed, ticks, still>>
  <2>1. iter \in 1..Len(timers) /\ y \in Live
    BY DEF Raise, TypeOK
  <2>2. Len(timers) <= Cardinality(Timers)
    BY TimerAssumption, FS_Subset DEF TypeOK
  <2> QED BY <2>1, <2>2 DEF Raise
<1>2. Live' = Live /\ Created' = Created /\ Distinct'
  BY <1>1 DEF Live, Created, Range, Distinct, still
<1>3. CASE y \notin raising
  <2>1. /\ Still /\ UNCHANGED <<queueVars, due>>
        /\ new_timers_count' \in 0..new_timers_count
    BY <1>1, <1>3 DEF Raise, Still, still, queueVars, history, TypeOK
  <2>2. Births' /\ TicksExact'
    BY <2>1, StillKeeps
  <2>3. Types'
    BY <1>1, <1>2, <2>1 DEF Types, TypeOK, queueVars, still, Still, history
  <2>4. Holders' /\ KillWaitsForHandler'
    BY <1>1, <1>2 DEF Holders, KillWaitsForHandler, still
  <2>5. InPass'
    BY <1>1, <2>1 DEF InPass, Still, history, TypeOK
  <2> QED BY <1>2, <2>2, <2>3, <2>4, <2>5 DEF IInv
<1>4. CASE y \in raising
  <2>1. /\ PushMessage(MessageOf(addr[y])) /\ due' = due \ {y}
        /\ raised' = [raised EXCEPT ![y] = @ + 1]
    BY <1>4 DEF Raise
  <2>2. y \in due /\ raised[y] < MaxRaises[y]
    BY <1>1, <1>4 DEF InPass, TypeOK
  <2>3. /\ messages \in Seq(Posts) /\ MessageOf(addr[y]) \in Posts
        /\ messages' = Append(messages, MessageOf(addr[y])) /\ messages' \in Seq(Posts)
        /\ UNCHANGED <<handlers, asleep, was_empty_message_pushed>>
    <3>1. messages \in Seq(Posts) /\ MessageOf(addr[y]) \in Posts
      BY <1>1 DEF TypeOK, Posts
    <3>2. asleep = {}
      BY DEF TypeOK
    <3> QED BY <2>1, <3>1, <3>2 DEF PushMessage
  <2>4. /\ raised' \in [Timers -> Nat] /\ raised'[y] = raised[y] + 1
        /\ \A x \in Timers \ {y} : raised'[x] = raised[x]
        /\ \A x \in Timers : raised'[x] <= MaxRaises[x]
    <3>1. raised \in [Timers -> Nat] /\ y \in Timers /\ \A x \in Timers : raised[x] <= MaxRaises[x]
      BY <1>1 DEF TypeOK
    <3>2. MaxRaises[y] \in Nat /\ raised[y] + 1 <= MaxRaises[y] /\ raised[y] + 1 \in Nat
      BY <2>2, <3>1, TimerAssumption
    <3>3. raised' \in [Timers -> Nat] /\ raised'[y] = raised[y] + 1
          /\ \A x \in Timers \ {y} : raised'[x] = raised[x]
      BY <2>1, <3>1, <3>2
    <3> QED BY <3>1, <3>2, <3>3
  <2>5. Types'
    BY <1>1, <1>2, <2>1, <2>3, <2>4 DEF Types, TypeOK, Posts, still
  <2>6. Holders' /\ KillWaitsForHandler'
    BY <1>1, <1>2 DEF Holders, KillWaitsForHandler, still
  <2>7. InPass'
    <3>1. \A x \in due' : raised'[x] < MaxRaises[x]
      BY <2>1, <2>4 DEF InPass, TypeOK
    <3>2. ASSUME NEW i \in 1..Len(timers), i >= iter + 1, timers[i] \in raising
          PROVE  timers[i] \in due'
      <4>1. timers[i] # y
        BY <1>1, <3>2 DEF Distinct
      <4>2. timers[i] \in due
        BY <1>1, <3>2 DEF InPass
      <4> QED BY <2>1, <4>1, <4>2
    <3> QED BY <1>1, <3>1, <3>2 DEF InPass
  <2>8. Births'
    <3>1. ASSUME NEW i \in DOMAIN messages' PROVE \E z \in Created : messages'[i].timer = addr[z]
      <4>1. CASE i \in DOMAIN messages
        <5>1. messages'[i] = messages[i]
          BY <2>3, <4>1
        <5> QED BY <4>1, <5>1 DEF Births
      <4>2. CASE i \notin DOMAIN messages
        <5>1. messages'[i] = MessageOf(addr[y])
          BY <2>3, <4>2
        <5> QED BY <1>1, <5>1 DEF MessageOf
      <4> QED BY <4>1, <4>2
    <3>2. \A x \in Timers \ Created : raised'[x] = 0 /\ ticks[x] = 0
      BY <1>1, <2>4 DEF Births
    <3> QED BY <1>1, <1>2, <3>1, <3>2 DEF Births, still
  <2>9. TicksExact'
    <3> SUFFICES ASSUME NEW x \in Live, \A z \in Created \ {x} : addr[z] # addr[x]
                 PROVE  ticks[x] + Sent(x)' = raised'[x]
      BY <1>1, <1>2 DEF TicksExact, still
    <3>1. ticks[x] + Sent(x) = raised[x] /\ ticks[x] \in Nat /\ raised[x] \in Nat
      BY DEF TicksExact, TypeOK
    <3>2. Cardinality(Places(messages', MessageOf(addr[x])))
            = Cardinality(Places(messages, MessageOf(addr[x])))
              + (IF MessageOf(addr[y]) = MessageOf(addr[x]) THEN 1 ELSE 0)
      BY <2>3, PlacesAppend
    <3>3. (MessageOf(addr[y]) = MessageOf(addr[x])) <=> x = y
      BY <1>1 DEF MessageOf
    <3>4. /\ Sent(x) = Cardinality(Places(messages, MessageOf(addr[x])))
                       + (IF msg = addr[x] THEN 1 ELSE 0)
          /\ Sent(x)' = Cardinality(Places(messages', MessageOf(addr[x])))
                        + (IF msg = addr[x] THEN 1 ELSE 0)
          /\ Cardinality(Places(messages, MessageOf(addr[x]))) \in Nat
      BY <1>1, <2>3, SentCounts DEF Sent, still
    <3>5. x = y => raised'[x] = raised[x] + 1
      BY <2>4
    <3>6. x # y => raised'[x] = raised[x]
      BY <2>4
    <3> QED BY <3>1, <3>2, <3>3, <3>4, <3>5, <3>6
  <2> QED BY <1>2, <2>5, <2>6, <2>7, <2>8, <2>9 DEF IInv
<1> QED BY <1>3, <1>4

\* The message goes from the queue into the main thread's hands.
LEMMA PopInv == ASSUME IInv, PopTimerMessage PROVE IInv'
<1> USE Facts
<1>1. PICK a \in Addresses : PopMessage(MessageOf(a)) /\ msg' = a
  BY DEF PopTimerMessage
<1>2. /\ pc[Main] = "loop" /\ msg = None
      /\ pc' \in [{Worker, Main} -> WorkerPCs \cup MainPCs]
      /\ pc'[Main] = "dispatch" /\ pc'[Worker] = pc[Worker]
      /\ UNCHANGED <<mutex, timers, addr, due, new_timers_count, loop, worker, running, owes,
                     history>>
  BY DEF PopTimerMessage, Goto, Types, Holders, MainPCs
<1>3. /\ messages \in Seq(Posts) /\ messages # <<>> /\ Head(messages) = MessageOf(a)
      /\ messages' = Tail(messages) /\ messages' \in Seq(Posts)
      /\ UNCHANGED <<handlers, asleep, was_empty_message_pushed>>
  BY <1>1 DEF PopMessage, TypeOK, Posts
<1>4. Live' = Live /\ Created' = Created /\ Distinct'
  BY <1>2 DEF Live, Created, Range, Distinct
<1>5. Types'
  BY <1>1, <1>2, <1>3, <1>4 DEF Types, TypeOK, Posts, history, worker, MainPCs
<1>6. Holders' /\ InPass' /\ KillWaitsForHandler'
  BY <1>1, <1>2, <1>4 DEF Holders, InPass, KillWaitsForHandler, history, worker
<1>7. Births'
  <2>1. ASSUME NEW i \in DOMAIN messages' PROVE \E z \in Created : messages'[i].timer = addr[z]
    <3>1. i + 1 \in DOMAIN messages /\ messages'[i] = messages[i + 1]
      BY <1>3
    <3> QED BY <3>1 DEF Births
  <2>2. \E z \in Created : a = addr[z]
    <3>1. 1 \in DOMAIN messages /\ messages[1].timer = a
      BY <1>3 DEF MessageOf
    <3> QED BY <3>1 DEF Births
  <2> QED BY <1>1, <1>2, <1>4, <2>1, <2>2 DEF Births, history
<1>8. TicksExact'
  <2>1. ASSUME NEW x \in Live PROVE Sent(x)' = Sent(x)
    <3>1. Cardinality(Places(messages, MessageOf(addr[x])))
            = Cardinality(Places(messages', MessageOf(addr[x])))
              + (IF MessageOf(a) = MessageOf(addr[x]) THEN 1 ELSE 0)
      BY <1>3, PlacesTail
    <3>2. (MessageOf(a) = MessageOf(addr[x])) <=> a = addr[x]
      BY DEF MessageOf
    <3>3. msg # addr[x]
      BY <1>2
    <3>4. /\ Sent(x) = Cardinality(Places(messages, MessageOf(addr[x]))) + 0
          /\ Sent(x)' = Cardinality(Places(messages', MessageOf(addr[x])))
                        + (IF a = addr[x] THEN 1 ELSE 0)
          /\ Cardinality(Places(messages', MessageOf(addr[x]))) \in Nat
      BY <1>1, <1>2, <1>3, <3>3, SentCounts DEF Sent
    <3> QED BY <3>1, <3>2, <3>4
  <2> QED BY <1>2, <1>4, <2>1 DEF TicksExact, history
<1> QED BY <1>4, <1>5, <1>6, <1>7, <1>8 DEF IInv

\* A message that finds no timer at its address is dropped; one that does is a tick.
LEMMA DispatchInv == ASSUME IInv, DispatchTimer PROVE IInv'
<1> USE Facts
<1>1. /\ pc[Main] = "dispatch" /\ mutex = None /\ msg' = None /\ msg \in Addresses
      /\ UNCHANGED <<queueVars, timers, addr, due, new_timers_count, loop, worker, owes,
                     killed, raised>>
  BY DEF DispatchTimer, Holders
<1>2. Live' = Live /\ Created' = Created /\ Distinct'
  BY <1>1 DEF Live, Created, Range, Distinct
<1>3. CASE At(msg) = {}
  <2>1. /\ pc' \in [{Worker, Main} -> WorkerPCs \cup MainPCs]
        /\ pc'[Main] = "loop" /\ pc'[Worker] = pc[Worker]
        /\ UNCHANGED <<mutex, running, ticks>>
    BY <1>3 DEF DispatchTimer, Goto, Types, MainPCs
  <2>2. Types'
    BY <1>1, <1>2, <2>1 DEF Types, TypeOK, queueVars, worker, MainPCs
  <2>3. Holders' /\ InPass' /\ KillWaitsForHandler'
    BY <1>1, <1>2, <2>1 DEF Holders, InPass, KillWaitsForHandler, worker
  <2>4. Births'
    BY <1>1, <1>2, <2>1 DEF Births, queueVars
  <2>5. \A x \in Live : Sent(x)' = Sent(x)
    <3>1. \A x \in Live : msg # addr[x] /\ None # addr[x]
      BY <1>3 DEF At
    <3> QED BY <1>1, <3>1 DEF Sent, queueVars
  <2>6. TicksExact'
    BY <1>1, <1>2, <2>1, <2>5 DEF TicksExact
  <2> QED BY <1>2, <2>2, <2>3, <2>4, <2>6 DEF IInv
<1>4. CASE At(msg) # {}
  <2>1. PICK y \in At(msg) : /\ mutex' = Main /\ running' = y
                             /\ ticks' = [ticks EXCEPT ![y] = @ + 1]
                             /\ Goto(Main, "handler")
    BY <1>4 DEF DispatchTimer
  <2>2. /\ y \in Live /\ y \in Created /\ addr[y] = msg
        /\ pc' \in [{Worker, Main} -> WorkerPCs \cup MainPCs]
        /\ pc'[Main] = "handler" /\ pc'[Worker] = pc[Worker]
        /\ ticks' \in [Timers -> Nat] /\ ticks'[y] = ticks[y] + 1
        /\ \A x \in Timers \ {y} : ticks'[x] = ticks[x]
    BY <2>1 DEF At, Goto, Types, TypeOK, MainPCs
  <2>3. Types'
    BY <1>1, <1>2, <2>1, <2>2 DEF Types, TypeOK, queueVars, worker, MainPCs
  <2>4. Holders' /\ InPass' /\ KillWaitsForHandler'
    BY <1>1, <1>2, <2>1, <2>2 DEF Holders, InPass, KillWaitsForHandler, worker
  <2>5. Births'
    BY <1>1, <1>2, <2>2 DEF Births, queueVars
  <2>6. TicksExact'
    <3> SUFFICES ASSUME NEW x \in Live, \A z \in Created \ {x} : addr[z] # addr[x]
                 PROVE  ticks'[x] + Sent(x)' = raised[x]
      BY <1>1, <1>2 DEF TicksExact
    <3>1. ticks[x] + Sent(x) = raised[x] /\ ticks[x] \in Nat
      BY DEF TicksExact, TypeOK
    <3>2. /\ Sent(x) = Cardinality(Places(messages, MessageOf(addr[x])))
                       + (IF msg = addr[x] THEN 1 ELSE 0)
          /\ Sent(x)' = Cardinality(Places(messages, MessageOf(addr[x])))
                        + (IF None = addr[x] THEN 1 ELSE 0)
          /\ Cardinality(Places(messages, MessageOf(addr[x]))) \in Nat
      <4>1. messages \in Seq(Posts)
        BY DEF TypeOK, Posts
      <4> QED BY <1>1, <4>1, SentCounts DEF Sent, queueVars
    <3>3. None # addr[x] /\ (msg = addr[x] <=> x = y)
      BY <2>2
    <3>4. CASE x = y
      <4>1. ticks'[x] = ticks[x] + 1
        BY <2>2, <3>4
      <4>2. Sent(x) = Sent(x)' + 1 /\ Sent(x)' \in Nat
        BY <3>2, <3>3, <3>4
      <4>3. ticks[x] \in Nat /\ ticks[x] + (Sent(x)' + 1) = raised[x]
        BY <3>1, <4>2
      <4>4. (ticks[x] + 1) + Sent(x)' = ticks[x] + (Sent(x)' + 1)
        BY <4>2, <4>3
      <4> QED BY <4>1, <4>3, <4>4
    <3>5. CASE x # y
      BY <2>2, <3>1, <3>2, <3>3, <3>5
    <3> QED BY <3>4, <3>5
  <2> QED BY <1>2, <2>3, <2>4, <2>5, <2>6 DEF IInv
<1> QED BY <1>3, <1>4

-----------------------------------------------------------------------------
LEMMA NextInv == IInv /\ [Next]_vars => IInv'
<1> SUFFICES ASSUME IInv, [Next]_vars PROVE IInv'
  OBVIOUS
<1>1. ASSUME NEW t \in Callers, NEW x \in Timers, CreateTimer(t, x) \/ KillTimer(t, x)
      PROVE  IInv'
  BY <1>1, CreateInv, KillInv
<1>2. CASE \E t \in Callers : NotifyOne(t)
  BY <1>2, ReturnsInv
<1>3. CASE \E x \in Timers : Tick(x)
  BY <1>3, TickInv
<1>4. CASE WorkerStep
  BY <1>4, WorkerInv, RaiseInv DEF WorkerStep
<1>5. CASE MainStep \/ CloseTimersThread
  BY <1>5, PopInv, DispatchInv, ReturnsInv DEF MainStep
<1>6. CASE UNCHANGED vars
  <2> USE Facts
  <2>1. Still /\ new_timers_count' \in 0..new_timers_count
    BY <1>6 DEF vars, Still, queueVars, TypeOK
  <2>2. Distinct' /\ Births' /\ TicksExact' /\ Live' = Live /\ Created' = Created
    BY <2>1, StillKeeps
  <2>3. Types'
    BY <1>6, <2>2 DEF vars, Types, TypeOK, queueVars, history, worker
  <2>4. Holders' /\ InPass' /\ KillWaitsForHandler'
    BY <1>6, <2>2 DEF vars, Holders, InPass, KillWaitsForHandler, history, worker
  <2> QED BY <2>2, <2>3, <2>4 DEF IInv
<1> QED BY <1>1, <1>2, <1>3, <1>4, <1>5, <1>6 DEF Next

LEMMA SpecInv == Spec => []IInv
BY InitInv, NextInv, PTL DEF Spec

\* The state of the manager keeps its types; the vector holds each timer that was
\* created and not killed once, and no timer is raised more often than it is due.
THEOREM TypeCorrect == Spec => []TypeOK
<1>1. IInv => TypeOK
  BY DEF IInv, Types
<1> QED BY <1>1, SpecInv, PTL

\* While the handler of a timer runs the timer lives: KillTimer waits for the mutex,
\* unless the handler itself kills its timer.
THEOREM KillWaits == Spec => []KillWaitsForHandler
<1>1. IInv => KillWaitsForHandler
  BY DEF IInv
<1> QED BY <1>1, SpecInv, PTL

\* As long as its address is its own, a timer is ticked once for each time it was due:
\* what was raised has been ticked or is on its way.
THEOREM TicksAreExact == Spec => []TicksExact
<1>1. IInv => TicksExact
  BY DEF IInv
<1> QED BY <1>1, SpecInv, PTL

\* The handler of a killed timer is not started again, whatever is in the queue: the
\* dispatch looks for the timer in the vector.
LEMMA KilledRest ==
  ASSUME IInv, [Next]_vars
  PROVE  \A x \in killed : ticks'[x] = ticks[x]
<1> SUFFICES ASSUME NEW x \in killed PROVE ticks'[x] = ticks[x]
  OBVIOUS
<1>1. CASE DispatchTimer
  <2>1. x \notin Live
    BY Facts DEF TypeOK
  <2>2. ticks' = ticks \/ \E y \in Live : ticks' = [ticks EXCEPT ![y] = @ + 1]
    BY <1>1 DEF DispatchTimer, At
  <2>3. x \in Timers /\ ticks \in [Timers -> Nat]
    BY Facts DEF Births, TypeOK
  <2> QED BY <2>1, <2>2, <2>3
<1>2. ASSUME ~DispatchTimer PROVE ticks' = ticks
  <2>1. ASSUME NEW t \in Callers, NEW y \in Timers, CreateTimer(t, y) \/ KillTimer(t, y)
        PROVE  ticks' = ticks
    BY <2>1 DEF CreateTimer, KillTimer, history
  <2>2. ASSUME NEW t \in Callers, NotifyOne(t) PROVE ticks' = ticks
    BY <2>2 DEF NotifyOne, history
  <2>3. ASSUME NEW y \in Timers, Tick(y) PROVE ticks' = ticks
    BY <2>3 DEF Tick, history
  <2>4. CASE WorkerStep
    BY <2>4 DEF WorkerStep, TestLoop, Lock, StartPass, LookAgain, TryWait, TimeOut, Raise,
                EndPass, history
  <2>5. CASE PopTimerMessage \/ HandlerReturns \/ Join \/ CloseTimersThread
    BY <2>5 DEF PopTimerMessage, HandlerReturns, Join, CloseTimersThread, history
  <2>6. CASE UNCHANGED vars
    BY <2>6 DEF vars, history
  <2>7. CASE MainStep
    BY <1>2, <2>5, <2>7 DEF MainStep
  <2> QED BY <2>1, <2>2, <2>3, <2>4, <2>5, <2>6, <2>7 DEF Next
<1> QED BY <1>1, <1>2

\* Once a timer is killed its handler is never started again.
THEOREM KilledIsFinal == Spec => KillIsFinal
<1>1. IInv /\ [Next]_vars => [\A x \in killed : ticks'[x] = ticks[x]]_vars
  BY KilledRest
<1> QED BY <1>1, SpecInv, PTL DEF Spec, KillIsFinal
=============================================================================
