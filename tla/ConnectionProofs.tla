-------------------------- MODULE ConnectionProofs --------------------------
(***************************************************************************)
(* The use counts of the render thread's connections, for any number of    *)
(* clients, any capacity of the queue and any number of calls: a count is  *)
(* the number of those who refer to the connection.  The argument: what    *)
(* exists of the items follows from the history of the queue and from how  *)
(* far the thread got in it (ExistingIs), each action creates or removes   *)
(* the items it names and no others (ExistingCall to ExistingJoined), and  *)
(* each of them changes the count by the references that came or went      *)
(* (CountCall to CountReleased).  For that a reference has to be one to a  *)
(* connection a processed creator made (References): nothing refers to a   *)
(* connection before its time.                                             *)
(***************************************************************************)
EXTENDS RenderThreadProofs, FiniteSetTheorems

\* A step keeps the invariant of the render thread.
LEMMA RenderStep == RInv /\ [RenderNext]_allVars => RInv'
<1>1. RInv /\ [RenderNext]_allVars => IInv'
  BY RenderStepIsQueueStep, TypeStep, HistoryStep DEF RInv, IInv
<1> QED BY <1>1, RTypesStep, InOrderStep, PushedBeforeStep, InStepStep, OwnedStep,
           CreationsStep, ResultsStep DEF RInv

\* The thread that is in a call of the queue runs.
Busy == stage[Render] # "idle" => thread = "running"

\* A connection that is referred to was made by a creator the thread has processed.
Made ==
  /\ returned \subseteq AllItems
  /\ \A c \in processed : InHistory(c)
  /\ \A c \in AllItems : result[c] = "made" => c \in processed
  /\ \A c \in returned : result[c] = "made"

\* Clients refer to connections that were returned, or wait for a new one.
Referring ==
  \A p \in Producers :
    /\ proxy[p] # None => proxy[p] \in returned
    /\ creation[p] # None => proxy[p] = None /\ creation[p] \notin returned

\* Commands go to connections that were returned, the client's own first of all.
Addressed ==
  \A p \in Producers :
    /\ client[p] = "sending" => item[Value(p)] = [kind |-> "commands", connection |-> proxy[p]]
    /\ client[p] = "creating" => item[Value(p)].kind = "creator"
    /\ client[p] = "posting" => item[Value(p)].kind = "waiter"
    /\ \A n \in 1..MaxCalls :
         n <= calls[p] /\ item[<<p, n>>].kind = "commands"
           => item[<<p, n>>].connection \in returned

References == Busy /\ Made /\ Referring /\ Addressed

\* An item whose time has not come, or that is in the thread's hand.
Remaining(i) ==
  \E k \in 1..Len(History) :
    History[k] = i /\ (k > Len(delivered) \/ (k = Len(delivered) /\ stage[Render] = "done"))

InPush(i) == \E p \in Producers : stage[p] \in {"waiting", "refused"} /\ i = Value(p)

\* Nobody calls the queue once nobody has the thread.
LEMMA Quiet ==
  RInv => (stop_request => \A p \in Producers : stage[p] = "idle" /\ creation[p] = None
                                                /\ proxy[p] = None)
<1> SUFFICES ASSUME RInv, stop_request, NEW p \in Producers
             PROVE  stage[p] = "idle" /\ creation[p] = None /\ proxy[p] = None
  OBVIOUS
<1>1. ~handle[p] /\ proxy[p] = None
  BY DEF RInv, Owned, Holders
<1>2. client[p] \notin {"sending", "creating", "created", "posting", "asleep"}
  BY <1>1 DEF RInv, Owned
<1>3. creation[p] = None
  BY <1>2 DEF RInv, Creations, Awaited
<1> QED BY <1>1, <1>2, <1>3 DEF RInv, InStep

\* An item exists while its push is going on, and from then on until the thread
\* is done with it.
LEMMA ExistingIs ==
  RInv /\ References =>
    \A i : i \in Existing <=> thread # "destroyed" /\ (Remaining(i) \/ InPush(i))
<1> SUFFICES ASSUME RInv, References, NEW i
             PROVE  i \in Existing <=> thread # "destroyed" /\ (Remaining(i) \/ InPush(i))
  OBVIOUS
<1>1. /\ IInv /\ queue \in Seq(Items) /\ delivered \in Seq(Items)
      /\ DOMAIN queue = 1..Len(queue) /\ Len(queue) \in Nat /\ Len(delivered) \in Nat
  BY DEF RInv, IInv, TypeOK
<1>2. /\ Len(History) = Len(delivered) + Len(queue)
      /\ \A k \in 1..Len(queue) : queue[k] = History[Len(delivered) + k]
  BY <1>1 DEF History
<1>3. CASE thread = "destroyed"
  <2>1. stop_request /\ stage[Render] # "done"
    BY <1>3 DEF RInv, Owned, References, Busy
  <2>2. \A p \in Producers : stage[p] = "idle"
    BY <2>1, Quiet
  <2> QED BY <1>3, <2>1, <2>2 DEF Existing
<1>4. CASE thread # "destroyed"
  <2>1. i \in Queued <=> \E k \in 1..Len(History) : k > Len(delivered) /\ History[k] = i
    <3>1. ASSUME i \in Queued
          PROVE  \E k \in 1..Len(History) : k > Len(delivered) /\ History[k] = i
      <4>1. PICK k \in 1..Len(queue) : queue[k] = i
        BY <1>1, <3>1 DEF Queued
      <4>2. Len(delivered) + k \in 1..Len(History) /\ Len(delivered) + k > Len(delivered)
        BY <1>1, <1>2
      <4> QED BY <1>2, <4>1, <4>2
    <3>2. ASSUME NEW k \in 1..Len(History), k > Len(delivered), History[k] = i
          PROVE  i \in Queued
      <4>1. k - Len(delivered) \in 1..Len(queue)
        BY <1>1, <1>2, <3>2
      <4>2. queue[k - Len(delivered)] = i
        BY <1>1, <1>2, <3>2, <4>1
      <4> QED BY <1>1, <4>1, <4>2 DEF Queued
    <3> QED BY <3>1, <3>2
  <2>2. stage[Render] = "done" => Len(delivered) \in 1..Len(History)
                                  /\ Command = History[Len(delivered)]
    BY <1>1, <1>2, CommandFacts DEF RInv, InOrder
  <2>3. Remaining(i) <=> i \in Queued \/ (stage[Render] = "done" /\ i = Command)
    BY <1>1, <2>1, <2>2 DEF Remaining
  <2> QED BY <1>4, <2>3 DEF Existing, InPush
<1> QED BY <1>3, <1>4

\* The same after a step.
LEMMA ExistingIsThen ==
  (RInv /\ References)' =>
    \A i : i \in Existing' <=> thread' # "destroyed" /\ (Remaining(i)' \/ InPush(i)')
<1>1. (RInv /\ References =>
        \A i : i \in Existing <=> thread # "destroyed" /\ (Remaining(i) \/ InPush(i)))'
  BY ExistingIs, PTL
<1> QED BY <1>1

-----------------------------------------------------------------------------
\* What was queued once stays in the history.
LEMMA HistoryGrows == IInv /\ [Next]_vars => \A v : InHistory(v) => InHistory(v)'
<1> SUFFICES ASSUME IInv, [Next]_vars, NEW v, InHistory(v) PROVE InHistory(v)'
  OBVIOUS
<1>0. TypeOK
  BY DEF IInv
<1>1. ASSUME UNCHANGED History PROVE InHistory(v)'
  BY <1>1 DEF InHistory
<1>2. ASSUME NEW t \in Threads, NEW limit \in BOOLEAN, Call(t, limit) \/ Refuse(t) \/ Return(t)
      PROVE  UNCHANGED History
  BY <1>2 DEF Call, Refuse, Return, History
<1>3. ASSUME NEW p \in Producers, Push(p) PROVE InHistory(v)'
  <2>1. History \in Seq(Items) /\ Value(p) \in Items
    BY <1>0, <1>3 DEF TypeOK, History, Items, Value
  <2>2. History' = Append(History, Value(p))
    BY <1>0, <1>3, <2>1, AppendRight DEF Push, History, TypeOK
  <2> QED BY <2>1, <2>2, AppendHolds DEF InHistory
<1>4. ASSUME NEW c \in Consumers, Pop(c) PROVE UNCHANGED History
  BY <1>0, <1>4, MoveBorder, QueueAssumption DEF Pop, Ready, History, TypeOK
<1>5. CASE UNCHANGED vars
  BY <1>1, <1>5 DEF vars, History
<1> QED BY <1>1, <1>2, <1>3, <1>4, <1>5 DEF Next

\* The thread is in calls while it runs.
LEMMA BusyStep == RInv /\ References /\ [RenderNext]_allVars => Busy'
<1> SUFFICES ASSUME RInv, References, [RenderNext]_allVars PROVE Busy'
  OBVIOUS
<1>0. Busy /\ IInv /\ TypeOK
  BY DEF RInv, IInv, References
<1> USE OneConsumer DEF Busy, Stages, Threads
<1>1. ASSUME stage'[Render] = stage[Render], thread' = thread PROVE Busy'
  BY <1>0, <1>1
<1>2. ASSUME NEW p \in Producers, Send(p) \/ Wait(p) \/ Create(p) \/ ClientPush(p)
             \/ ClientRefuse(p) \/ Pushed(p) \/ PushThrows(p)
      PROVE  stage'[Render] = stage[Render] /\ thread' = thread
  <2>1. thread' = thread
    BY <1>2 DEF Send, Wait, Create, ClientPush, ClientRefuse, Pushed, PushThrows, serverVars
  <2>2. \E s \in Stages : Goto(p, s)
    BY <1>2 DEF Send, Wait, Create, PushItem, ClientPush, ClientRefuse, Pushed, PushThrows,
                Call, Push, Refuse, Return
  <2> QED BY <2>1, <2>2, StageOf
<1>3. ASSUME NEW p \in Producers, Wake(p) \/ Expire(p) \/ DropHandle(p) \/ DropProxy(p)
      PROVE  stage'[Render] = stage[Render] /\ thread' = thread
  BY <1>3 DEF Wake, Expire, DropHandle, DropProxy, LetGo, vars
<1>4. ASSUME NEW p \in Producers, Join(p) PROVE Busy'
  BY <1>0, <1>4 DEF Join, vars
<1>5. CASE LoopTest
  BY <1>5 DEF LoopTest, serverVars
<1>6. CASE TakeCommand \/ NoCommand \/ EndIteration
  <2>1. thread' = thread /\ stage[Render] # "idle"
    BY <1>6 DEF TakeCommand, NoCommand, EndIteration, Pop, Refuse, Return, serverVars
  <2> QED BY <1>0, <2>1
<1>7. CASE ProcessCommands \/ UNCHANGED allVars
  BY <1>0, <1>7 DEF ProcessCommands, allVars, vars, serverVars
<1>8. CASE Stop
  BY <1>8 DEF Stop, vars
<1> QED BY <1>1, <1>2, <1>3, <1>4, <1>5, <1>6, <1>7, <1>8 DEF RenderNext, Running

\* What becomes of connections: the thread makes them, clients take them.
LEMMA MadeStep == RInv /\ References /\ [RenderNext]_allVars => Made'
<1> SUFFICES ASSUME RInv, References, [RenderNext]_allVars PROVE Made'
  OBVIOUS
<1>0. /\ Made /\ IInv /\ RTypes
      /\ \A v : InHistory(v) => InHistory(v)'
  BY RenderStepIsQueueStep, HistoryGrows DEF RInv, References
<1>1. ASSUME UNCHANGED <<returned, processed, result>> PROVE Made'
  BY <1>0, <1>1 DEF Made
<1>2. ASSUME NEW p \in Producers, Wake(p) PROVE Made'
  <2>1. /\ UNCHANGED <<processed, result>>
        /\ returned' = returned
             \/ (returned' = returned \cup {creation[p]} /\ creation[p] # None
                 /\ result[creation[p]] = "made")
    BY <1>2 DEF Wake
  <2>2. creation[p] # None => creation[p] \in AllItems
    BY <1>0 DEF RTypes
  <2> QED BY <1>0, <2>1, <2>2 DEF Made
<1>3. CASE ProcessCommands
  <2>1. /\ processed' = processed \cup {Command} /\ Command \notin processed
        /\ UNCHANGED returned /\ Command \in AllItems
    BY <1>3, CommandFacts DEF ProcessCommands, clientVars
  <2>2. result' = result \/ \E r \in {"made", "failed"} : result' = [result EXCEPT ![Command] = r]
    BY <1>3 DEF ProcessCommands
  <2>3. InHistory(Command)
    BY <1>0, <1>3, CommandFacts, HistoryFacts DEF ProcessCommands, InHistory, RInv, InOrder
  <2>4. \A c \in AllItems : c # Command => result'[c] = result[c]
    BY <1>0, <2>2 DEF RTypes
  <2>5. Command \notin returned
    BY <1>0, <2>1 DEF Made
  <2>6. /\ \A c \in processed' : InHistory(c)'
        /\ \A c \in AllItems : result'[c] = "made" => c \in processed'
        /\ \A c \in returned' : result'[c] = "made"
    BY <1>0, <2>1, <2>3, <2>4, <2>5 DEF Made
  <2> QED BY <1>0, <2>1, <2>6 DEF Made
<1>4. ASSUME NEW p \in Producers,
             Send(p) \/ Wait(p) \/ Create(p) \/ ClientPush(p) \/ ClientRefuse(p) \/ Pushed(p)
               \/ PushThrows(p) \/ Expire(p) \/ DropHandle(p) \/ DropProxy(p) \/ Join(p)
      PROVE  UNCHANGED <<returned, processed, result>>
  BY <1>4 DEF Send, Wait, Create, ClientPush, ClientRefuse, Pushed, PushThrows, Expire,
              DropHandle, DropProxy, LetGo, Join, clientVars, serverVars
<1>5. CASE LoopTest \/ TakeCommand \/ NoCommand \/ EndIteration \/ Stop \/ UNCHANGED allVars
  <2>1. UNCHANGED <<returned, processed, result>>
    BY <1>5 DEF LoopTest, TakeCommand, NoCommand, EndIteration, Stop, allVars,
                clientVars, serverVars
  <2> QED BY <1>1, <2>1
<1> QED BY <1>1, <1>2, <1>3, <1>4, <1>5 DEF RenderNext, Running

\* A client waits for a connection nobody has yet.
LEMMA ReferringStep == RInv /\ References /\ [RenderNext]_allVars => Referring'
<1> SUFFICES ASSUME RInv, References, [RenderNext]_allVars PROVE Referring'
  OBVIOUS
<1>0. Referring /\ Made /\ IInv /\ RTypes
  BY DEF RInv, References
<1>1. ASSUME UNCHANGED <<returned, proxy, creation>> PROVE Referring'
  BY <1>0, <1>1 DEF Referring
<1>2. ASSUME NEW p \in Producers, Create(p) PROVE Referring'
  <2>1. /\ UNCHANGED <<returned, proxy>> /\ proxy[p] = None
        /\ creation' = [creation EXCEPT ![p] = NextItem(p)] /\ calls[p] < MaxCalls
    BY <1>2 DEF Create, PushItem, Call
  <2>2. NextItem(p) \notin returned
    <3>1. NextItem(p) = <<p, calls[p] + 1>> /\ NextItem(p) \in AllItems /\ calls[p] \in Nat
          /\ calls[p] + 1 \in 1..MaxCalls
      BY <2>1, Numbers, QueueAssumption DEF AllItems
    <3>2. NextItem(p) \notin processed
      BY <3>1 DEF RInv, PushedBefore
    <3> QED BY <1>0, <3>1, <3>2 DEF Made
  <2> QED BY <1>0, <2>1, <2>2 DEF Referring, RTypes
<1>3. ASSUME NEW p \in Producers, PushThrows(p) \/ Expire(p) PROVE Referring'
  <2>1. UNCHANGED <<returned, proxy>> /\ creation' = [creation EXCEPT ![p] = None]
    BY <1>3 DEF PushThrows, Expire, GiveUp
  <2> QED BY <1>0, <2>1 DEF Referring, RTypes
<1>4. ASSUME NEW p \in Producers, Wake(p) PROVE Referring'
  <2>1. /\ creation' = [creation EXCEPT ![p] = None]
        /\ UNCHANGED <<returned, proxy>>
             \/ (/\ creation[p] # None
                 /\ returned' = returned \cup {creation[p]}
                 /\ proxy' = [proxy EXCEPT ![p] = creation[p]])
    BY <1>4 DEF Wake, GiveUp
  <2>2. \A q \in Producers : q # p /\ creation[q] # None => creation[q] # creation[p]
    BY DEF RInv, Creations
  <2> QED BY <1>0, <2>1, <2>2 DEF Referring, RTypes
<1>5. ASSUME NEW p \in Producers, DropProxy(p) PROVE Referring'
  <2>1. UNCHANGED <<returned, creation>> /\ proxy' = [proxy EXCEPT ![p] = None]
    BY <1>5 DEF DropProxy, LetGo
  <2> QED BY <1>0, <2>1 DEF Referring, RTypes
<1>6. ASSUME NEW p \in Producers,
             Send(p) \/ Wait(p) \/ ClientPush(p) \/ ClientRefuse(p) \/ Pushed(p)
               \/ DropHandle(p) \/ Join(p)
      PROVE  UNCHANGED <<returned, proxy, creation>>
  BY <1>6 DEF Send, Wait, ClientPush, ClientRefuse, Pushed, DropHandle, LetGo, Join,
              clientVars, serverVars
<1>7. CASE Running \/ UNCHANGED allVars
  <2>1. UNCHANGED <<returned, proxy, creation>>
    BY <1>7 DEF Running, LoopTest, TakeCommand, NoCommand, ProcessCommands, EndIteration, Stop,
                allVars, clientVars
  <2> QED BY <1>1, <2>1
<1> QED BY <1>1, <1>2, <1>3, <1>4, <1>5, <1>6, <1>7 DEF RenderNext

\* An item keeps what its client has put into it.
LEMMA ItemKept ==
  RInv /\ [RenderNext]_allVars =>
    \A p \in Producers, n \in 1..MaxCalls :
      n <= calls[p] => item'[<<p, n>>] = item[<<p, n>>] /\ n <= calls'[p]
<1> SUFFICES ASSUME RInv, [RenderNext]_allVars, NEW p \in Producers, NEW n \in 1..MaxCalls,
                    n <= calls[p]
             PROVE  item'[<<p, n>>] = item[<<p, n>>] /\ n <= calls'[p]
  OBVIOUS
<1>0. RTypes /\ TypeOK /\ calls[p] \in Nat
  BY Numbers DEF RInv, IInv
<1>1. ASSUME NEW q \in Producers, Send(q) \/ Wait(q) \/ Create(q)
      PROVE  item'[<<p, n>>] = item[<<p, n>>] /\ n <= calls'[p]
  <2>1. /\ calls' = [calls EXCEPT ![q] = @ + 1]
        /\ \E v : item' = [item EXCEPT ![<<q, calls[q] + 1>>] = v]
    BY <1>1 DEF Send, Wait, Create, PushItem, Call, NextItem
  <2>2. <<p, n>> # <<q, calls[q] + 1>>
    BY <1>0
  <2>3. <<p, n>> \in DOMAIN item
    BY <1>0 DEF RTypes, AllItems
  <2> QED BY <1>0, <2>1, <2>2, <2>3 DEF TypeOK
<1>2. ASSUME NEW q \in Producers,
             ClientPush(q) \/ ClientRefuse(q) \/ Pushed(q) \/ PushThrows(q) \/ Wake(q)
               \/ Expire(q) \/ DropHandle(q) \/ DropProxy(q) \/ Join(q)
      PROVE  UNCHANGED <<item, calls>>
  BY <1>2 DEF ClientPush, ClientRefuse, Pushed, PushThrows, Wake, Expire, DropHandle, DropProxy,
              LetGo, Join, Push, Refuse, Return, clientVars, vars
<1>3. CASE Running \/ UNCHANGED allVars
  <2>1. UNCHANGED <<item, calls>>
    BY <1>3, OneConsumer DEF Running, LoopTest, TakeCommand, NoCommand, ProcessCommands,
                EndIteration, Stop, Call, Pop, Refuse, Return, allVars, vars, clientVars
  <2> QED BY <2>1
<1> QED BY <1>1, <1>2, <1>3 DEF RenderNext

\* A client's commands are addressed to its own connection.
LEMMA AddressedStep == RInv /\ References /\ [RenderNext]_allVars => Addressed'
<1> SUFFICES ASSUME RInv, References, [RenderNext]_allVars, NEW p \in Producers
             PROVE  /\ client'[p] = "sending" =>
                         item'[Value(p)'] = [kind |-> "commands", connection |-> proxy'[p]]
                    /\ client'[p] = "creating" => item'[Value(p)'].kind = "creator"
                    /\ client'[p] = "posting" => item'[Value(p)'].kind = "waiter"
                    /\ \A n \in 1..MaxCalls :
                         n <= calls'[p] /\ item'[<<p, n>>].kind = "commands"
                           => item'[<<p, n>>].connection \in returned'
  BY DEF Addressed
<1> DEFINE Right == /\ client[p] = "sending" =>
                         item[Value(p)] = [kind |-> "commands", connection |-> proxy[p]]
                    /\ client[p] = "creating" => item[Value(p)].kind = "creator"
                    /\ client[p] = "posting" => item[Value(p)].kind = "waiter"
           Sound == \A n \in 1..MaxCalls :
                      n <= calls[p] /\ item[<<p, n>>].kind = "commands"
                        => item[<<p, n>>].connection \in returned
<1>0. /\ Right /\ Sound /\ RTypes /\ TypeOK /\ InStep /\ Referring
      /\ calls[p] \in 0..MaxCalls /\ Value(p) = <<p, calls[p]>> /\ MaxCalls \in Nat
      /\ returned \subseteq returned'
      /\ stage[p] # "idle" => calls[p] \in 1..MaxCalls
  <2>1. returned \subseteq returned'
    BY DEF RenderNext, Running, Send, Wait, Create, ClientPush, ClientRefuse, Pushed, PushThrows,
           Wake, Expire, DropHandle, DropProxy, LetGo, Join, LoopTest, TakeCommand, NoCommand,
           ProcessCommands, EndIteration, Stop, allVars, clientVars
  <2> QED BY <2>1, Numbers, QueueAssumption DEF RInv, IInv, References, Addressed
<1>1. ASSUME calls'[p] = calls[p] PROVE Sound'
  BY <1>0, <1>1, ItemKept
<1>2. ASSUME calls'[p] = calls[p], client'[p] = client[p], proxy'[p] = proxy[p]
      PROVE  Right'
  <2>1. Value(p)' = Value(p)
    BY <1>2 DEF Value
  <2>2. client[p] \in {"sending", "creating", "posting"} => item'[Value(p)] = item[Value(p)]
    BY <1>0, ItemKept DEF InStep
  <2> QED BY <1>0, <1>2, <2>1, <2>2
<1>3. ASSUME NEW q \in Producers, q # p, Send(q) \/ Wait(q) \/ Create(q)
      PROVE  calls'[p] = calls[p] /\ client'[p] = client[p] /\ proxy'[p] = proxy[p]
  BY <1>0, <1>3 DEF Send, Wait, Create, PushItem, Call, Become, TypeOK, RTypes
<1>4. CASE Send(p) \/ Wait(p) \/ Create(p)
  <2> DEFINE n == calls[p] + 1
  <2>1. /\ n \in 1..MaxCalls /\ calls'[p] = n /\ Value(p)' = <<p, n>>
        /\ NextItem(p) = <<p, n>> /\ <<p, n>> \in DOMAIN item
    BY <1>0, <1>4, Numbers
       DEF Send, Wait, Create, PushItem, Call, NextItem, Value, TypeOK, RTypes, AllItems
  <2>2. \/ /\ Send(p) /\ item'[<<p, n>>] = [kind |-> "commands", connection |-> proxy[p]]
           /\ client'[p] = "sending" /\ proxy[p] \in returned /\ proxy' = proxy
           /\ proxy[p] \in AllItems
        \/ /\ item'[<<p, n>>] = [kind |-> "waiter", connection |-> None]
           /\ client'[p] = "posting"
        \/ /\ item'[<<p, n>>] = [kind |-> "creator", connection |-> None]
           /\ client'[p] = "creating"
    <3>1. CASE Send(p)
      BY <1>0, <2>1, <3>1 DEF Send, PushItem, Become, RTypes, Referring
    <3>2. CASE Wait(p)
      BY <1>0, <2>1, <3>2 DEF Wait, PushItem, Become, RTypes
    <3>3. CASE Create(p)
      BY <1>0, <2>1, <3>3 DEF Create, PushItem, Become, RTypes
    <3> QED BY <1>4, <3>1, <3>2, <3>3
  <2>3. Right'
    BY <2>1, <2>2
  <2>4. Sound'
    <3> SUFFICES ASSUME NEW i \in 1..MaxCalls, i <= calls'[p], item'[<<p, i>>].kind = "commands"
                 PROVE  item'[<<p, i>>].connection \in returned'
      OBVIOUS
    <3>1. CASE i <= calls[p]
      BY <1>0, <3>1, ItemKept
    <3>2. CASE i = n
      BY <1>0, <2>2, <3>2
    <3> QED BY <1>0, <2>1, <3>1, <3>2
  <2> QED BY <2>3, <2>4
<1>5. ASSUME NEW q \in Producers, ClientPush(q) \/ ClientRefuse(q)
      PROVE  calls' = calls /\ client' = client /\ proxy' = proxy
  BY <1>5 DEF ClientPush, ClientRefuse, Push, Refuse, clientVars
<1>6. ASSUME NEW q \in Producers, Pushed(q) \/ PushThrows(q) \/ Wake(q) \/ Expire(q)
      PROVE  Right' /\ Sound'
  <2>1. /\ calls' = calls
        /\ proxy'[p] = proxy[p] \/ q = p
        /\ \E c \in {"idle", "created", "asleep"} : client' = [client EXCEPT ![q] = c]
    <3>1. CASE Pushed(q)
      BY <3>1 DEF Pushed, Return, Become, RInv, InStep
    <3>2. CASE PushThrows(q) \/ Expire(q)
      BY <3>2 DEF PushThrows, Expire, Return, GiveUp, Become, vars
    <3>3. CASE Wake(q)
      BY <1>0, <3>3 DEF Wake, GiveUp, Become, vars, RTypes
    <3> QED BY <1>6, <3>1, <3>2, <3>3
  <2>2. CASE q = p
    <3>1. client'[p] \notin {"sending", "creating", "posting"}
      BY <1>0, <2>1, <2>2 DEF RTypes
    <3> QED BY <1>1, <2>1, <3>1
  <2>3. CASE q # p
    BY <1>0, <1>1, <1>2, <2>1, <2>3 DEF RTypes
  <2> QED BY <2>2, <2>3
<1>7. ASSUME NEW q \in Producers, DropHandle(q) \/ DropProxy(q) \/ Join(q)
      PROVE  Right' /\ Sound'
  <2>1. /\ calls' = calls
        /\ proxy'[p] = proxy[p] \/ q = p
        /\ client[q] \in {"idle", "joining"}
        /\ client' = client
             \/ \E c \in {"idle", "joining"} : client' = [client EXCEPT ![q] = c]
    BY <1>0, <1>7 DEF DropHandle, DropProxy, Join, LetGo, Become, vars, RTypes
  <2>2. CASE q = p
    <3>1. client'[p] \notin {"sending", "creating", "posting"}
      BY <1>0, <2>1, <2>2 DEF RTypes
    <3> QED BY <1>1, <2>1, <3>1
  <2>3. CASE q # p
    BY <1>0, <1>1, <1>2, <2>1, <2>3 DEF RTypes
  <2> QED BY <2>2, <2>3
<1>8. ASSUME Running \/ UNCHANGED allVars PROVE Right' /\ Sound'
  <2>1. calls' = calls /\ client' = client /\ proxy' = proxy
    BY <1>8, OneConsumer DEF Running, LoopTest, TakeCommand, NoCommand, ProcessCommands,
                EndIteration, Stop, Call, Pop, Refuse, Return, allVars, vars, clientVars
  <2> QED BY <1>1, <1>2, <2>1
<1>9. Right' /\ Sound'
  <2>1. ASSUME NEW q \in Producers, Send(q) \/ Wait(q) \/ Create(q) PROVE Right' /\ Sound'
    BY <1>1, <1>2, <1>3, <1>4, <2>1
  <2>2. ASSUME NEW q \in Producers, ClientPush(q) \/ ClientRefuse(q) PROVE Right' /\ Sound'
    BY <1>1, <1>2, <1>5, <2>2
  <2> HIDE DEF Right, Sound
  <2> QED BY <1>6, <1>7, <1>8, <2>1, <2>2 DEF RenderNext
<1> QED BY <1>9

\* Every step keeps what is known of references.
LEMMA ReferencesStep == RInv /\ References /\ [RenderNext]_allVars => References'
BY BusyStep, MadeStep, ReferringStep, AddressedStep DEF References

-----------------------------------------------------------------------------
\* The items that exist are items of calls that have begun.
LEMMA ExistingOlder ==
  RInv /\ References =>
    /\ Existing \subseteq AllItems
    /\ \A p \in Producers, n \in 1..MaxCalls : <<p, n>> \in Existing => n <= calls[p]
<1> SUFFICES ASSUME RInv, References, NEW i \in Existing
             PROVE  /\ i \in AllItems
                    /\ \A p \in Producers, n \in 1..MaxCalls : i = <<p, n>> => n <= calls[p]
  OBVIOUS
<1>1. CASE InPush(i)
  BY <1>1, Numbers DEF InPush
<1>2. CASE i \in Queued
  BY <1>2, QueuedFacts, Numbers
<1>3. CASE stage[Render] = "done" /\ i = Command
  BY <1>3, CommandFacts
<1> QED BY <1>1, <1>2, <1>3 DEF Existing, InPush

\* A call of a client adds its item.
LEMMA ExistingCall ==
  ASSUME RInv, References, (RInv /\ References)',
         NEW p \in Producers, Send(p) \/ Wait(p) \/ Create(p)
  PROVE  Existing' = Existing \cup {NextItem(p)} /\ NextItem(p) \notin Existing
<1>1. /\ UNCHANGED <<delivered, History, thread>> /\ stage[p] = "idle"
      /\ calls' = [calls EXCEPT ![p] = @ + 1] /\ Goto(p, "waiting") /\ calls[p] < MaxCalls
  BY DEF Send, Wait, Create, PushItem, Call, History, serverVars
<1>2. /\ stage'[p] = "waiting" /\ \A t \in Threads \ {p} : stage'[t] = stage[t]
      /\ Render \in Threads \ {p} /\ Producers \subseteq Threads
  BY <1>1, Numbers, OneConsumer, StageOf DEF Stages, Threads
<1>3. thread # "destroyed"
  BY DEF Send, Wait, Create, RInv, Owned, Holders
<1>4. Value(p)' = NextItem(p) /\ \A q \in Producers \ {p} : Value(q)' = Value(q)
  BY <1>1 DEF Value, NextItem, RInv, IInv, TypeOK
<1>5. \A i : Remaining(i)' <=> Remaining(i)
  BY <1>1, <1>2 DEF Remaining
<1>6. \A i : InPush(i)' <=> InPush(i) \/ i = NextItem(p)
  BY <1>1, <1>2, <1>4 DEF InPush
<1>7. NextItem(p) \notin Existing
  BY <1>1, ExistingOlder, Numbers, QueueAssumption
<1> QED BY <1>1, <1>3, <1>5, <1>6, <1>7, ExistingIs, ExistingIsThen

\* An item moves from its call into the queue, or stays with the call.
LEMMA ExistingMoved ==
  ASSUME RInv, References, (RInv /\ References)', NEW p \in Producers,
         ClientPush(p) \/ ClientRefuse(p) \/ Pushed(p)
  PROVE  Existing' = Existing
<1>0. /\ Render \in Threads \ {p} /\ Producers \subseteq Threads
      /\ p \in Threads /\ IInv /\ thread' = thread
      /\ \A q \in Producers : Value(q)' = Value(q)
  BY Numbers, OneConsumer
     DEF RInv, Threads, ClientPush, ClientRefuse, Pushed, Push, Refuse, Return, Value, serverVars
<1>1. CASE ClientPush(p)
  <2>1. /\ delivered' = delivered /\ History' = Append(History, Value(p))
        /\ stage[p] = "waiting" /\ stage'[p] = "done"
        /\ \A t \in Threads \ {p} : stage'[t] = stage[t]
    BY <1>0, <1>1, AppendRight, StageOf, Numbers
       DEF ClientPush, Push, History, IInv, TypeOK, Items, Value, Stages
  <2>2. /\ Len(History') = Len(History) + 1 /\ History'[Len(History) + 1] = Value(p)
        /\ \A k \in 1..Len(History) : History'[k] = History[k]
        /\ Len(delivered) <= Len(History) /\ Len(delivered) \in Nat /\ Len(History) \in Nat
    BY <1>0, <2>1, HistoryFacts, AppendIndex
  <2>3. \A i : Remaining(i)' <=> Remaining(i) \/ i = Value(p)
    <3> SUFFICES ASSUME NEW i PROVE Remaining(i)' <=> Remaining(i) \/ i = Value(p)
      OBVIOUS
    <3>1. Remaining(i)' => Remaining(i) \/ i = Value(p)
      BY <1>0, <2>1, <2>2 DEF Remaining
    <3>2. Remaining(i) => Remaining(i)'
      BY <1>0, <2>1, <2>2 DEF Remaining
    <3>3. i = Value(p) => Remaining(i)'
      <4>1. Len(History) + 1 \in 1..Len(History') /\ Len(History) + 1 > Len(delivered')
        BY <2>1, <2>2
      <4> QED BY <2>2, <4>1 DEF Remaining
    <3> QED BY <3>1, <3>2, <3>3
  <2>4. \A i : InPush(i) <=> InPush(i)' \/ i = Value(p)
    BY <1>0, <2>1 DEF InPush
  <2>5. \A i : Remaining(i)' \/ InPush(i)' <=> Remaining(i) \/ InPush(i)
    BY <2>3, <2>4
  <2> QED BY <1>0, <2>5, ExistingIs, ExistingIsThen
<1>2. CASE ClientRefuse(p) \/ Pushed(p)
  <2>1. /\ UNCHANGED <<delivered, History>>
        /\ stage'[p] \in {"waiting", "refused"} <=> stage[p] \in {"waiting", "refused"}
        /\ \A t \in Threads \ {p} : stage'[t] = stage[t]
    BY <1>0, <1>2, StageOf DEF ClientRefuse, Pushed, Refuse, Return, History, Stages
  <2>2. \A i : InPush(i)' <=> InPush(i)
    BY <1>0, <2>1 DEF InPush
  <2>3. \A i : Remaining(i)' <=> Remaining(i)
    BY <1>0, <2>1 DEF Remaining
  <2> QED BY <1>0, <2>2, <2>3, ExistingIs, ExistingIsThen
<1> QED BY <1>1, <1>2

\* An item whose push failed is in no queue and is gone when the call ends.
LEMMA ExistingThrown ==
  ASSUME RInv, References, (RInv /\ References)', NEW p \in Producers, PushThrows(p)
  PROVE  /\ Existing' = Existing \ {Value(p)} /\ Value(p) \in Existing
         /\ Value(p) \in AllItems /\ Value(p) \notin processed
<1>1. /\ UNCHANGED <<delivered, History, thread, calls>> /\ stage[p] = "refused" /\ Goto(p, "idle")
  BY DEF PushThrows, Return, History
<1>2. /\ stage'[p] = "idle" /\ \A t \in Threads \ {p} : stage'[t] = stage[t]
      /\ Render \in Threads \ {p} /\ Producers \subseteq Threads
      /\ Value(p) = <<p, calls[p]>> /\ calls[p] \in 1..MaxCalls /\ Value(p) \in AllItems
  BY <1>1, Numbers, OneConsumer, StageOf DEF Stages, Threads
<1>3. ~InHistory(Value(p))
  BY <1>1, <1>2, HistoryFacts DEF Truthful, RInv, InStep
<1>4. Value(p) \notin processed
  BY <1>3 DEF References, Made
<1>5. thread # "destroyed"
  BY <1>1, Quiet DEF RInv, Owned
<1>6. \A i : Remaining(i)' <=> Remaining(i)
  BY <1>1, <1>2 DEF Remaining
<1>7. ~Remaining(Value(p))
  BY <1>3 DEF Remaining, InHistory
<1>8. \A i : InPush(i)' <=> InPush(i) /\ i # Value(p)
  BY <1>1, <1>2 DEF InPush, Value
<1>9. InPush(Value(p))
  BY <1>1 DEF InPush
<1> QED BY <1>1, <1>2, <1>4, <1>5, <1>6, <1>7, <1>8, <1>9, ExistingIs, ExistingIsThen

\* The thread takes an item over from the queue, and keeps it until it is done.
LEMMA ExistingInHand ==
  ASSUME RInv, References, (RInv /\ References)',
         LoopTest \/ TakeCommand \/ NoCommand \/ ProcessCommands \/ Stop
  PROVE  Existing' = Existing
<1>0. /\ Render \in Threads /\ Render \notin Producers /\ Producers \subseteq Threads /\ IInv
      /\ TypeOK
  BY OneConsumer DEF RInv, Threads, IInv
<1>1. ASSUME UNCHANGED <<calls, thread>>, \A p \in Producers : stage'[p] = stage[p],
             \A i : Remaining(i)' <=> Remaining(i)
      PROVE  Existing' = Existing
  <2>1. \A i : InPush(i)' <=> InPush(i)
    BY <1>1 DEF InPush, Value
  <2> QED BY <1>1, <2>1, ExistingIs, ExistingIsThen
<1>2. CASE LoopTest \/ NoCommand
  <2>1. /\ UNCHANGED <<calls, thread, delivered, History>>
        /\ stage[Render] # "done" /\ stage'[Render] # "done"
        /\ \A t \in Threads \ {Render} : stage'[t] = stage[t]
    BY <1>0, <1>2, StageOf
       DEF LoopTest, NoCommand, Call, Refuse, Return, History, serverVars, Stages
  <2> QED BY <1>0, <1>1, <2>1 DEF Remaining
<1>3. CASE TakeCommand
  <2>1. /\ UNCHANGED <<calls, thread>> /\ queue # <<>>
        /\ stage[Render] = "waiting" /\ stage'[Render] = "done"
        /\ \A t \in Threads \ {Render} : stage'[t] = stage[t]
        /\ delivered' = Append(delivered, Head(queue))
    BY <1>0, <1>3, StageOf DEF TakeCommand, Pop, Ready, serverVars, Stages
  <2>2. History' = History
    BY <1>0, <1>3, <2>1, MoveBorder DEF TakeCommand, Pop, History, TypeOK
  <2>3. Len(delivered') = Len(delivered) + 1 /\ Len(delivered) \in Nat
    BY <1>0, <2>1, HistoryFacts, AppendIndex
  <2>4. \A i : Remaining(i)' <=> Remaining(i)
    BY <1>0, <2>1, <2>2, <2>3, HistoryFacts DEF Remaining
  <2> QED BY <1>0, <1>1, <2>1, <2>4
<1>4. CASE ProcessCommands
  BY <1>4 DEF ProcessCommands, vars, Existing, Queued, Command, Value
<1>5. CASE Stop
  BY <1>5 DEF Stop, vars, Existing, Queued, Command, Value
<1> QED BY <1>2, <1>3, <1>4, <1>5

\* The item in the thread's hand is nowhere else.
LEMMA ExistingEnded ==
  ASSUME RInv, References, (RInv /\ References)', EndIteration
  PROVE  Existing' = Existing \ {Command} /\ Command \in Existing /\ Command \in AllItems
<1>1. /\ UNCHANGED <<calls, thread, delivered, History>> /\ stage[Render] = "done"
      /\ Goto(Render, "idle")
  BY DEF EndIteration, Return, History
<1>2. /\ stage'[Render] = "idle" /\ \A t \in Threads \ {Render} : stage'[t] = stage[t]
      /\ Render \notin Producers /\ Producers \subseteq Threads
  BY <1>1, OneConsumer, StageOf DEF Stages, Threads
<1>3. /\ Command \in AllItems /\ Len(delivered) \in 1..Len(History)
      /\ Command = History[Len(delivered)]
      /\ \A k \in 1..Len(History) : History[k] = Command => k = Len(delivered)
  BY <1>1, CommandFacts, HistoryFacts DEF RInv, InOrder
<1>4. thread # "destroyed"
  BY <1>1 DEF References, Busy
<1>5. \A i : Remaining(i)' <=> Remaining(i) /\ i # Command
  BY <1>1, <1>2, <1>3 DEF Remaining
<1>6. \A i : InPush(i)' <=> InPush(i)
  BY <1>1, <1>2 DEF InPush, Value
<1>7. ~InPush(Command)
  <2> SUFFICES ASSUME NEW p \in Producers, stage[p] \in {"waiting", "refused"}, Command = Value(p)
               PROVE  FALSE
    BY DEF InPush
  <2>1. InHistory(Value(p)) /\ Value(p) = <<p, calls[p]>> /\ calls[p] \in 1..MaxCalls
    BY <1>3, Numbers DEF InHistory
  <2> QED BY <2>1, HistoryFacts DEF Truthful, RInv, InStep
<1>8. Command \in Existing
  BY <1>1, <1>4 DEF Existing
<1> QED BY <1>1, <1>3, <1>4, <1>5, <1>6, <1>7, <1>8, ExistingIs, ExistingIsThen

\* With the thread the queue goes, and nothing else is left then.
LEMMA ExistingJoined ==
  ASSUME RInv, References, (RInv /\ References)', NEW p \in Producers, Join(p)
  PROVE  Existing' = {} /\ Existing = Queued
<1>1. thread' = "destroyed" /\ thread = "ended" /\ stop_request
  BY DEF Join, RInv, Owned
<1>2. stage[Render] # "done" /\ \A q \in Producers : stage[q] = "idle"
  BY <1>1, Quiet DEF References, Busy
<1>3. Existing' = {}
  BY <1>1, ExistingIsThen
<1> QED BY <1>1, <1>2, <1>3 DEF Existing

-----------------------------------------------------------------------------
\* The four kinds of references ConnectionsCounted counts.
Proxies(c) == {p \in Producers : proxy[p] = c}
Sent(c)    == {i \in Existing : item[i].kind = "commands" /\ item[i].connection = c}
Looked(c)  == IF result[c] = "made" /\ (c \in Existing \/ \E p \in Producers : creation[p] = c)
              THEN 1 ELSE 0
Kept(c)    == IF c \in returned THEN 1 ELSE 0

Counted(c) ==
  use_count[c] = Cardinality(Proxies(c)) + Cardinality(Sent(c)) + Looked(c) + Kept(c)

CInv == /\ RInv /\ References
        /\ use_count \in [AllItems -> Nat] /\ \A c \in AllItems : Counted(c)

\* Finitely many clients make finitely many items.
LEMMA AllItemsFinite == IsFiniteSet(AllItems) /\ None \notin AllItems
<1>1. IsFiniteSet(1..MaxCalls)
  BY QueueAssumption, FS_Interval
<1>2. IsFiniteSet(AllItems)
  BY <1>1, RenderThreadAssumption, FS_Product DEF AllItems
<1> QED BY <1>2, RenderThreadAssumption DEF AllItems, Items

\* There are finitely many references of each kind.
LEMMA Finite ==
  RInv /\ References =>
    \A c : /\ IsFiniteSet(Proxies(c)) /\ Cardinality(Proxies(c)) \in Nat
           /\ IsFiniteSet(Sent(c)) /\ Cardinality(Sent(c)) \in Nat
           /\ Looked(c) \in {0, 1} /\ Kept(c) \in {0, 1}
<1> SUFFICES ASSUME RInv, References, NEW c
             PROVE  /\ IsFiniteSet(Proxies(c)) /\ Cardinality(Proxies(c)) \in Nat
                    /\ IsFiniteSet(Sent(c)) /\ Cardinality(Sent(c)) \in Nat
                    /\ Looked(c) \in {0, 1} /\ Kept(c) \in {0, 1}
  OBVIOUS
<1>1. Proxies(c) \in SUBSET Producers /\ Sent(c) \in SUBSET AllItems
  BY ExistingOlder DEF Proxies, Sent
<1>2. IsFiniteSet(Proxies(c)) /\ IsFiniteSet(Sent(c))
  BY <1>1, AllItemsFinite, RenderThreadAssumption, FS_Subset
<1> QED BY <1>2, FS_CardinalityType DEF Looked, Kept

\* The same after a step.
LEMMA FiniteThen ==
  (RInv /\ References)' =>
    \A c : /\ Cardinality(Proxies(c))' \in Nat /\ Cardinality(Sent(c))' \in Nat
           /\ Looked(c)' \in {0, 1} /\ Kept(c)' \in {0, 1}
<1>1. (RInv /\ References =>
        \A c : /\ IsFiniteSet(Proxies(c)) /\ Cardinality(Proxies(c)) \in Nat
               /\ IsFiniteSet(Sent(c)) /\ Cardinality(Sent(c)) \in Nat
               /\ Looked(c) \in {0, 1} /\ Kept(c) \in {0, 1})'
  BY Finite, PTL
<1> QED BY <1>1

\* What commands are sent to a connection changes with the items that exist.
LEMMA SentChange ==
  ASSUME RInv, References, [RenderNext]_allVars, NEW i, NEW c
  PROVE  /\ Existing' = Existing => Sent(c)' = Sent(c)
         /\ Existing' = Existing \ {i} => Sent(c)' = Sent(c) \ {i}
         /\ Existing' = Existing \cup {i} =>
              Sent(c)' = Sent(c) \cup {j \in {i} : item'[j].kind = "commands"
                                                   /\ item'[j].connection = c}
<1>1. \A j \in Existing : item'[j] = item[j]
  BY ExistingOlder, ItemKept DEF AllItems
<1> QED BY <1>1 DEF Sent

\* A step that leaves the items and the references alone keeps the counts right.
LEMMA CountSame ==
  ASSUME CInv, (RInv /\ References)', [RenderNext]_allVars, Existing' = Existing,
         UNCHANGED <<use_count, proxy, result, creation, returned>>, NEW c \in AllItems
  PROVE  Counted(c)'
<1>1. Sent(c)' = Sent(c)
  BY SentChange DEF CInv
<1>2. Proxies(c)' = Proxies(c) /\ Looked(c)' = Looked(c) /\ Kept(c)' = Kept(c)
  BY DEF Proxies, Looked, Kept
<1> QED BY <1>1, <1>2 DEF Counted, CInv

\* A call of a client: its commands refer to the connection, nothing else does.
LEMMA CountCall ==
  ASSUME CInv, (RInv /\ References)', [RenderNext]_allVars, NEW p \in Producers,
         Send(p) \/ Wait(p) \/ Create(p), NEW c \in AllItems
  PROVE  Counted(c)'
<1> DEFINE n == NextItem(p)
           more == {j \in {n} : item'[j].kind = "commands" /\ item'[j].connection = c}
<1>0. RInv /\ References /\ RTypes /\ Made /\ Referring
  BY DEF CInv, RInv, References
<1>1. Existing' = Existing \cup {n} /\ n \notin Existing
  BY <1>0, ExistingCall
<1>2. Sent(c)' = Sent(c) \cup more
  BY <1>0, <1>1, SentChange
<1>3. /\ n \in AllItems /\ n = <<p, calls[p] + 1>> /\ calls[p] + 1 \in 1..MaxCalls
      /\ calls[p] \in Nat
  BY <1>0, Numbers, QueueAssumption DEF Send, Wait, Create, PushItem, Call
<1>4. UNCHANGED <<proxy, result, returned>>
  BY DEF Send, Wait, Create, serverVars
<1>5. n \notin processed /\ result[n] # "made"
  <2>1. n \notin processed
    BY <1>3 DEF CInv, RInv, PushedBefore
  <2> QED BY <1>0, <1>3, <2>1 DEF Made
<1>6. creation' = creation \/ (creation' = [creation EXCEPT ![p] = n] /\ creation[p] = None)
  <2>1. client[p] = "idle" => creation[p] = None
    BY DEF CInv, RInv, Creations, Awaited
  <2> QED BY <2>1 DEF Send, Wait, Create
<1>7. Looked(c)' = Looked(c)
  <2>1. c # n => (c \in Existing' <=> c \in Existing)
    BY <1>1
  <2>2. c # n => ((\E q \in Producers : creation'[q] = c) <=> (\E q \in Producers : creation[q] = c))
    <3>1. None \notin AllItems
      BY RenderThreadAssumption DEF AllItems, Items
    <3> QED BY <1>0, <1>6, <3>1 DEF RTypes
  <2> QED BY <1>4, <1>5, <2>1, <2>2 DEF Looked
<1>8. Proxies(c)' = Proxies(c) /\ Kept(c)' = Kept(c)
  BY <1>4 DEF Proxies, Kept
<1>9. CASE Send(p) /\ c = proxy[p]
  <2>1. item'[n] = [kind |-> "commands", connection |-> c]
    BY <1>0, <1>3, <1>9 DEF Send, PushItem, RTypes
  <2>2. more = {n} /\ n \notin Sent(c)
    BY <1>1, <2>1 DEF Sent
  <2>3. Cardinality(Sent(c)') = Cardinality(Sent(c)) + 1
    <3>1. Sent(c)' = Sent(c) \cup {n}
      BY <1>2, <2>2
    <3>2. IsFiniteSet(Sent(c))
      BY <1>0, Finite
    <3> HIDE DEF n
    <3> QED BY <2>2, <3>1, <3>2, FS_AddElement
  <2>4. use_count'[c] = use_count[c] + 1
    BY <1>9 DEF Send, CInv
  <2> QED BY <1>0, <1>7, <1>8, <2>3, <2>4, Finite DEF Counted, CInv
<1>10. CASE ~(Send(p) /\ c = proxy[p])
  <2>1. item'[n].kind = "commands" => item'[n].connection # c
    <3>1. CASE Send(p)
      BY <1>0, <1>3, <1>10, <3>1 DEF Send, PushItem, RTypes
    <3>2. CASE Wait(p)
      BY <1>0, <1>3, <3>2 DEF Wait, PushItem, RTypes
    <3>3. CASE Create(p)
      BY <1>0, <1>3, <3>3 DEF Create, PushItem, RTypes
    <3> QED BY <3>1, <3>2, <3>3
  <2>2. Sent(c)' = Sent(c)
    BY <1>2, <2>1
  <2>3. use_count'[c] = use_count[c]
    BY <1>10 DEF Send, Wait, Create, serverVars, CInv
  <2> QED BY <1>7, <1>8, <2>2, <2>3 DEF Counted, CInv
<1> QED BY <1>9, <1>10

\* A client that stops waiting no longer looks at the result.
LEMMA GivenUp ==
  ASSUME CInv, NEW p \in Producers, creation' = [creation EXCEPT ![p] = None],
         UNCHANGED <<result, returned>>, NEW c \in AllItems,
         result[c] = "made" => (c \in Existing' <=> c \in Existing)
  PROVE  /\ c # creation[p] => Looked(c)' = Looked(c)
         /\ c = creation[p] =>
              /\ Looked(c) = IF result[c] = "made" THEN 1 ELSE 0
              /\ Looked(c)' = IF result[c] = "made" /\ c \in Existing THEN 1 ELSE 0
<1>1. c # None /\ RTypes
  BY RenderThreadAssumption DEF AllItems, Items, CInv, RInv
<1>2. \A q \in Producers : q # p /\ creation[q] # None => creation[q] # creation[p]
  BY DEF CInv, RInv, Creations
<1>4. c # creation[p] =>
        ((\E q \in Producers : creation'[q] = c) <=> (\E q \in Producers : creation[q] = c))
  BY <1>1 DEF RTypes
<1>5. c = creation[p] => ~ \E q \in Producers : creation'[q] = c
  BY <1>1, <1>2 DEF RTypes
<1> QED BY <1>4, <1>5 DEF Looked

\* Pending says whether the creator a client waits for exists.
LEMMA PendingIs ==
  ASSUME CInv, NEW p \in Producers, client[p] \in {"posting", "asleep"}, creation[p] # None
  PROVE  Pending(p) <=> creation[p] \in Existing
<1>0. RInv /\ References /\ DOMAIN History = 1..Len(History)
  BY HistoryFacts DEF CInv, RInv
<1>1. PICK n \in 1..MaxCalls : creation[p] = <<p, n>> /\ n < calls[p]
  BY <1>0 DEF RInv, Creations, Awaited
<1>2. ~InPush(creation[p])
  BY <1>0, <1>1, Numbers DEF InPush
<1>3. thread # "destroyed"
  BY <1>0, Quiet DEF RInv, Owned
<1>4. Pending(p) <=> Remaining(creation[p])
  <2>1. Len(delivered) \in Nat
    BY <1>0 DEF RInv, IInv, TypeOK
  <2> QED BY <1>0, <2>1 DEF Pending, Remaining
<1> QED BY <1>0, <1>2, <1>3, <1>4, ExistingIs

\* A Result that is forgotten is released, now or when its item is destroyed.
LEMMA CountForgotten ==
  ASSUME CInv, NEW p \in Producers, client[p] \in {"posting", "asleep"},
         creation' = [creation EXCEPT ![p] = None],
         use_count' = IF Pending(p) THEN use_count ELSE ForgetResult(p),
         UNCHANGED <<proxy, result, returned>>,
         NEW c \in AllItems, Sent(c)' = Sent(c),
         result[c] = "made" => (c \in Existing' <=> c \in Existing)
  PROVE  Counted(c)'
<1>0. Proxies(c)' = Proxies(c) /\ Kept(c)' = Kept(c) /\ RInv /\ References
  BY DEF Proxies, Kept, CInv
<1>1. creation[p] # None => creation[p] \in AllItems
  BY <1>0 DEF RInv, RTypes
<1>2. CASE c # creation[p]
  <2>1. use_count'[c] = use_count[c]
    BY <1>1, <1>2 DEF ForgetResult, CInv
  <2> QED BY <1>0, <1>2, <2>1, GivenUp DEF Counted, CInv
<1>3. CASE c = creation[p]
  <2>1. creation[p] # None /\ (Pending(p) <=> c \in Existing)
    BY <1>3, AllItemsFinite, PendingIs
  <2>2. use_count'[c] = IF result[c] = "made" /\ c \notin Existing THEN use_count[c] - 1
                                                                ELSE use_count[c]
    BY <1>3, <2>1 DEF ForgetResult, CInv
  <2>3. Looked(c)' = IF result[c] = "made" /\ c \notin Existing THEN Looked(c) - 1 ELSE Looked(c)
    <3>1. /\ Looked(c) = IF result[c] = "made" THEN 1 ELSE 0
          /\ Looked(c)' = IF result[c] = "made" /\ c \in Existing THEN 1 ELSE 0
      BY <1>3, GivenUp
    <3> QED BY <3>1
  <2> QED BY <1>0, <2>2, <2>3, Finite DEF Counted, CInv
<1> QED BY <1>2, <1>3

\* A push that throws destroys its item with what it refers to.
LEMMA CountThrown ==
  ASSUME CInv, (RInv /\ References)', [RenderNext]_allVars, NEW p \in Producers,
         PushThrows(p), NEW c \in AllItems
  PROVE  Counted(c)'
<1>0. RInv /\ References /\ RTypes /\ Made /\ Addressed /\ InStep
  BY DEF CInv, RInv, References
<1>1. /\ Existing' = Existing \ {Value(p)} /\ Value(p) \in Existing
      /\ Value(p) \in AllItems /\ result[Value(p)] # "made"
  BY <1>0, ExistingThrown DEF Made
<1>2. /\ creation' = [creation EXCEPT ![p] = None] /\ UNCHANGED <<proxy, result, returned>>
      /\ client[p] \in {"sending", "creating", "posting"}
      /\ result[c] = "made" => (c \in Existing' <=> c \in Existing)
  BY <1>0, <1>1 DEF PushThrows, GiveUp, InStep
<1>3. Proxies(c)' = Proxies(c) /\ Kept(c)' = Kept(c)
  BY <1>2 DEF Proxies, Kept
<1>4. Sent(c)' = Sent(c) \ {Value(p)}
  BY <1>0, <1>1, SentChange
<1>5. CASE client[p] = "sending"
  <2>1. creation[p] = None
    BY <1>0, <1>5 DEF RInv, Creations, Awaited
  <2>2. Looked(c)' = Looked(c)
    BY <1>1, <1>2, <2>1, AllItemsFinite, GivenUp
  <2>3. use_count' = [use_count EXCEPT ![proxy[p]] = @ - 1] /\ proxy[p] # None
    BY <1>0, <1>5 DEF PushThrows, RInv, Owned
  <2>4. Value(p) \in Sent(c) <=> c = proxy[p]
    <3>1. item[Value(p)] = [kind |-> "commands", connection |-> proxy[p]]
      BY <1>0, <1>5 DEF Addressed
    <3>2. item[Value(p)].kind = "commands" /\ item[Value(p)].connection = proxy[p]
      BY <3>1
    <3> QED BY <1>1, <3>2 DEF Sent
  <2>5. Cardinality(Sent(c)') = IF c = proxy[p] THEN Cardinality(Sent(c)) - 1
                                                ELSE Cardinality(Sent(c))
    <3>1. IsFiniteSet(Sent(c))
      BY <1>0, Finite
    <3> QED BY <1>4, <2>4, <3>1, FS_RemoveElement
  <2>6. use_count'[c] = IF c = proxy[p] THEN use_count[c] - 1 ELSE use_count[c]
    BY <2>3 DEF CInv
  <2> QED BY <1>0, <1>3, <2>2, <2>5, <2>6, Finite DEF Counted, CInv
<1>6. CASE client[p] = "creating"
  <2>1. use_count' = use_count
    BY <1>6 DEF PushThrows
  <2>2. creation[p] # None => creation[p] = Value(p)
    BY <1>0, <1>6 DEF RInv, Creations, Awaited, Value
  <2>3. Looked(c)' = Looked(c)
    BY <1>1, <1>2, <2>2, AllItemsFinite, GivenUp
  <2>4. Value(p) \notin Sent(c)
    BY <1>0, <1>6 DEF Addressed, Sent
  <2> QED BY <1>3, <1>4, <2>1, <2>3, <2>4 DEF Counted, CInv
<1>7. CASE client[p] = "posting"
  <2>1. use_count' = IF Pending(p) THEN use_count ELSE ForgetResult(p)
    BY <1>7 DEF PushThrows
  <2>2. Sent(c)' = Sent(c)
    BY <1>0, <1>4, <1>7 DEF Addressed, Sent
  <2> QED BY <1>1, <1>2, <1>7, <2>1, <2>2, CountForgotten
<1> QED BY <1>2, <1>5, <1>6, <1>7

\* Steps of clients that do not touch the queue.
LEMMA ExistingStill == UNCHANGED <<vars, thread>> => Existing' = Existing
BY DEF vars, Existing, Queued, Command, Value

\* A client that wakes up finds its creator done and out of the thread's hand.
LEMMA AwokenCreator ==
  ASSUME CInv, NEW p \in Producers, client[p] = "asleep", Value(p) \in posted,
         creation[p] # None
  PROVE  creation[p] \notin Existing
<1>0. RInv /\ References /\ IInv /\ Len(delivered) <= Len(History) /\ Len(delivered) \in Nat
  BY HistoryFacts DEF CInv, RInv, IInv, TypeOK
<1>1. PICK n \in 1..MaxCalls : creation[p] = <<p, n>> /\ n < calls[p] /\ <<p, n>> \notin refused
  BY <1>0 DEF RInv, Creations, Awaited
<1>2. thread # "destroyed" /\ stage[p] = "idle" /\ Value(p) \notin refused
  BY <1>0, Numbers DEF RInv, Owned, Holders, InStep
<1>3. calls[p] \in 1..MaxCalls /\ Value(p) = <<p, calls[p]>>
  BY <1>0, <1>1, Numbers
<1>4. PICK i \in 1..Len(History) : History[i] = <<p, n>>
  BY <1>0, <1>1, HistoryFacts DEF Truthful, InHistory
<1>5. PICK j \in 1..Len(History) : History[j] = <<p, calls[p]>>
  BY <1>0, <1>2, <1>3, HistoryFacts DEF Truthful, InHistory
<1>6. i < j
  <2>1. i # j /\ (j < i => calls[p] < n)
    BY <1>0, <1>1, <1>4, <1>5 DEF IInv, Fifo
  <2> QED BY <1>1, <1>3, <2>1
<1>7. j <= Len(delivered)
  BY <1>0, <1>2, <1>3, <1>5 DEF RInv, InOrder
<1>8. ~Remaining(creation[p])
  <2>1. \A k \in 1..Len(History) : History[k] = <<p, n>> => k = i
    BY <1>0, <1>4, HistoryFacts
  <2>2. Len(History) \in Nat /\ i < Len(delivered)
    BY <1>0, <1>6, <1>7, HistoryFacts
  <2> QED BY <1>0, <1>1, <2>1, <2>2 DEF Remaining
<1>9. ~InPush(creation[p])
  BY <1>0, <1>1, Numbers DEF InPush
<1> QED BY <1>0, <1>8, <1>9, ExistingIs

\* The reference of the Result becomes that of the proxy; AddRef makes another.
LEMMA CountWoken ==
  ASSUME CInv, (RInv /\ References)', [RenderNext]_allVars, NEW p \in Producers,
         Wake(p), NEW c \in AllItems
  PROVE  Counted(c)'
<1> DEFINE k == creation[p]
<1>0. RInv /\ References /\ RTypes /\ Referring
  BY DEF CInv, RInv, References
<1>1. Existing' = Existing
  BY ExistingStill DEF Wake
<1>2. Sent(c)' = Sent(c)
  BY <1>0, <1>1, SentChange
<1>3. creation' = [creation EXCEPT ![p] = None] /\ UNCHANGED result
  BY DEF Wake, GiveUp
<1>4. CASE k # None /\ result[k] = "made"
  <2>1. /\ proxy' = [proxy EXCEPT ![p] = k] /\ returned' = returned \cup {k}
        /\ use_count' = [use_count EXCEPT ![k] = @ + 1 + 1 - 1]
    BY <1>4 DEF Wake
  <2>2. proxy[p] = None /\ k \notin returned /\ k \in AllItems /\ k \notin Existing
    BY <1>0, <1>4, AwokenCreator DEF Referring, RTypes, Wake
  <2>3. CASE c # k
    <3>1. Proxies(c)' = Proxies(c)
      BY <1>0, <2>1, <2>2, <2>3, AllItemsFinite DEF Proxies, RTypes
    <3>2. Kept(c)' = Kept(c) /\ use_count'[c] = use_count[c]
      BY <2>1, <2>3 DEF Kept, CInv
    <3>3. Looked(c)' = Looked(c)
      <4>1. (\E q \in Producers : creation'[q] = c) <=> (\E q \in Producers : creation[q] = c)
        BY <1>0, <1>3, <2>3, AllItemsFinite DEF RTypes
      <4> QED BY <1>1, <1>3, <4>1 DEF Looked
    <3> QED BY <1>2, <3>1, <3>2, <3>3 DEF Counted, CInv
  <2>4. CASE c = k
    <3>1. Proxies(c)' = Proxies(c) \cup {p} /\ p \notin Proxies(c)
      BY <1>0, <2>1, <2>2, <2>4, AllItemsFinite DEF Proxies, RTypes
    <3>2. Cardinality(Proxies(c)') = Cardinality(Proxies(c)) + 1
      <4>1. IsFiniteSet(Proxies(c))
        BY <1>0, Finite
      <4> QED BY <3>1, <4>1, FS_AddElement
    <3>3. Kept(c) = 0 /\ Kept(c)' = 1
      BY <2>1, <2>2, <2>4 DEF Kept
    <3>4. use_count'[c] = use_count[c] + 1 /\ use_count[c] \in Nat
      <4>1. use_count'[c] = use_count[c] + 1 + 1 - 1 /\ use_count[c] \in Nat
        BY <2>1, <2>4 DEF CInv
      <4> QED BY <4>1
    <3>5. Looked(c) = 1
      BY <1>4, <2>4 DEF Looked
    <3>6. Looked(c)' = 0
      <4>1. \A q \in Producers : q # p /\ creation[q] # None => creation[q] # k
        BY <1>0 DEF RInv, Creations
      <4>2. ~ \E q \in Producers : creation'[q] = c
        BY <1>0, <1>3, <2>4, <4>1, AllItemsFinite DEF RTypes
      <4> QED BY <1>1, <2>2, <2>4, <4>2 DEF Looked
    <3> HIDE DEF k
    <3> QED BY <1>0, <1>2, <3>2, <3>3, <3>4, <3>5, <3>6, Finite DEF Counted, CInv
  <2> QED BY <2>3, <2>4
<1>5. CASE ~(k # None /\ result[k] = "made")
  <2>1. UNCHANGED <<proxy, use_count, returned>>
    BY <1>5 DEF Wake
  <2>2. Proxies(c)' = Proxies(c) /\ Kept(c)' = Kept(c)
    BY <2>1 DEF Proxies, Kept
  <2>3. Looked(c)' = Looked(c)
    <3>1. c # k => ((\E q \in Producers : creation'[q] = c)
                      <=> (\E q \in Producers : creation[q] = c))
      BY <1>0, <1>3, AllItemsFinite DEF RTypes
    <3>2. c = k => result[c] # "made"
      BY <1>5, AllItemsFinite
    <3> QED BY <1>1, <1>3, <3>1, <3>2 DEF Looked
  <2> QED BY <1>2, <2>1, <2>2, <2>3 DEF Counted, CInv
<1> QED BY <1>4, <1>5

\* A client that gives up forgets the Result.
LEMMA CountExpired ==
  ASSUME CInv, (RInv /\ References)', [RenderNext]_allVars, NEW p \in Producers,
         Expire(p), NEW c \in AllItems
  PROVE  Counted(c)'
<1>1. Existing' = Existing
  BY ExistingStill DEF Expire
<1>2. Sent(c)' = Sent(c)
  BY <1>1, SentChange DEF CInv
<1>3. /\ creation' = [creation EXCEPT ![p] = None] /\ client[p] \in {"posting", "asleep"}
      /\ use_count' = IF Pending(p) THEN use_count ELSE ForgetResult(p)
      /\ UNCHANGED <<proxy, result, returned>>
  BY DEF Expire, GiveUp
<1> QED BY <1>1, <1>2, <1>3, CountForgotten

\* Letting go of a proxy.
LEMMA CountDropped ==
  ASSUME CInv, (RInv /\ References)', [RenderNext]_allVars, NEW p \in Producers,
         DropHandle(p) \/ DropProxy(p), NEW c \in AllItems
  PROVE  Counted(c)'
<1>0. RInv /\ References /\ RTypes
  BY DEF CInv, RInv
<1>1. Existing' = Existing
  BY ExistingStill DEF DropHandle, DropProxy, LetGo
<1>2. Sent(c)' = Sent(c)
  BY <1>0, <1>1, SentChange
<1>3. UNCHANGED <<creation, result, returned>>
  BY DEF DropHandle, DropProxy, LetGo
<1>4. Looked(c)' = Looked(c) /\ Kept(c)' = Kept(c)
  BY <1>1, <1>3 DEF Looked, Kept
<1>5. CASE DropHandle(p)
  BY <1>1, <1>3, <1>5, CountSame DEF DropHandle
<1>6. CASE DropProxy(p)
  <2>1. /\ proxy[p] # None /\ proxy' = [proxy EXCEPT ![p] = None]
        /\ use_count' = [use_count EXCEPT ![proxy[p]] = @ - 1]
    BY <1>6 DEF DropProxy
  <2>2. CASE c = proxy[p]
    <3>1. Proxies(c)' = Proxies(c) \ {p} /\ p \in Proxies(c)
      BY <1>0, <2>1, <2>2 DEF Proxies, RTypes
    <3>2. Cardinality(Proxies(c)') = Cardinality(Proxies(c)) - 1
      <4>1. IsFiniteSet(Proxies(c))
        BY <1>0, Finite
      <4> QED BY <3>1, <4>1, FS_RemoveElement
    <3>3. use_count'[c] = use_count[c] - 1
      BY <2>1, <2>2 DEF CInv
    <3> QED BY <1>0, <1>2, <1>4, <3>2, <3>3, Finite DEF Counted, CInv
  <2>3. CASE c # proxy[p]
    <3>1. Proxies(c)' = Proxies(c)
      BY <1>0, <2>1, <2>3, AllItemsFinite DEF Proxies, RTypes
    <3>2. use_count'[c] = use_count[c]
      BY <2>1, <2>3 DEF CInv
    <3> QED BY <1>2, <1>4, <3>1, <3>2 DEF Counted, CInv
  <2> QED BY <2>2, <2>3
<1> QED BY <1>5, <1>6

\* A creator makes a connection nobody has referred to; its Result does now.
LEMMA CountProcessed ==
  ASSUME CInv, (RInv /\ References)', [RenderNext]_allVars, ProcessCommands,
         NEW c \in AllItems
  PROVE  Counted(c)'
<1>0. RInv /\ References /\ RTypes /\ Made /\ Referring /\ Addressed
  BY DEF CInv, RInv, References
<1>1. Existing' = Existing
  BY <1>0, ExistingInHand
<1>2. Sent(c)' = Sent(c)
  BY <1>0, <1>1, SentChange
<1>3. UNCHANGED <<proxy, creation, returned>> /\ stage[Render] = "done" /\ Command \notin processed
  BY DEF ProcessCommands, clientVars
<1>4. Proxies(c)' = Proxies(c) /\ Kept(c)' = Kept(c)
  BY <1>3 DEF Proxies, Kept
<1>5. CASE item[Command].kind = "creator" /\ c = Command
  <2>1. PICK outcome \in {"made", "failed"} :
          /\ result' = [result EXCEPT ![Command] = outcome]
          /\ use_count' = [use_count EXCEPT ![Command] = IF outcome = "made" THEN 1 ELSE 0]
    BY <1>5 DEF ProcessCommands
  <2>2. c \notin returned
    BY <1>0, <1>3, <1>5 DEF Made
  <2>3. Proxies(c) = {} /\ Kept(c) = 0
    BY <1>0, <2>2, AllItemsFinite DEF Proxies, Kept, Referring
  <2>4. Sent(c) = {}
    <3> SUFFICES ASSUME NEW i \in Sent(c) PROVE FALSE
      OBVIOUS
    <3>1. PICK p \in Producers, n \in 1..MaxCalls : i = <<p, n>> /\ n <= calls[p]
      BY <1>0, ExistingOlder DEF Sent, AllItems
    <3> QED BY <1>0, <2>2, <3>1 DEF Sent, Addressed
  <2>5. c \in Existing
    BY <1>0, <1>3, <1>5 DEF Existing, References, Busy
  <2>6. Looked(c)' = IF outcome = "made" THEN 1 ELSE 0
    BY <1>0, <1>1, <1>5, <2>1, <2>5 DEF Looked, RTypes
  <2>7. use_count'[c] = IF outcome = "made" THEN 1 ELSE 0
    BY <1>5, <2>1 DEF CInv
  <2> QED BY <1>2, <1>4, <2>3, <2>4, <2>6, <2>7, FS_EmptySet DEF Counted
<1>6. CASE ~(item[Command].kind = "creator" /\ c = Command)
  <2>1. result'[c] = result[c] /\ use_count'[c] = use_count[c]
    BY <1>0, <1>6 DEF ProcessCommands, RTypes, CInv
  <2>2. Looked(c)' = Looked(c)
    BY <1>1, <1>3, <2>1 DEF Looked
  <2> QED BY <1>2, <1>4, <2>1, <2>2 DEF Counted, CInv
<1> QED BY <1>5, <1>6

\* What is left of a use count when existing items are destroyed.
LEMMA CountReleased ==
  ASSUME CInv, NEW items, items \subseteq Existing, Existing' = Existing \ items,
         use_count' = Released(items), UNCHANGED <<item, proxy, result, creation, returned>>,
         NEW c \in AllItems
  PROVE  Counted(c)'
<1> DEFINE out == {i \in items : item[i].kind = "commands" /\ item[i].connection = c}
           left == IF c \in items /\ result[c] = "made" /\ c \notin {creation[p] : p \in Producers}
                   THEN 1 ELSE 0
<1>0. RInv /\ References
  BY DEF CInv
<1>1. Proxies(c)' = Proxies(c) /\ Kept(c)' = Kept(c)
  BY DEF Proxies, Kept
<1>2. use_count'[c] = use_count[c] - Cardinality(out) - left
  BY DEF Released
<1>3. Looked(c)' = Looked(c) - left
  BY DEF Looked
<1>4. /\ Cardinality(out) \in Nat
      /\ Cardinality(Sent(c)') = Cardinality(Sent(c)) - Cardinality(out)
  <2>1. Sent(c)' = Sent(c) \ out /\ out \subseteq Sent(c)
    BY DEF Sent
  <2>2. IsFiniteSet(Sent(c))
    BY <1>0, Finite
  <2> HIDE DEF out
  <2>3. IsFiniteSet(out) /\ Cardinality(out) \in Nat
    BY <2>1, <2>2, FS_Subset, FS_CardinalityType
  <2>4. Cardinality(Sent(c) \ out) = Cardinality(Sent(c)) - Cardinality(Sent(c) \cap out)
    BY <2>2, <2>3, FS_Difference
  <2>5. Sent(c) \cap out = out
    BY <2>1
  <2> QED BY <2>1, <2>3, <2>4, <2>5
<1>5. left \in {0, 1}
  OBVIOUS
<1> HIDE DEF out, left
<1> QED BY <1>0, <1>1, <1>2, <1>3, <1>4, <1>5, Finite DEF Counted, CInv

\* Every step keeps the counts right.
LEMMA CountedStep == CInv /\ [RenderNext]_allVars => CInv'
<1> SUFFICES ASSUME CInv, [RenderNext]_allVars PROVE CInv'
  OBVIOUS
<1>0. RInv /\ References /\ (RInv /\ References)'
  BY RenderStep, ReferencesStep DEF CInv
<1>1. ASSUME NEW c \in AllItems PROVE Counted(c)'
  <2>1. ASSUME NEW p \in Producers, Send(p) \/ Wait(p) \/ Create(p) PROVE Counted(c)'
    BY <1>0, <2>1, CountCall
  <2>2. ASSUME NEW p \in Producers, ClientPush(p) \/ ClientRefuse(p) \/ Pushed(p)
        PROVE  Counted(c)'
    <3>1. UNCHANGED <<use_count, proxy, result, creation, returned>>
      BY <2>2 DEF ClientPush, ClientRefuse, Pushed, clientVars, serverVars
    <3>2. Existing' = Existing
      BY <1>0, <2>2, ExistingMoved
    <3> QED BY <1>0, <3>1, <3>2, CountSame
  <2>3. ASSUME NEW p \in Producers, PushThrows(p) PROVE Counted(c)'
    BY <1>0, <2>3, CountThrown
  <2>4. ASSUME NEW p \in Producers, Wake(p) \/ Expire(p) PROVE Counted(c)'
    BY <1>0, <2>4, CountWoken, CountExpired
  <2>5. ASSUME NEW p \in Producers, DropHandle(p) \/ DropProxy(p) PROVE Counted(c)'
    BY <1>0, <2>5, CountDropped
  <2>6. ASSUME NEW p \in Producers, Join(p) PROVE Counted(c)'
    <3>1. Existing' = {} /\ Existing = Queued
      BY <1>0, <2>6, ExistingJoined
    <3>2. use_count' = Released(Queued) /\ UNCHANGED <<item, proxy, result, creation, returned>>
      BY <2>6 DEF Join
    <3> QED BY <3>1, <3>2, CountReleased
  <2>7. CASE LoopTest \/ TakeCommand \/ NoCommand \/ Stop
    <3>1. UNCHANGED <<use_count, proxy, result, creation, returned>>
      BY <2>7 DEF LoopTest, TakeCommand, NoCommand, Stop, clientVars, serverVars
    <3>2. Existing' = Existing
      BY <1>0, <2>7, ExistingInHand
    <3> QED BY <1>0, <3>1, <3>2, CountSame
  <2>8. CASE ProcessCommands
    BY <1>0, <2>8, CountProcessed
  <2>9. CASE EndIteration
    <3>1. Existing' = Existing \ {Command} /\ {Command} \subseteq Existing
      BY <1>0, <2>9, ExistingEnded
    <3>2. /\ use_count' = Released({Command})
          /\ UNCHANGED <<item, proxy, result, creation, returned>>
      BY <2>9 DEF EndIteration, clientVars
    <3> QED BY <3>1, <3>2, CountReleased
  <2>10. CASE UNCHANGED allVars
    <3>1. Existing' = Existing /\ UNCHANGED <<use_count, proxy, result, creation, returned>>
      BY <2>10, ExistingStill DEF allVars, clientVars, serverVars
    <3> QED BY <1>0, <3>1, CountSame
  <2> QED BY <2>1, <2>2, <2>3, <2>4, <2>5, <2>6, <2>7, <2>8, <2>9, <2>10 DEF RenderNext, Running
<1>2. DOMAIN use_count' = AllItems /\ use_count' = [c \in AllItems |-> use_count'[c]]
  <2> DEFINE Counts == \/ use_count' = use_count
                       \/ \E d, v : use_count' = [use_count EXCEPT ![d] = v]
                       \/ \E items : use_count' = Released(items)
  <2>1. ASSUME NEW p \in Producers, Send(p) \/ DropHandle(p) \/ DropProxy(p) PROVE Counts
    BY <2>1 DEF Send, DropHandle, DropProxy
  <2>2. ASSUME NEW p \in Producers, PushThrows(p) \/ Expire(p) PROVE Counts
    BY <1>0, <2>2 DEF PushThrows, Expire, ForgetResult, RInv, InStep
  <2>3. ASSUME NEW p \in Producers, Wake(p) PROVE Counts
    BY <2>3 DEF Wake
  <2>4. ASSUME NEW p \in Producers, Join(p) PROVE Counts
    BY <2>4 DEF Join
  <2>5. ASSUME NEW p \in Producers,
               Wait(p) \/ Create(p) \/ ClientPush(p) \/ ClientRefuse(p) \/ Pushed(p)
        PROVE  Counts
    BY <2>5 DEF Wait, Create, ClientPush, ClientRefuse, Pushed, serverVars
  <2>6. ASSUME ProcessCommands \/ EndIteration PROVE Counts
    BY <2>6 DEF ProcessCommands, EndIteration
  <2>7. ASSUME LoopTest \/ TakeCommand \/ NoCommand \/ Stop \/ UNCHANGED allVars PROVE Counts
    BY <2>7 DEF LoopTest, TakeCommand, NoCommand, Stop, allVars, serverVars
  <2>8. Counts
    BY <2>1, <2>2, <2>3, <2>4, <2>5, <2>6, <2>7 DEF RenderNext, Running
  <2> QED BY <2>8 DEF CInv, Released
<1>3. \A c \in AllItems : use_count'[c] \in Nat
  BY <1>0, <1>1, FiniteThen DEF Counted
<1> QED BY <1>0, <1>1, <1>2, <1>3 DEF CInv

\* Initially there are no connections.
LEMMA CountedInit == RenderInit => CInv
<1> SUFFICES ASSUME RenderInit PROVE CInv
  OBVIOUS
<1>1. RInv
  BY RenderInitInv
<1>2. References
  BY OneConsumer, QueueAssumption
     DEF RenderInit, Init, References, Busy, Made, Referring, Addressed, Threads
<1>3. Existing = {}
  BY OneConsumer DEF RenderInit, Init, Existing, Queued, Threads
<1>4. ASSUME NEW c \in AllItems PROVE use_count[c] = 0 /\ Counted(c)
  <2>1. Proxies(c) = {} /\ Sent(c) = {}
    BY <1>3, AllItemsFinite DEF RenderInit, Proxies, Sent
  <2>2. use_count[c] = 0 /\ Looked(c) = 0 /\ Kept(c) = 0
    BY DEF RenderInit, Looked, Kept
  <2> QED BY <2>1, <2>2, FS_EmptySet DEF Counted
<1> QED BY <1>1, <1>2, <1>4 DEF CInv, RenderInit

\* The references of connections, for any clients, capacity and calls.
THEOREM CountedInductive == RenderSpec => []CInv
BY CountedInit, CountedStep, PTL DEF RenderSpec

\* A use count is the number of those who refer to the connection: none is
\* released while it is used or kept when nobody will ask for it, but for the
\* one reference of a returned connection that nobody drops.
THEOREM CountsAreRight == RenderSpec => []ConnectionsCounted
<1>1. CInv => ConnectionsCounted
  BY DEF CInv, Counted, Proxies, Sent, Looked, Kept, ConnectionsCounted
<1> QED BY <1>1, CountedInductive, PTL

\* Types of clients, thread and connections; no use count falls below zero.
THEOREM RenderTypesCorrect == RenderSpec => []RenderTypeOK
<1>1. CInv => RenderTypeOK
  BY DEF CInv, RInv, IInv, RTypes, References, Made, RenderTypeOK
<1> QED BY <1>1, CountedInductive, PTL
=============================================================================
