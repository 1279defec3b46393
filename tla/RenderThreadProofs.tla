------------------------- MODULE RenderThreadProofs -------------------------
(***************************************************************************)
(* Waiting for the render thread, for any number of clients, any capacity  *)
(* of the queue and any number of calls: when a client's semaphore is      *)
(* posted, what was pushed before is done.  The argument: the thread works *)
(* through delivered, so that all but its last item are processed          *)
(* (InOrder); a waiter is posted behind the items before it, or by a push  *)
(* that failed, which left nothing in the queue (Truth of the queue), or   *)
(* when nobody has the thread any more (Owned).                            *)
(***************************************************************************)
EXTENDS RenderThread, TLAPS

(* The queue: what the FIFO of BoundedQueue guarantees to its callers, for *)
(* any producers and consumers.  Both facts speak of History, the values   *)
(* delivered followed by those still inside: a push appends to it, a pop   *)
(* moves the border between its two parts.                                 *)

\* Values carry the number of a call that was made.
Numbered ==
  /\ History \in Seq(Producers \X (1..MaxCalls))
  /\ \A p \in Producers : stage[p] # "idle" => calls[p] > 0

IInv == TypeOK /\ Numbered /\ Fifo /\ ResultIsTrue

\* A value pushed at the back of the queue is the last of the whole history.
LEMMA AppendRight ==
  ASSUME NEW S, NEW d \in Seq(S), NEW q \in Seq(S), NEW v \in S
  PROVE  d \o Append(q, v) = Append(d \o q, v)
OBVIOUS

\* What stands at each place of a sequence one longer.
LEMMA AppendIndex ==
  ASSUME NEW S, NEW s \in Seq(S), NEW v
  PROVE  /\ Len(s) \in Nat /\ Len(Append(s, v)) = Len(s) + 1
         /\ Append(s, v)[Len(s) + 1] = v
         /\ \A i \in 1..Len(s) : Append(s, v)[i] = s[i]
OBVIOUS

\* A property of all elements of s and of e is one of all elements of Append(s, e).
LEMMA AppendHolds ==
  ASSUME NEW S, NEW s \in Seq(S), NEW v, NEW w
  PROVE  (\E i \in 1..Len(Append(s, v)) : Append(s, v)[i] = w)
           <=> (\E i \in 1..Len(s) : s[i] = w) \/ w = v
BY AppendIndex

\* A pop moves the border between delivered and queued values, not the history.
LEMMA MoveBorder ==
  ASSUME NEW S, NEW d \in Seq(S), NEW q \in Seq(S), q # <<>>
  PROVE  Append(d, Head(q)) \o Tail(q) = d \o q
OBVIOUS

\* The inductive invariant holds initially.
LEMMA InitInv == Init => IInv
<1> SUFFICES ASSUME Init PROVE IInv
  OBVIOUS
<1>1. TypeOK
  BY QueueAssumption DEF Init, TypeOK, Stages, Items, Threads
<1>2. History = <<>>
  BY DEF Init, History
<1>3. Numbered /\ Fifo
  BY <1>2 DEF Init, Numbered, Fifo, Threads
<1>4. ResultIsTrue
  BY <1>2, QueueAssumption DEF Init, ResultIsTrue, Threads
<1> QED BY <1>1, <1>3, <1>4 DEF IInv

\* Every operation preserves the type invariant, the capacity included.
LEMMA TypeStep == TypeOK /\ [Next]_vars => TypeOK'
<1> SUFFICES ASSUME TypeOK, [Next]_vars PROVE TypeOK'
  OBVIOUS
<1> USE QueueAssumption DEF TypeOK, Goto
<1>1. ASSUME NEW t \in Threads, NEW limit \in BOOLEAN, Call(t, limit) PROVE TypeOK'
  BY <1>1 DEF Call, Stages
<1>2. ASSUME NEW p \in Producers, Push(p) PROVE TypeOK'
  <2>1. Value(p) \in Items
    BY DEF Value, Items
  <2>2. queue' \in Seq(Items) /\ Len(queue') <= MaxSize
    BY <1>2, <2>1 DEF Push, Ready
  <2>3. stage' \in [Threads -> Stages]
    BY <1>2 DEF Push, Stages
  <2> QED BY <1>2, <2>2, <2>3 DEF Push
<1>3. ASSUME NEW c \in Consumers, Pop(c) PROVE TypeOK'
  <2>1. queue # <<>>
    BY <1>3 DEF Pop, Ready
  <2>2. queue' \in Seq(Items) /\ Len(queue') <= MaxSize /\ delivered' \in Seq(Items)
    BY <1>3, <2>1 DEF Pop
  <2>3. stage' \in [Threads -> Stages]
    BY <1>3 DEF Pop, Stages
  <2> QED BY <1>3, <2>2, <2>3 DEF Pop
<1>4. ASSUME NEW t \in Threads, Refuse(t) PROVE TypeOK'
  <2>1. t \in Producers => Value(t) \in Items
    BY DEF Value, Items
  <2>2. refused' \subseteq Items
    BY <1>4, <2>1 DEF Refuse
  <2>3. stage' \in [Threads -> Stages]
    BY <1>4 DEF Refuse, Stages
  <2> QED BY <1>4, <2>2, <2>3 DEF Refuse
<1>5. ASSUME NEW t \in Threads, Return(t) PROVE TypeOK'
  <2>1. stage' \in [Threads -> Stages]
    BY <1>5 DEF Return, Stages
  <2> QED BY <1>5, <2>1 DEF Return
<1>6. CASE UNCHANGED vars
  BY <1>6 DEF vars
<1> QED BY <1>1, <1>2, <1>3, <1>4, <1>5, <1>6 DEF Next

\* A value is in History exactly when some index of History holds it.
InHistory(v) == \E i \in 1..Len(History) : History[i] = v

\* ResultIsTrue, for one value.
Truthful(p, n) ==
  LET begun == n < calls[p] \/ (n = calls[p] /\ stage[p] # "waiting")
  IN /\ InHistory(<<p, n>>) <=> begun /\ <<p, n>> \notin refused
     /\ <<p, n>> \in refused => begun

\* Every operation preserves the facts about the history of values.
LEMMA HistoryStep == IInv /\ [Next]_vars => (Numbered /\ Fifo /\ ResultIsTrue)'
<1> SUFFICES ASSUME IInv, [Next]_vars PROVE (Numbered /\ Fifo /\ ResultIsTrue)'
  OBVIOUS
<1>0. /\ TypeOK /\ Numbered /\ Fifo
      /\ \A p \in Producers, n \in 1..MaxCalls : Truthful(p, n)
      /\ Producers \subseteq Threads /\ MaxCalls \in Nat
  BY QueueAssumption DEF IInv, ResultIsTrue, Truthful, InHistory, Threads
<1>1. (\A p \in Producers, n \in 1..MaxCalls : Truthful(p, n)') => ResultIsTrue'
  BY DEF ResultIsTrue, Truthful, InHistory
<1>2. ASSUME UNCHANGED History PROVE Fifo' /\ \A v : InHistory(v)' <=> InHistory(v)
  BY <1>0, <1>2 DEF Fifo, InHistory
<1>3. ASSUME NEW t \in Threads, NEW limit \in BOOLEAN, Call(t, limit)
      PROVE  (Numbered /\ Fifo /\ ResultIsTrue)'
  <2>1. UNCHANGED History
    BY <1>3 DEF Call, History
  <2>2. ASSUME NEW p \in Producers, NEW n \in 1..MaxCalls PROVE Truthful(p, n)'
    <3>1. Truthful(p, n) /\ calls[p] \in Nat
      BY <1>0 DEF TypeOK
    <3>2. /\ stage'[p] = IF p = t THEN "waiting" ELSE stage[p]
          /\ calls'[p] = IF p = t THEN calls[p] + 1 ELSE calls[p]
          /\ stage[t] = "idle" /\ UNCHANGED refused
      BY <1>0, <1>3 DEF Call, Goto, TypeOK
    <3> QED BY <1>2, <2>1, <3>1, <3>2 DEF Truthful
  <2>3. Numbered'
    BY <1>0, <1>3, <2>1 DEF Numbered, Call, Goto, TypeOK
  <2> QED BY <1>1, <1>2, <2>1, <2>2, <2>3
<1>4. ASSUME NEW p \in Producers, Push(p) PROVE (Numbered /\ Fifo /\ ResultIsTrue)'
  <2>1. /\ stage[p] = "waiting" /\ calls[p] \in Nat /\ Value(p) = <<p, calls[p]>>
        /\ calls[p] \in 0..MaxCalls /\ UNCHANGED <<calls, refused>>
    BY <1>0, <1>4 DEF Push, Value, TypeOK
  <2>2. History' = Append(History, Value(p))
    BY <1>0, <1>4, <2>1, AppendRight DEF Push, History, TypeOK, Items, Value
  <2>3. calls[p] \in 1..MaxCalls
    BY <1>0, <2>1 DEF Numbered
  <2>4. Numbered'
    BY <1>0, <1>4, <2>1, <2>2, <2>3 DEF Numbered, Push, Goto, TypeOK
  <2>5. \A i \in 1..Len(History) : History[i][1] = p => History[i][2] < calls[p]
    <3> SUFFICES ASSUME NEW i \in 1..Len(History), History[i][1] = p
                 PROVE  History[i][2] < calls[p]
      OBVIOUS
    <3>1. PICK n \in 1..MaxCalls : History[i] = <<p, n>>
      BY <1>0 DEF Numbered
    <3>2. InHistory(<<p, n>>)
      BY <3>1 DEF InHistory
    <3> QED BY <1>0, <2>1, <3>1, <3>2 DEF Truthful
  <2>6. Fifo'
    <3>1. /\ Len(History) \in Nat /\ Len(History') = Len(History) + 1
          /\ History'[Len(History) + 1] = <<p, calls[p]>>
          /\ \A i \in 1..Len(History) : History'[i] = History[i]
      BY <1>0, <2>1, <2>2, AppendIndex DEF Numbered
    <3> SUFFICES ASSUME NEW i \in 1..Len(History'), NEW j \in 1..Len(History'),
                        i < j, History'[i][1] = History'[j][1]
                 PROVE  History'[i][2] < History'[j][2]
      BY DEF Fifo
    <3>2. CASE j \in 1..Len(History)
      BY <1>0, <3>1, <3>2 DEF Fifo
    <3>3. CASE j = Len(History) + 1
      BY <2>5, <3>1, <3>3
    <3> QED BY <3>1, <3>2, <3>3
  <2>7. ASSUME NEW r \in Producers, NEW n \in 1..MaxCalls PROVE Truthful(r, n)'
    <3>1. InHistory(<<r, n>>)' <=> InHistory(<<r, n>>) \/ <<r, n>> = Value(p)
      <4> DEFINE v == <<r, n>>
      <4>1. InHistory(v)' <=> InHistory(v) \/ v = Value(p)
        <5> DEFINE H == History  w == Value(p)
        <5>1. H \in Seq(Producers \X (1..MaxCalls)) /\ History' = Append(H, w)
          BY <1>0, <2>2 DEF Numbered
        <5> HIDE DEF v, H, w
        <5>2. (\E i \in 1..Len(Append(H, w)) : Append(H, w)[i] = v)
                <=> (\E i \in 1..Len(H) : H[i] = v) \/ v = w
          BY <5>1, AppendHolds
        <5> QED BY <5>1, <5>2 DEF InHistory, H, w
      <4> QED BY <4>1
    <3>2. stage'[r] = IF r = p THEN "done" ELSE stage[r]
      BY <1>0, <1>4 DEF Push, Goto, TypeOK
    <3> QED BY <1>0, <2>1, <3>1, <3>2 DEF Truthful
  <2> QED BY <1>1, <2>4, <2>6, <2>7
<1>5. ASSUME NEW c \in Consumers, Pop(c) PROVE (Numbered /\ Fifo /\ ResultIsTrue)'
  <2>1. UNCHANGED History
    BY <1>0, <1>5, MoveBorder, QueueAssumption DEF Pop, Ready, History, TypeOK
  <2>2. ASSUME NEW p \in Producers, NEW n \in 1..MaxCalls PROVE Truthful(p, n)'
    BY <1>0, <1>2, <1>5, <2>1, QueueAssumption DEF Pop, Goto, TypeOK, Truthful
  <2>3. Numbered'
    BY <1>0, <1>5, <2>1 DEF Numbered, Pop, Goto, TypeOK
  <2> QED BY <1>1, <1>2, <2>1, <2>2, <2>3
<1>6. ASSUME NEW t \in Threads, Refuse(t) PROVE (Numbered /\ Fifo /\ ResultIsTrue)'
  <2>1. UNCHANGED History
    BY <1>6 DEF Refuse, History
  <2>2. ASSUME NEW p \in Producers, NEW n \in 1..MaxCalls PROVE Truthful(p, n)'
    <3>1. /\ <<p, n>> \in refused' <=> <<p, n>> \in refused \/ (p = t /\ n = calls[p])
          /\ stage'[p] = IF p = t THEN "refused" ELSE stage[p]
          /\ stage[t] = "waiting" /\ UNCHANGED calls
      BY <1>0, <1>6 DEF Refuse, Goto, TypeOK, Value
    <3> QED BY <1>0, <1>2, <2>1, <3>1 DEF Truthful, TypeOK
  <2>3. Numbered'
    BY <1>0, <1>6, <2>1 DEF Numbered, Refuse, Goto, TypeOK
  <2> QED BY <1>1, <1>2, <2>1, <2>2, <2>3
<1>7. ASSUME NEW t \in Threads, Return(t) PROVE (Numbered /\ Fifo /\ ResultIsTrue)'
  <2>1. UNCHANGED History
    BY <1>7 DEF Return, History
  <2>2. ASSUME NEW p \in Producers, NEW n \in 1..MaxCalls PROVE Truthful(p, n)'
    BY <1>0, <1>2, <1>7, <2>1 DEF Return, Goto, TypeOK, Truthful
  <2>3. Numbered'
    BY <1>0, <1>7, <2>1 DEF Numbered, Return, Goto, TypeOK
  <2> QED BY <1>1, <1>2, <2>1, <2>2, <2>3
<1>8. CASE UNCHANGED vars
  <2>1. UNCHANGED <<History, stage, calls, refused>>
    BY <1>8 DEF vars, History
  <2>2. ASSUME NEW p \in Producers, NEW n \in 1..MaxCalls PROVE Truthful(p, n)'
    BY <1>0, <1>2, <2>1 DEF Truthful
  <2>3. Numbered'
    BY <1>0, <2>1 DEF Numbered
  <2> QED BY <1>1, <1>2, <2>1, <2>2, <2>3
<1> QED BY <1>3, <1>4, <1>5, <1>6, <1>7, <1>8 DEF Next

\* Every reachable state of the abstract queue, whatever its threads, capacity and
\* number of calls, satisfies the inductive invariant.
THEOREM Inductive == Spec => []IInv
<1>1. Init => IInv
  BY InitInv
<1>2. IInv /\ [Next]_vars => IInv'
  BY TypeStep, HistoryStep DEF IInv
<1> QED BY <1>1, <1>2, PTL DEF Spec

\* Types, and the capacity, for any number of threads.
THEOREM TypeCorrect == Spec => []TypeOK
<1>1. IInv => TypeOK
  BY DEF IInv
<1> QED BY <1>1, Inductive, PTL

\* The queue neither duplicates nor reorders the values of a producer.
THEOREM OrderKept == Spec => []Fifo
<1>1. IInv => Fifo
  BY DEF IInv
<1> QED BY <1>1, Inductive, PTL

\* A push took effect exactly when it did not return false or throw.
THEOREM ResultsTrue == Spec => []ResultIsTrue
<1>1. IInv => ResultIsTrue
  BY DEF IInv
<1> QED BY <1>1, Inductive, PTL

-----------------------------------------------------------------------------
(* The clients and the thread. *)

RTypes ==
  /\ item \in [AllItems -> {None} \cup [kind : {"commands", "creator", "waiter"},
                                        connection : AllItems \cup {None}]]
  /\ client \in [Producers -> {"idle", "sending", "creating", "created", "posting",
                               "asleep", "joining"}]
  /\ creation \in [Producers -> AllItems \cup {None}]
  /\ handle \in [Producers -> BOOLEAN] /\ proxy \in [Producers -> AllItems \cup {None}]
  /\ processed \subseteq AllItems /\ posted \subseteq AllItems
  /\ result \in [AllItems -> {"none", "made", "failed"}]
  /\ stop_request \in BOOLEAN /\ thread \in {"running", "ended", "destroyed"}

\* The thread has processed what it took, but for the item in its hand; what is
\* posted and was queued has been processed.
InOrder ==
  /\ stage[Render] = "done" => Len(delivered) > 0
  /\ \A i \in 1..Len(delivered) :
       i < Len(delivered) \/ stage[Render] # "done" => delivered[i] \in processed
  /\ thread # "destroyed" =>
       \A i \in 1..Len(History) :
         History[i] \in posted => i <= Len(delivered) /\ History[i] \in processed

\* An item is posted, or processed, only after its push has ended.
PushedBefore ==
  /\ \A p \in Producers, n \in 1..MaxCalls :
       <<p, n>> \in posted => n < calls[p] \/ (n = calls[p] /\ stage[p] # "waiting")
  /\ \A p \in Producers, n \in 1..MaxCalls : <<p, n>> \in processed => n <= calls[p]

\* What a client does fits the stage of its call of Push, and its result.
InStep ==
  \A p \in Producers :
    /\ client[p] \in {"sending", "creating", "posting"} <=> stage[p] # "idle"
    /\ stage[p] = "done" => Value(p) \notin refused
    /\ stage[p] = "refused" => Value(p) \in refused
    /\ client[p] \in {"created", "asleep"} => Value(p) \notin refused

\* A client that waits owns the thread; the thread is stopped when nobody does.
Owned ==
  /\ \A p \in Producers :
       /\ client[p] \in {"creating", "created", "posting", "asleep"} => handle[p]
       /\ client[p] = "sending" => proxy[p] # None
  /\ stop_request => Holders = {}
  /\ thread # "running" => stop_request

\* The creator a client waits for is the push before the waiter, and was done.
Awaited(p, n) ==
  /\ item[<<p, n>>].kind = "creator"
  /\ \/ client[p] \in {"creating", "created"} /\ n = calls[p]
     \/ client[p] \in {"posting", "asleep"} /\ n < calls[p]
  /\ client[p] # "creating" => <<p, n>> \notin refused
Creations ==
  \A p \in Producers : creation[p] # None =>
    \E n \in 1..MaxCalls : creation[p] = <<p, n>> /\ Awaited(p, n)

\* A creator that was processed has given a connection or an exception.
Results ==
  \A c \in processed : item[c].kind = "creator" => result[c] \in {"made", "failed"}

RInv == /\ IInv /\ RTypes /\ InOrder /\ PushedBefore /\ InStep
        /\ Owned /\ Creations /\ Results

\* There is one consumer, the thread.
LEMMA OneConsumer == Consumers = {Render} /\ Render \in Threads /\ Render \notin Producers
BY RenderThreadAssumption, QueueAssumption DEF Render, Threads

\* Every step is one of the queue, or leaves the queue alone.
LEMMA RenderStepIsQueueStep == [RenderNext]_allVars => [Next]_vars
<1> SUFFICES ASSUME [RenderNext]_allVars PROVE [Next]_vars
  OBVIOUS
<1> USE OneConsumer DEF Threads, Next
<1>1. ASSUME NEW p \in Producers, Send(p) \/ Wait(p) \/ Create(p) PROVE Next
  BY <1>1 DEF Send, Wait, Create, PushItem
<1>2. ASSUME NEW p \in Producers, ClientPush(p) \/ ClientRefuse(p) PROVE Next
  BY <1>2 DEF ClientPush, ClientRefuse
<1>3. ASSUME NEW p \in Producers, Pushed(p) \/ PushThrows(p) PROVE Next
  BY <1>3 DEF Pushed, PushThrows
<1>4. ASSUME NEW p \in Producers,
             Wake(p) \/ Expire(p) \/ DropHandle(p) \/ DropProxy(p) \/ Join(p)
      PROVE  UNCHANGED vars
  BY <1>4 DEF Wake, Expire, DropHandle, DropProxy, LetGo, Join
<1>5. CASE LoopTest \/ TakeCommand \/ NoCommand
  BY <1>5 DEF LoopTest, TakeCommand, NoCommand
<1>6. CASE ProcessCommands \/ EndIteration \/ Stop
  BY <1>6 DEF ProcessCommands, EndIteration, Stop
<1>7. CASE UNCHANGED allVars
  BY <1>7 DEF allVars
<1> QED BY <1>1, <1>2, <1>3, <1>4, <1>5, <1>6, <1>7 DEF RenderNext, Running

\* The queue of the render thread behaves as BoundedQueue says.
THEOREM QueueInRender == RenderSpec => Spec
<1>1. RenderInit => Init
  BY DEF RenderInit
<1> QED BY <1>1, RenderStepIsQueueStep, PTL DEF RenderSpec, Spec

\* Initially nothing was pushed and every client has the thread.
LEMMA RenderInitInv == RenderInit => RInv
<1> SUFFICES ASSUME RenderInit PROVE RInv
  OBVIOUS
<1>1. IInv
  BY InitInv DEF RenderInit
<1>2. RTypes
  BY DEF RenderInit, RTypes
<1>3. InOrder /\ PushedBefore /\ InStep
  BY OneConsumer, QueueAssumption DEF RenderInit, Init, InOrder, History, PushedBefore, InStep, Threads
<1>4. Owned /\ Creations /\ Results
  BY DEF RenderInit, Owned, Creations, Results
<1> QED BY <1>1, <1>2, <1>3, <1>4 DEF RInv

-----------------------------------------------------------------------------
\* What the invariant of the queue says of the whole history.
LEMMA HistoryFacts ==
  ASSUME IInv
  PROVE  /\ delivered \in Seq(AllItems) /\ History \in Seq(AllItems)
         /\ Len(delivered) <= Len(History)
         /\ \A i \in 1..Len(delivered) : History[i] = delivered[i]
         /\ \A i, j \in 1..Len(History) : History[i] = History[j] => i = j
         /\ \A p \in Producers, n \in 1..MaxCalls : Truthful(p, n)
<1>1. /\ History \in Seq(AllItems) /\ delivered \in Seq(Items) /\ queue \in Seq(Items)
  BY DEF IInv, Numbered, AllItems, TypeOK
<1>2. /\ Len(History) = Len(delivered) + Len(queue)
      /\ \A i \in 1..Len(delivered) : History[i] = delivered[i]
  BY <1>1 DEF History
<1>3. delivered \in Seq(AllItems)
  BY <1>1, <1>2
<1>4. \A i, j \in 1..Len(History) : History[i] = History[j] => i = j
  <2> SUFFICES ASSUME NEW i \in 1..Len(History), NEW j \in 1..Len(History),
                      History[i] = History[j], i # j PROVE FALSE
    OBVIOUS
  <2>1. History[i] \in AllItems
    BY <1>1
  <2>2. PICK p \in Producers, n \in 1..MaxCalls : History[i] = <<p, n>>
    BY <2>1 DEF AllItems
  <2>3. i < j \/ j < i
    OBVIOUS
  <2>4. History[i][2] < History[j][2] \/ History[j][2] < History[i][2]
    BY <2>3 DEF IInv, Fifo
  <2> QED BY <2>2, <2>4
<1>5. \A p \in Producers, n \in 1..MaxCalls : Truthful(p, n)
  BY DEF IInv, ResultIsTrue, Truthful, InHistory
<1> QED BY <1>1, <1>2, <1>3, <1>4, <1>5

\* A client's item has a number.
LEMMA Numbers ==
  ASSUME RInv, NEW p \in Producers
  PROVE  /\ calls[p] \in 0..MaxCalls /\ stage[p] \in Stages /\ p \in Threads /\ p # Render
         /\ stage[p] # "idle" => calls[p] \in 1..MaxCalls /\ Value(p) \in AllItems
         /\ calls[p] < MaxCalls => NextItem(p) \in AllItems /\ NextItem(p) = <<p, calls[p] + 1>>
         /\ Value(p) = <<p, calls[p]>>
BY QueueAssumption, OneConsumer DEF RInv, IInv, TypeOK, Numbered, NextItem, Value, AllItems, Threads

\* The item in the thread's hand.
LEMMA CommandFacts ==
  ASSUME RInv, stage[Render] = "done"
  PROVE  /\ Command \in AllItems /\ Command = History[Len(delivered)]
         /\ \E p \in Producers, n \in 1..MaxCalls : Command = <<p, n>> /\ n <= calls[p]
<1>1. IInv /\ Len(delivered) \in 1..Len(History) /\ Command = delivered[Len(delivered)]
  BY HistoryFacts DEF RInv, InOrder, Command
<1>2. Command \in AllItems /\ Command = History[Len(delivered)]
  BY <1>1, HistoryFacts
<1>3. PICK p \in Producers, n \in 1..MaxCalls : Command = <<p, n>>
  BY <1>2 DEF AllItems
<1>4. InHistory(<<p, n>>) /\ Truthful(p, n)
  BY <1>1, <1>2, <1>3, HistoryFacts DEF InHistory
<1>5. n <= calls[p]
  BY <1>1, <1>4 DEF Truthful, IInv, TypeOK
<1> QED BY <1>2, <1>3, <1>5

\* The items in the queue.
LEMMA QueuedFacts ==
  ASSUME RInv
  PROVE  /\ Queued \subseteq AllItems
         /\ \A p \in Producers, n \in 1..MaxCalls :
              <<p, n>> \in Queued => n < calls[p] \/ (n = calls[p] /\ stage[p] # "waiting")
<1>1. IInv /\ queue \in Seq(Items) /\ delivered \in Seq(Items)
  BY DEF RInv, IInv, TypeOK
<1>2. \A i \in 1..Len(queue) : /\ Len(delivered) + i \in 1..Len(History)
                               /\ queue[i] = History[Len(delivered) + i]
  BY <1>1 DEF History
<1>3. \A c \in Queued : InHistory(c)
  <2> SUFFICES ASSUME NEW c \in Queued PROVE \E j \in 1..Len(History) : History[j] = c
    BY DEF InHistory
  <2>1. PICK i \in 1..Len(queue) : c = queue[i]
    BY <1>1 DEF Queued
  <2> QED BY <1>2, <2>1
<1>4. Queued \subseteq AllItems
  BY <1>1, <1>3, HistoryFacts DEF InHistory
<1> QED BY <1>1, <1>3, <1>4, HistoryFacts DEF Truthful

-----------------------------------------------------------------------------
\* Every step keeps the types.
LEMMA RTypesStep == RInv /\ [RenderNext]_allVars => RTypes'
<1> SUFFICES ASSUME RInv, [RenderNext]_allVars PROVE RTypes'
  OBVIOUS
<1>0. RTypes /\ IInv
  BY DEF RInv
<1> USE <1>0 DEF RTypes, Become, clientVars, serverVars
<1>1. ASSUME NEW p \in Producers, Send(p) \/ Wait(p) \/ Create(p) PROVE RTypes'
  <2>1. calls[p] < MaxCalls /\ NextItem(p) \in AllItems
    BY <1>1, Numbers DEF Send, Wait, Create, PushItem, Call
  <2>2. CASE Send(p)
    BY <2>1, <2>2 DEF Send, PushItem
  <2>3. CASE Wait(p)
    BY <2>1, <2>3 DEF Wait, PushItem
  <2>4. CASE Create(p)
    BY <2>1, <2>4 DEF Create, PushItem
  <2> QED BY <1>1, <2>2, <2>3, <2>4
<1>2. ASSUME NEW p \in Producers, ClientPush(p) \/ ClientRefuse(p) PROVE RTypes'
  BY <1>2 DEF ClientPush, ClientRefuse
<1>3. ASSUME NEW p \in Producers, Pushed(p) PROVE RTypes'
  BY <1>3, Numbers DEF Pushed, InStep, RInv
<1>4. ASSUME NEW p \in Producers, PushThrows(p) PROVE RTypes'
  <2>1. Value(p) \in AllItems
    BY <1>4, Numbers DEF PushThrows
  <2> QED BY <1>4, <2>1 DEF PushThrows, GiveUp, RInv, InStep
<1>5. ASSUME NEW p \in Producers, Wake(p) \/ Expire(p) PROVE RTypes'
  BY <1>5 DEF Wake, Expire, GiveUp
<1>6. ASSUME NEW p \in Producers, DropHandle(p) \/ DropProxy(p) PROVE RTypes'
  BY <1>6 DEF DropHandle, DropProxy, LetGo
<1>7. ASSUME NEW p \in Producers, Join(p) PROVE RTypes'
  BY <1>7, QueuedFacts DEF Join, Waiters
<1>8. CASE LoopTest \/ TakeCommand \/ NoCommand \/ Stop
  BY <1>8 DEF LoopTest, TakeCommand, NoCommand, Stop
<1>9. CASE ProcessCommands \/ EndIteration
  BY <1>9, CommandFacts DEF ProcessCommands, EndIteration, Waiters
<1>10. CASE UNCHANGED allVars
  BY <1>10 DEF allVars
<1> QED BY <1>1, <1>2, <1>3, <1>4, <1>5, <1>6, <1>7, <1>8, <1>9, <1>10 DEF RenderNext, Running

\* How the stages of calls change.
LEMMA StageOf ==
  ASSUME RInv, NEW t \in Threads, NEW s \in Stages, Goto(t, s)
  PROVE  stage'[t] = s /\ \A u \in Threads \ {t} : stage'[u] = stage[u]
BY DEF RInv, IInv, TypeOK, Goto

\* The thread takes and processes one item after the other.
LEMMA InOrderStep == RInv /\ [RenderNext]_allVars => InOrder'
<1> SUFFICES ASSUME RInv, [RenderNext]_allVars PROVE InOrder'
  OBVIOUS
<1>0. IInv /\ IInv' /\ RTypes /\ InOrder /\ PushedBefore /\ InStep
  BY RenderStepIsQueueStep, TypeStep, HistoryStep DEF RInv, IInv
<1> USE OneConsumer DEF Stages
\* steps of clients but for Push
<1>1. ASSUME UNCHANGED <<delivered, History, processed, thread>>,
             stage'[Render] = stage[Render],
             \A i \in 1..Len(History) : History[i] \in posted' => History[i] \in posted
      PROVE  InOrder'
  BY <1>0, <1>1 DEF InOrder
<1>2. ASSUME NEW p \in Producers, Send(p) \/ Wait(p) \/ Create(p) PROVE InOrder'
  BY <1>0, <1>1, <1>2, StageOf
     DEF Send, Wait, Create, PushItem, Call, History, serverVars, Threads
<1>3. ASSUME NEW p \in Producers, ClientPush(p) PROVE InOrder'
  <2>1. /\ History' = Append(History, Value(p)) /\ delivered' = delivered
        /\ stage[p] = "waiting" /\ stage'[Render] = stage[Render]
        /\ UNCHANGED <<processed, posted, thread>>
    BY <1>0, <1>3, AppendRight, StageOf, Numbers
       DEF ClientPush, Push, History, IInv, TypeOK, serverVars, Threads, Items, Value
  <2>2. Value(p) \notin posted
    <3>1. calls[p] \in 1..MaxCalls /\ Value(p) = <<p, calls[p]>>
      BY <2>1, Numbers
    <3> QED BY <1>0, <2>1, <3>1 DEF PushedBefore
  <2>3. /\ Len(History') = Len(History) + 1 /\ History'[Len(History) + 1] = Value(p)
        /\ \A i \in 1..Len(History) : History'[i] = History[i]
    BY <1>0, <2>1, HistoryFacts, AppendIndex
  <2> QED BY <1>0, <2>1, <2>2, <2>3, HistoryFacts DEF InOrder
<1>4. ASSUME NEW p \in Producers, ClientRefuse(p) \/ Pushed(p) PROVE InOrder'
  BY <1>0, <1>1, <1>4, StageOf
     DEF ClientRefuse, Pushed, Refuse, Return, History, serverVars, Threads
<1>5. ASSUME NEW p \in Producers, PushThrows(p) PROVE InOrder'
  <2>1. /\ UNCHANGED <<delivered, History, processed, thread>>
        /\ stage'[Render] = stage[Render]
        /\ posted' \in {posted, posted \cup {Value(p)}}
    BY <1>0, <1>5, StageOf DEF PushThrows, Return, History, Threads, InStep
  <2>2. ~InHistory(Value(p))
    BY <1>0, <1>5, Numbers, HistoryFacts DEF PushThrows, InStep, Truthful
  <2> QED BY <1>0, <1>1, <2>1, <2>2 DEF InHistory
<1>6. ASSUME NEW p \in Producers, Wake(p) \/ Expire(p) \/ DropHandle(p) \/ DropProxy(p)
      PROVE  InOrder'
  BY <1>1, <1>6 DEF Wake, Expire, DropHandle, DropProxy, LetGo, vars, History
<1>7. ASSUME NEW p \in Producers, Join(p) PROVE InOrder'
  BY <1>0, <1>7 DEF Join, vars, InOrder
<1>8. CASE LoopTest \/ NoCommand
  <2>1. stage[Render] # "done" /\ stage'[Render] # "done"
    BY <1>0, <1>8, StageOf DEF LoopTest, NoCommand, Call, Refuse, Return
  <2>2. UNCHANGED <<delivered, History, processed, thread, posted>>
    BY <1>8 DEF LoopTest, NoCommand, Call, Refuse, Return, History, serverVars
  <2> QED BY <1>0, <2>1, <2>2 DEF InOrder
<1>9. CASE TakeCommand
  <2>1. /\ stage[Render] = "waiting" /\ stage'[Render] = "done" /\ queue # <<>>
        /\ delivered' = Append(delivered, Head(queue)) /\ UNCHANGED <<processed, posted, thread>>
    BY <1>0, <1>9, StageOf DEF TakeCommand, Pop, Ready, serverVars
  <2>2. History' = History
    BY <1>0, <1>9, <2>1, MoveBorder DEF TakeCommand, Pop, History, IInv, TypeOK
  <2>3. /\ Len(delivered') = Len(delivered) + 1
        /\ \A i \in 1..Len(delivered) : delivered'[i] = delivered[i]
    BY <1>0, <2>1, HistoryFacts, AppendIndex
  <2> QED BY <1>0, <2>1, <2>2, <2>3, HistoryFacts DEF InOrder
<1>10. CASE ProcessCommands
  BY <1>0, <1>10 DEF ProcessCommands, InOrder, History, vars
<1>11. CASE EndIteration
  <2>1. /\ stage[Render] = "done" /\ stage'[Render] # "done" /\ Command \in processed
        /\ UNCHANGED <<delivered, History, processed, thread>>
        /\ posted' \subseteq posted \cup {Command}
    BY <1>0, <1>11, StageOf DEF EndIteration, Return, History, Waiters
  <2>2. /\ Len(delivered) \in 1..Len(History) /\ Command = delivered[Len(delivered)]
        /\ Command = History[Len(delivered)]
    BY <1>0, <2>1, CommandFacts, HistoryFacts DEF InOrder, Command
  <2>3. \A i \in 1..Len(History) : History[i] = Command => i = Len(delivered)
    BY <1>0, <2>2, HistoryFacts
  <2> QED BY <1>0, <2>1, <2>2, <2>3, HistoryFacts DEF InOrder
<1>12. CASE Stop
  BY <1>0, <1>12 DEF Stop, InOrder, History, vars
<1>13. CASE UNCHANGED allVars
  BY <1>0, <1>13 DEF allVars, vars, serverVars, InOrder, History
<1> QED BY <1>2, <1>3, <1>4, <1>5, <1>6, <1>7, <1>8, <1>9, <1>10, <1>11, <1>12, <1>13
        DEF RenderNext, Running

\* Items are posted and processed behind their push.
LEMMA PushedBeforeStep == RInv /\ [RenderNext]_allVars => PushedBefore'
<1> SUFFICES ASSUME RInv, [RenderNext]_allVars, NEW p \in Producers, NEW n \in 1..MaxCalls
             PROVE  /\ <<p, n>> \in posted' =>
                         n < calls'[p] \/ (n = calls'[p] /\ stage'[p] # "waiting")
                    /\ <<p, n>> \in processed' => n <= calls'[p]
  BY DEF PushedBefore
<1> DEFINE Behind == n < calls[p] \/ (n = calls[p] /\ stage[p] # "waiting")
<1>0. /\ IInv /\ calls[p] \in Nat /\ p \in Threads /\ p # Render
      /\ <<p, n>> \in posted => Behind
      /\ <<p, n>> \in processed => n <= calls[p]
  BY Numbers DEF RInv, PushedBefore
<1> USE OneConsumer DEF Stages, Threads
\* steps that neither call nor end the processing of an item
<1>1. ASSUME UNCHANGED calls, stage[p] # "waiting" => stage'[p] # "waiting",
             <<p, n>> \in processed' => <<p, n>> \in processed \/ n <= calls[p],
             <<p, n>> \in posted' => <<p, n>> \in posted \/ Behind
      PROVE  /\ <<p, n>> \in posted' =>
                  n < calls'[p] \/ (n = calls'[p] /\ stage'[p] # "waiting")
             /\ <<p, n>> \in processed' => n <= calls'[p]
  BY <1>0, <1>1
<1>2. ASSUME NEW q \in Producers, Send(q) \/ Wait(q) \/ Create(q)
      PROVE  /\ <<p, n>> \in posted' =>
                  n < calls'[p] \/ (n = calls'[p] /\ stage'[p] # "waiting")
             /\ <<p, n>> \in processed' => n <= calls'[p]
  <2>1. /\ Goto(q, "waiting") /\ UNCHANGED <<posted, processed>>
        /\ calls' = [calls EXCEPT ![q] = @ + 1] /\ stage[q] = "idle"
    BY <1>2 DEF Send, Wait, Create, PushItem, Call, serverVars
  <2>2. p # q => stage'[p] = stage[p] /\ calls'[p] = calls[p]
    BY <1>0, <2>1, StageOf DEF IInv, TypeOK
  <2>3. p = q => calls'[p] = calls[p] + 1
    BY <1>0, <2>1 DEF IInv, TypeOK
  <2> QED BY <1>0, <2>1, <2>2, <2>3
<1>3. ASSUME NEW q \in Producers, ClientPush(q) \/ ClientRefuse(q) \/ Pushed(q)
      PROVE  UNCHANGED <<calls, posted, processed>>
             /\ (stage[p] # "waiting" => stage'[p] # "waiting")
  BY <1>3, StageOf DEF ClientPush, ClientRefuse, Pushed, Push, Refuse, Return, serverVars
<1>4. ASSUME NEW q \in Producers, PushThrows(q)
      PROVE  /\ UNCHANGED <<calls, processed>>
             /\ stage[p] # "waiting" => stage'[p] # "waiting"
             /\ <<p, n>> \in posted' => <<p, n>> \in posted \/ Behind
  <2>1. posted' \in {posted, posted \cup {Value(q)}} /\ stage[q] = "refused" /\ Goto(q, "idle")
    BY <1>4 DEF PushThrows, Return, RInv, InStep
  <2>2. UNCHANGED <<calls, processed>>
    BY <1>4 DEF PushThrows, Return
  <2>3. Value(q) = <<q, calls[q]>>
    BY DEF Value
  <2> QED BY <2>1, <2>2, <2>3, StageOf
<1>5. ASSUME NEW q \in Producers, Wake(q) \/ Expire(q) \/ DropHandle(q) \/ DropProxy(q)
      PROVE  UNCHANGED <<calls, stage, posted, processed>>
  BY <1>5 DEF Wake, Expire, DropHandle, DropProxy, LetGo, vars
<1>6. ASSUME NEW q \in Producers, Join(q)
      PROVE  /\ UNCHANGED <<calls, stage, processed>>
             /\ <<p, n>> \in posted' => <<p, n>> \in posted \/ Behind
  BY <1>6, QueuedFacts DEF Join, vars, Waiters
<1>7. CASE LoopTest \/ TakeCommand \/ NoCommand \/ Stop
  <2>1. UNCHANGED <<calls, posted, processed>>
    BY <1>7 DEF LoopTest, TakeCommand, NoCommand, Stop, Call, Pop, Refuse, Return, serverVars, vars
  <2>2. stage'[p] = stage[p]
    BY <1>0, <1>7 DEF LoopTest, TakeCommand, NoCommand, Stop, Call, Pop, Refuse, Return, vars,
                      Goto, IInv, TypeOK
  <2> QED BY <1>1, <2>1, <2>2
<1>8. CASE ProcessCommands
  <2>1. UNCHANGED <<calls, stage, posted>> /\ processed' = processed \cup {Command}
        /\ stage[Render] = "done"
    BY <1>8 DEF ProcessCommands, vars
  <2> QED BY <1>1, <2>1, CommandFacts
<1>9. CASE EndIteration
  <2>1. /\ UNCHANGED <<calls, processed>> /\ posted' \subseteq posted \cup {Command}
        /\ Command \in processed /\ stage[Render] = "done" /\ stage'[p] = stage[p]
    BY <1>0, <1>9, StageOf DEF EndIteration, Return, Waiters
  <2>2. Command = <<p, n>> => Behind
    <3>1. InHistory(Command)
      BY <2>1, CommandFacts, HistoryFacts DEF InHistory, RInv, InOrder
    <3> QED BY <1>0, <3>1, HistoryFacts DEF Truthful
  <2> QED BY <1>1, <2>1, <2>2
<1>10. CASE UNCHANGED allVars
  BY <1>1, <1>10 DEF allVars, vars, serverVars
<1> QED BY <1>1, <1>2, <1>3, <1>4, <1>5, <1>6, <1>7, <1>8, <1>9, <1>10 DEF RenderNext, Running

\* A client's state follows the stage of its call.
LEMMA InStepStep == RInv /\ [RenderNext]_allVars => InStep'
<1> SUFFICES ASSUME RInv, [RenderNext]_allVars, NEW p \in Producers
             PROVE  /\ client'[p] \in {"sending", "creating", "posting"} <=> stage'[p] # "idle"
                    /\ stage'[p] = "done" => Value(p)' \notin refused'
                    /\ stage'[p] = "refused" => Value(p)' \in refused'
                    /\ client'[p] \in {"created", "asleep"} => Value(p)' \notin refused'
  BY DEF InStep
<1> DEFINE Fits == /\ client[p] \in {"sending", "creating", "posting"} <=> stage[p] # "idle"
                   /\ stage[p] = "done" => Value(p) \notin refused
                   /\ stage[p] = "refused" => Value(p) \in refused
                   /\ client[p] \in {"created", "asleep"} => Value(p) \notin refused
<1>0. /\ IInv /\ RTypes /\ Fits /\ calls[p] \in 0..MaxCalls /\ p \in Threads /\ p # Render
      /\ \A q \in Producers : Value(q) = <<q, calls[q]>>
  BY Numbers DEF RInv, InStep
<1> USE OneConsumer DEF Stages, Threads
\* steps that are not p's
<1>1. ASSUME client'[p] = client[p], stage'[p] = stage[p], calls'[p] = calls[p],
             Value(p) \in refused' <=> Value(p) \in refused
      PROVE  Fits'
  <2>1. Value(p)' = Value(p)
    BY <1>1 DEF Value
  <2> QED BY <1>0, <1>1, <2>1
<1>2. ASSUME NEW q \in Producers, Send(q) \/ Wait(q) \/ Create(q) PROVE Fits'
  <2>1. /\ Goto(q, "waiting") /\ calls' = [calls EXCEPT ![q] = @ + 1] /\ UNCHANGED refused
        /\ \E c \in {"sending", "posting", "creating"} : client' = [client EXCEPT ![q] = c]
    BY <1>2 DEF Send, Wait, Create, PushItem, Call, Become
  <2>2. CASE q # p
    BY <1>0, <1>1, <2>1, <2>2, StageOf DEF RTypes, IInv, TypeOK
  <2>3. CASE q = p
    BY <1>0, <2>1, <2>3, StageOf DEF RTypes
  <2> QED BY <2>2, <2>3
<1>3. ASSUME NEW q \in Producers, ClientPush(q) PROVE Fits'
  <2>1. /\ Goto(q, "done") /\ stage[q] = "waiting" /\ UNCHANGED <<client, calls, refused>>
    BY <1>3 DEF ClientPush, Push, clientVars
  <2>2. Value(q) \notin refused
    BY <2>1, Numbers, HistoryFacts, <1>0 DEF Truthful
  <2>3. CASE q # p
    BY <1>0, <1>1, <2>1, <2>3, StageOf
  <2>4. CASE q = p
    BY <1>0, <2>1, <2>2, <2>4, StageOf DEF Value
  <2> QED BY <2>3, <2>4
<1>4. ASSUME NEW q \in Producers, ClientRefuse(q) PROVE Fits'
  <2>1. /\ Goto(q, "refused") /\ stage[q] = "waiting" /\ UNCHANGED <<client, calls>>
        /\ refused' = refused \cup {Value(q)}
    BY <1>4 DEF ClientRefuse, Refuse, clientVars
  <2>2. CASE q # p
    BY <1>0, <1>1, <2>1, <2>2, StageOf
  <2>3. CASE q = p
    BY <1>0, <2>1, <2>3, StageOf DEF Value
  <2> QED BY <2>2, <2>3
<1>5. ASSUME NEW q \in Producers, Pushed(q) PROVE Fits'
  <2>1. /\ Goto(q, "idle") /\ stage[q] = "done" /\ UNCHANGED <<calls, refused>>
        /\ client[q] \in {"sending", "creating", "posting"}
        /\ \E c \in {"idle", "created", "asleep"} : client' = [client EXCEPT ![q] = c]
    BY <1>5 DEF Pushed, Return, Become, RInv, InStep
  <2>2. CASE q # p
    BY <1>0, <1>1, <2>1, <2>2, StageOf DEF RTypes
  <2>3. CASE q = p
    BY <1>0, <2>1, <2>3, StageOf DEF Value, RTypes
  <2> QED BY <2>2, <2>3
<1>6. ASSUME NEW q \in Producers, PushThrows(q) PROVE Fits'
  <2>1. /\ Goto(q, "idle") /\ UNCHANGED <<calls, refused>>
        /\ client' = [client EXCEPT ![q] = "idle"]
    BY <1>6 DEF PushThrows, Return, GiveUp, Become
  <2>2. CASE q # p
    BY <1>0, <1>1, <2>1, <2>2, StageOf DEF RTypes
  <2>3. CASE q = p
    BY <1>0, <2>1, <2>3, StageOf DEF Value, RTypes
  <2> QED BY <2>2, <2>3
<1>7. ASSUME NEW q \in Producers,
             Wake(q) \/ Expire(q) \/ DropHandle(q) \/ DropProxy(q) \/ Join(q)
      PROVE  Fits'
  <2>1. /\ UNCHANGED <<stage, calls, refused>> /\ client[q] \in {"idle", "asleep", "joining"}
        /\ \/ UNCHANGED client
           \/ \E c \in {"idle", "joining"} : client' = [client EXCEPT ![q] = c]
    BY <1>7 DEF Wake, Expire, DropHandle, DropProxy, Join, LetGo, GiveUp, Become, vars
  <2> QED BY <1>0, <2>1 DEF Value, RTypes
<1>8. CASE LoopTest \/ TakeCommand \/ NoCommand \/ EndIteration
  <2>1. /\ UNCHANGED <<client, calls>> /\ refused' = refused
        /\ stage'[p] = stage[p]
    BY <1>0, <1>8 DEF LoopTest, TakeCommand, NoCommand, EndIteration, Call, Pop, Refuse, Return,
                      clientVars, Goto, IInv, TypeOK
  <2> QED BY <1>1, <2>1
<1>9. CASE ProcessCommands \/ Stop \/ UNCHANGED allVars
  BY <1>1, <1>9 DEF ProcessCommands, Stop, allVars, vars, clientVars
<1> QED BY <1>2, <1>3, <1>4, <1>5, <1>6, <1>7, <1>8, <1>9 DEF RenderNext, Running

\* Who waits for the thread has it.
LEMMA OwnedStep == RInv /\ [RenderNext]_allVars => Owned'
<1> SUFFICES ASSUME RInv, [RenderNext]_allVars PROVE Owned'
  OBVIOUS
<1>0. Owned /\ RTypes /\ InStep
  BY DEF RInv
<1> USE <1>0 DEF Owned, RTypes, Holders, Become
<1>1. ASSUME NEW p \in Producers, Send(p) \/ Wait(p) \/ Create(p) PROVE Owned'
  BY <1>1 DEF Send, Wait, Create, serverVars
<1>2. ASSUME NEW p \in Producers, ClientPush(p) \/ ClientRefuse(p) PROVE Owned'
  BY <1>2 DEF ClientPush, ClientRefuse, clientVars, serverVars
<1>3. ASSUME NEW p \in Producers, Pushed(p) \/ PushThrows(p) PROVE Owned'
  <2>1. /\ UNCHANGED <<handle, proxy, stop_request, thread>>
        /\ \/ client' = [client EXCEPT ![p] = "idle"]
           \/ /\ client[p] \in {"creating", "posting"}
              /\ \E c \in {"created", "asleep"} : client' = [client EXCEPT ![p] = c]
    BY <1>3 DEF Pushed, PushThrows, Return, GiveUp, serverVars, InStep
  <2> QED BY <2>1
<1>4. ASSUME NEW p \in Producers, Wake(p) \/ Expire(p) PROVE Owned'
  <2>1. p \in Holders /\ ~stop_request
    BY <1>4 DEF Wake, Expire
  <2> QED BY <1>4, <2>1 DEF Wake, Expire, GiveUp
<1>5. ASSUME NEW p \in Producers, DropHandle(p) \/ DropProxy(p) PROVE Owned'
  BY <1>5 DEF DropHandle, DropProxy, LetGo
<1>6. ASSUME NEW p \in Producers, Join(p) PROVE Owned'
  BY <1>6 DEF Join
<1>7. CASE Running \/ UNCHANGED allVars
  <2>1. UNCHANGED <<client, handle, proxy, stop_request>>
    BY <1>7 DEF Running, LoopTest, TakeCommand, NoCommand, ProcessCommands, EndIteration, Stop,
                allVars, clientVars, serverVars
  <2>2. thread' = thread \/ stop_request
    BY <1>7 DEF Running, LoopTest, TakeCommand, NoCommand, ProcessCommands, EndIteration, Stop,
                allVars, serverVars
  <2> QED BY <2>1, <2>2
<1> QED BY <1>1, <1>2, <1>3, <1>4, <1>5, <1>6, <1>7 DEF RenderNext

\* A creator stays what it is until its client has its answer.
LEMMA CreationsStep == RInv /\ [RenderNext]_allVars => Creations'
<1> SUFFICES ASSUME RInv, [RenderNext]_allVars, NEW p \in Producers, creation'[p] # None
             PROVE  \E n \in 1..MaxCalls : creation'[p] = <<p, n>> /\ Awaited(p, n)'
  BY DEF Creations
<1> DEFINE Goal == \E n \in 1..MaxCalls : creation'[p] = <<p, n>> /\ Awaited(p, n)'
<1>0. /\ IInv /\ RTypes /\ InStep /\ calls[p] \in 0..MaxCalls /\ p \in Threads /\ p # Render
      /\ creation[p] # None => \E n \in 1..MaxCalls : creation[p] = <<p, n>> /\ Awaited(p, n)
  BY Numbers DEF RInv, Creations
<1> USE OneConsumer DEF Stages, Threads, Become
\* steps that are not p's
<1>1. ASSUME creation'[p] = creation[p], client'[p] = client[p], calls'[p] = calls[p],
             \A n \in 1..MaxCalls : /\ n <= calls[p] => item'[<<p, n>>] = item[<<p, n>>]
                                    /\ <<p, n>> \in refused' => <<p, n>> \in refused
      PROVE  Goal
  <2>1. PICK n \in 1..MaxCalls : creation[p] = <<p, n>> /\ Awaited(p, n)
    BY <1>0, <1>1
  <2>2. n <= calls[p]
    BY <1>0, <2>1 DEF Awaited
  <2>3. Awaited(p, n)'
    BY <1>0, <1>1, <2>1, <2>2 DEF Awaited
  <2> QED BY <1>1, <2>1, <2>3
<1>2. ASSUME NEW q \in Producers, Send(q) \/ Wait(q) \/ Create(q) PROVE Goal
  <2>1. /\ calls' = [calls EXCEPT ![q] = @ + 1] /\ UNCHANGED refused /\ calls[q] < MaxCalls
        /\ \E k \in {"commands", "creator", "waiter"}, c \in AllItems \cup {None} :
             item' = [item EXCEPT ![<<q, calls[q] + 1>>] = [kind |-> k, connection |-> c]]
    BY <1>0, <1>2 DEF Send, Wait, Create, PushItem, Call, NextItem, RTypes
  <2>2. /\ calls[q] \in 0..MaxCalls
        /\ \A n \in 1..MaxCalls : (q # p \/ n <= calls[p]) => item'[<<p, n>>] = item[<<p, n>>]
    BY <1>0, <2>1, Numbers DEF RTypes, AllItems
  <2>3. CASE q # p
    <3>1. /\ creation'[p] = creation[p] /\ client'[p] = client[p] /\ calls'[p] = calls[p]
      BY <1>0, <1>2, <2>1, <2>3 DEF Send, Wait, Create, RTypes, IInv, TypeOK
    <3> QED BY <1>1, <2>1, <2>2, <2>3, <3>1
  <2>4. CASE q = p /\ Create(p)
    <3> DEFINE n == calls[p] + 1
    <3>1. n \in 1..MaxCalls /\ <<p, n>> \in AllItems
      BY <1>0, <2>1, <2>4, QueueAssumption DEF AllItems
    <3>2. creation'[p] = <<p, n>> /\ client'[p] = "creating" /\ calls'[p] = n
      BY <1>0, <2>1, <2>4 DEF Create, NextItem, RTypes, IInv, TypeOK
    <3>3. item'[<<p, n>>] = [kind |-> "creator", connection |-> None]
      BY <1>0, <2>4, <3>1 DEF Create, PushItem, NextItem, RTypes
    <3> QED BY <3>1, <3>2, <3>3 DEF Awaited
  <2>5. CASE q = p /\ ~Create(p)
    <3>1. /\ creation' = creation /\ client[p] \in {"idle", "created"}
          /\ client[p] # "idle" => client'[p] = "posting"
      BY <1>0, <1>2, <2>5 DEF Send, Wait, RTypes
    <3>2. PICK n \in 1..MaxCalls : creation[p] = <<p, n>> /\ Awaited(p, n)
      BY <1>0, <3>1
    <3>3. client[p] = "created" /\ n = calls[p] /\ calls'[p] = calls[p] + 1
      BY <1>0, <2>1, <2>5, <3>1, <3>2 DEF Awaited, IInv, TypeOK
    <3>4. client'[p] = "posting" /\ n < calls'[p] /\ n <= calls[p]
      BY <1>0, <3>1, <3>3
    <3>5. item'[<<p, n>>] = item[<<p, n>>]
      BY <2>2, <3>4
    <3>6. Awaited(p, n)'
      BY <2>1, <3>2, <3>3, <3>4, <3>5 DEF Awaited
    <3> QED BY <3>1, <3>2, <3>6
  <2> QED BY <1>2, <2>3, <2>4, <2>5
<1>3. ASSUME NEW q \in Producers, ClientPush(q) PROVE Goal
  BY <1>1, <1>3 DEF ClientPush, Push, clientVars
<1>4. ASSUME NEW q \in Producers, ClientRefuse(q) PROVE Goal
  <2>1. /\ UNCHANGED <<calls, clientVars>> /\ refused' = refused \cup {<<q, calls[q]>>}
        /\ stage[q] = "waiting"
    BY <1>4 DEF ClientRefuse, Refuse, Value
  <2>2. CASE q # p
    BY <1>1, <2>1, <2>2 DEF clientVars
  <2>3. CASE q = p
    <3>1. PICK n \in 1..MaxCalls : creation[p] = <<p, n>> /\ Awaited(p, n)
      BY <1>0, <2>1 DEF clientVars
    <3>2. client[p] \in {"creating", "posting"}
      BY <1>0, <2>1, <2>3, <3>1 DEF InStep, Awaited
    <3>3. Awaited(p, n)'
      BY <1>0, <2>1, <2>3, <3>1, <3>2 DEF Awaited, clientVars
    <3> QED BY <2>1, <3>1, <3>3 DEF clientVars
  <2> QED BY <2>2, <2>3
<1>5. ASSUME NEW q \in Producers, Pushed(q) PROVE Goal
  <2>1. /\ UNCHANGED <<calls, refused, item, creation>> /\ stage[q] = "done"
        /\ client[q] \in {"sending", "creating", "posting"}
        /\ \E c \in {"idle", "created", "asleep"} :
             /\ client' = [client EXCEPT ![q] = c]
             /\ client[q] = "creating" => c = "created"
             /\ client[q] = "posting" => c = "asleep"
    BY <1>0, <1>5 DEF Pushed, Return, InStep
  <2>2. CASE q # p
    BY <1>0, <1>1, <2>1, <2>2 DEF RTypes
  <2>3. CASE q = p
    <3>1. PICK n \in 1..MaxCalls : creation[p] = <<p, n>> /\ Awaited(p, n)
      BY <1>0, <2>1
    <3>2. \/ client[p] = "creating" /\ client'[p] = "created"
          \/ client[p] = "posting" /\ client'[p] = "asleep"
      BY <1>0, <2>1, <2>3, <3>1 DEF Awaited, RTypes
    <3>3. client[p] = "creating" => <<p, n>> \notin refused
      BY <1>0, <2>1, <2>3, <3>1 DEF Awaited, InStep, Value
    <3> QED BY <2>1, <3>1, <3>2, <3>3 DEF Awaited
  <2> QED BY <2>2, <2>3
<1>6. ASSUME NEW q \in Producers, PushThrows(q) \/ Wake(q) \/ Expire(q) PROVE Goal
  <2>1. /\ UNCHANGED <<calls, refused, item>>
        /\ client' = [client EXCEPT ![q] = "idle"] /\ creation' = [creation EXCEPT ![q] = None]
    BY <1>6 DEF PushThrows, Wake, Expire, GiveUp, Return, vars
  <2>2. q # p
    BY <1>0, <2>1 DEF RTypes
  <2> QED BY <1>0, <1>1, <2>1, <2>2 DEF RTypes
<1>7. ASSUME NEW q \in Producers, DropHandle(q) \/ DropProxy(q) \/ Join(q) PROVE Goal
  <2>1. /\ UNCHANGED <<calls, refused, item, creation>> /\ client[q] \in {"idle", "joining"}
        /\ \/ UNCHANGED client
           \/ \E c \in {"idle", "joining"} : client' = [client EXCEPT ![q] = c]
    BY <1>7 DEF DropHandle, DropProxy, Join, LetGo, vars
  <2>2. q = p => client[p] = client'[p]
    BY <1>0, <2>1 DEF Awaited
  <2> QED BY <1>0, <1>1, <2>1, <2>2 DEF RTypes
<1>8. CASE Running \/ UNCHANGED allVars
  <2>1. UNCHANGED <<calls, item, creation, client>>
    BY <1>8 DEF Running, LoopTest, TakeCommand, NoCommand, ProcessCommands, EndIteration, Stop,
                Call, Pop, Refuse, Return, allVars, vars, clientVars
  <2>2. refused' = refused
    BY <1>8 DEF Running, LoopTest, TakeCommand, NoCommand, ProcessCommands, EndIteration, Stop,
                Call, Pop, Refuse, Return, allVars, vars
  <2> QED BY <1>1, <2>1, <2>2
<1> QED BY <1>2, <1>3, <1>4, <1>5, <1>6, <1>7, <1>8 DEF RenderNext

\* A creator that was processed keeps its result.
LEMMA ResultsStep == RInv /\ [RenderNext]_allVars => Results'
<1> SUFFICES ASSUME RInv, [RenderNext]_allVars, NEW c \in processed', item'[c].kind = "creator"
             PROVE  result'[c] \in {"made", "failed"}
  BY DEF Results
<1>0. RTypes /\ PushedBefore /\ \A d \in processed : item[d].kind = "creator"
                                                    => result[d] \in {"made", "failed"}
  BY DEF RInv, Results
<1>1. CASE ProcessCommands
  <2>1. UNCHANGED item /\ processed' = processed \cup {Command} /\ Command \in AllItems
    BY <1>1, CommandFacts DEF ProcessCommands, clientVars
  <2> QED BY <1>0, <1>1, <2>1 DEF ProcessCommands, RTypes
<1>2. ASSUME NEW q \in Producers, Send(q) \/ Wait(q) \/ Create(q)
      PROVE  result'[c] \in {"made", "failed"}
  <2>1. /\ UNCHANGED <<processed, result>> /\ calls[q] < MaxCalls
        /\ \E i : item' = [item EXCEPT ![<<q, calls[q] + 1>>] = i]
    BY <1>2 DEF Send, Wait, Create, PushItem, Call, NextItem, serverVars
  <2>2. PICK p \in Producers, n \in 1..MaxCalls : c = <<p, n>> /\ n <= calls[p]
    BY <1>0, <2>1 DEF RTypes, PushedBefore, AllItems
  <2>3. calls[q] \in 0..MaxCalls
    BY Numbers
  <2>4. <<q, calls[q] + 1>> # c
    BY <2>2, <2>3
  <2>5. item'[c] = item[c]
    BY <1>0, <2>1, <2>2, <2>4 DEF RTypes, AllItems
  <2> QED BY <1>0, <2>1, <2>5
<1>3. ASSUME NEW q \in Producers,
             ClientPush(q) \/ ClientRefuse(q) \/ Pushed(q) \/ PushThrows(q) \/ Wake(q)
               \/ Expire(q) \/ DropHandle(q) \/ DropProxy(q) \/ Join(q)
      PROVE  UNCHANGED <<item, processed, result>>
  BY <1>3 DEF ClientPush, ClientRefuse, Pushed, PushThrows, Wake, Expire, DropHandle, DropProxy,
              LetGo, Join, clientVars, serverVars
<1>4. CASE LoopTest \/ TakeCommand \/ NoCommand \/ EndIteration \/ Stop \/ UNCHANGED allVars
  <2>1. UNCHANGED <<item, processed, result>>
    BY <1>4 DEF LoopTest, TakeCommand, NoCommand, EndIteration, Stop, clientVars, serverVars, allVars
  <2> QED BY <1>0, <2>1
<1> QED BY <1>0, <1>1, <1>2, <1>3, <1>4 DEF RenderNext, Running

-----------------------------------------------------------------------------
\* What a client relies on follows from the invariant.
LEMMA InvGivesWait == RInv => WaitMeansDone
<1> SUFFICES ASSUME RInv PROVE WaitMeansDone
  OBVIOUS
<1>0. IInv /\ DOMAIN History = 1..Len(History) /\ Len(delivered) <= Len(History)
  BY HistoryFacts DEF RInv
<1>1. ASSUME NEW i \in 1..Len(History), NEW j \in 1..Len(History), i < j,
             History[j] \in posted, thread # "destroyed"
      PROVE  History[i] \in processed
  <2>1. j <= Len(delivered) /\ i \in 1..Len(delivered) /\ i < Len(delivered)
    BY <1>0, <1>1, HistoryFacts DEF RInv, InOrder
  <2> QED BY <1>0, <2>1, HistoryFacts DEF RInv, InOrder
<1>2. ASSUME NEW p \in Producers, client[p] = "asleep", Value(p) \in posted, creation[p] # None
      PROVE  result[creation[p]] \in {"made", "failed"}
  <2>1. thread # "destroyed" /\ stage[p] = "idle" /\ Value(p) \notin refused
    BY <1>2, Numbers DEF RInv, Owned, Holders, InStep
  <2>2. PICK n \in 1..MaxCalls : creation[p] = <<p, n>> /\ Awaited(p, n)
    BY <1>2 DEF RInv, Creations
  <2>3. n < calls[p] /\ <<p, n>> \notin refused /\ calls[p] \in 1..MaxCalls
    BY <1>2, <2>2, Numbers DEF Awaited
  <2>4. PICK i \in 1..Len(History) : History[i] = <<p, n>>
    BY <1>0, <2>3, HistoryFacts DEF Truthful, InHistory
  <2>5. PICK j \in 1..Len(History) : History[j] = <<p, calls[p]>>
    BY <1>0, <2>1, <2>3, HistoryFacts DEF Truthful, InHistory, Value
  <2>6. i < j
    <3>1. i # j /\ (j < i => calls[p] < n)
      BY <1>0, <2>3, <2>4, <2>5 DEF IInv, Fifo
    <3> QED BY <2>3, <3>1
  <2>7. <<p, n>> \in processed
    BY <1>1, <1>2, <2>1, <2>4, <2>5, <2>6 DEF Value
  <2> QED BY <2>2, <2>7 DEF Awaited, RInv, Results
<1> QED BY <1>0, <1>1, <1>2 DEF WaitMeansDone

\* The invariant of the render thread, for any clients, capacity and calls.
THEOREM RenderInductive == RenderSpec => []RInv
<1>1. RInv /\ [RenderNext]_allVars => RInv'
  <2>1. RInv /\ [RenderNext]_allVars => IInv'
    BY RenderStepIsQueueStep, TypeStep, HistoryStep DEF RInv, IInv
  <2> QED BY <2>1, RTypesStep, InOrderStep, PushedBeforeStep, InStepStep, OwnedStep,
             CreationsStep, ResultsStep DEF RInv
<1> QED BY <1>1, RenderInitInv, PTL DEF RenderSpec

\* When WaitQueuedCommands returns true, what was pushed before is done; and a
\* creator's client finds its connection or the exception.
THEOREM WaitIsReliable == RenderSpec => []WaitMeansDone
BY RenderInductive, InvGivesWait, PTL
=============================================================================
