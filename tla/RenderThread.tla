---------------------------- MODULE RenderThread ----------------------------
(***************************************************************************)
(* The render thread of the server and its clients                         *)
(* (src/components/render/scene_render/interchange/sources/                *)
(* render_interchange_render_thread.cpp), over the command queue as        *)
(* BoundedQueue describes it.  Clients send commands through a proxy, wait *)
(* until everything queued is done, and have connections made on the       *)
(* render thread; the last reference to the thread stops and joins it.     *)
(*                                                                         *)
(* A connection has the name of the queue item that asked for it.          *)
(***************************************************************************)
EXTENDS BoundedQueue, FiniteSets

CONSTANTS Patient,  \* clients that give no time limit
          Brief,    \* bound: clients that push one item
          None

ASSUME RenderThreadAssumption ==
  /\ \E r \in Consumers : Consumers = {r}
  /\ IsFiniteSet(Producers)
  /\ Patient \subseteq Producers /\ Brief \subseteq Producers
  /\ None \notin Items

VARIABLES item,          \* what each client has pushed: kind and connection
          client,        \* what each client is doing
          creation,      \* the creator item of a CreateConnectionFromThread
          handle,        \* does the client hold the RenderThread?
          proxy,         \* the source connection of its ProxyConnection
          processed,     \* items whose ProcessCommands was called
          result,        \* what the creator items have made: CreatorConnection::Result
          use_count,     \* references to each connection
          posted,        \* waiter items whose semaphore is posted
          stop_request,
          thread,        \* is the thread running?
          returned       \* history: connections returned to clients

clientVars == <<item, client, creation, handle, proxy, returned>>
serverVars == <<processed, result, use_count, posted, stop_request, thread>>
allVars    == <<vars, clientVars, serverVars>>

Render == CHOOSE r \in Consumers : TRUE
AllItems == Producers \X (1..MaxCalls)

RenderInit ==
  /\ Init
  /\ item = [i \in AllItems |-> None]
  /\ client = [p \in Producers |-> "idle"]
  /\ creation = [p \in Producers |-> None]
  /\ handle = [p \in Producers |-> TRUE]
  /\ proxy = [p \in Producers |-> None]
  /\ processed = {} /\ posted = {} /\ returned = {}
  /\ result = [i \in AllItems |-> "none"]
  /\ use_count = [i \in AllItems |-> 0]
  /\ stop_request = FALSE /\ thread = "running"

Become(p, what) == client' = [client EXCEPT ![p] = what]
NextItem(p) == <<p, calls[p] + 1>>

\* A CommandQueueItem is made and CommandQueue::Push called with it.
PushItem(p, kind, connection) ==
  /\ p \in Brief => calls[p] = 0
  /\ Call(p, FALSE)
  /\ item' = [item EXCEPT ![NextItem(p)] = [kind |-> kind, connection |-> connection]]

-----------------------------------------------------------------------------
(* Clients. *)

\* ProxyConnection::ProcessCommands; the item refers to the connection.
Send(p) ==
  /\ client[p] = "idle" /\ proxy[p] # None
  /\ PushItem(p, "commands", proxy[p])
  /\ use_count' = [use_count EXCEPT ![proxy[p]] = @ + 1]
  /\ Become(p, "sending")
  /\ UNCHANGED <<creation, handle, proxy, returned, processed, result, posted, stop_request, thread>>

\* WaitQueuedCommands, or the part of CreateConnectionFromThread it is.
Wait(p) ==
  /\ handle[p] /\ client[p] \in {"idle", "created"}
  /\ PushItem(p, "waiter", None)
  /\ Become(p, "posting")
  /\ UNCHANGED <<creation, handle, proxy, returned, serverVars>>

\* CreateConnectionFromThread.
Create(p) ==
  /\ handle[p] /\ client[p] = "idle" /\ proxy[p] = None
  /\ p \notin Brief /\ calls[p] + 1 < MaxCalls
  /\ PushItem(p, "creator", None)
  /\ creation' = [creation EXCEPT ![p] = NextItem(p)]
  /\ Become(p, "creating")
  /\ UNCHANGED <<handle, proxy, returned, serverVars>>

ClientPush(p) == Push(p) /\ UNCHANGED <<clientVars, serverVars>>
ClientRefuse(p) == Refuse(p) /\ UNCHANGED <<clientVars, serverVars>>

Pushed_Done(p) ==  \* (fault) the item does not keep its connection alive
  /\ stage[p] = "done" /\ Return(p)
  /\ Become(p, CASE client[p] = "sending"  -> "idle"
                 [] client[p] = "creating" -> "created"
                 [] client[p] = "posting"  -> "asleep")
  /\ posted' = IF client[p] = "posting" THEN posted \cup {Value(p)} ELSE posted
  /\ UNCHANGED <<item, creation, handle, proxy, returned, processed, result, use_count,
                 stop_request, thread>>
Pushed(p) ==
  /\ stage[p] = "done" /\ Return(p)
  /\ Become(p, CASE client[p] = "sending"  -> "idle"
                 [] client[p] = "creating" -> "created"
                 [] client[p] = "posting"  -> "asleep")
  /\ UNCHANGED <<item, creation, handle, proxy, returned, serverVars>>

\* The Result of a creator is referred to by the item and by the client that
\* waits for it; the last one to forget it releases the connection.
ForgetResult(p) ==
  LET c == creation[p]
  IN IF c # None /\ result[c] = "made" THEN [use_count EXCEPT ![c] = @ - 1] ELSE use_count

\* Is the creator item of p in the queue, or being processed?
Pending(p) ==
  \E i \in DOMAIN History : /\ History[i] = creation[p]
                            /\ i > Len(delivered) \/ (i = Len(delivered) /\ stage[Render] = "done")

GiveUp(p) ==
  /\ Become(p, "idle")
  /\ creation' = [creation EXCEPT ![p] = None]

\* An interrupted push throws, the item is destroyed with what it refers to: a
\* waiter posts its semaphore.
PushThrows(p) ==
  /\ stage[p] = "refused" /\ Return(p)
  /\ GiveUp(p)
  /\ CASE client[p] = "sending" ->
            /\ use_count' = [use_count EXCEPT ![proxy[p]] = @ - 1]
            /\ UNCHANGED posted
       [] client[p] = "creating" -> UNCHANGED <<use_count, posted>>
       [] client[p] = "posting" ->
            /\ posted' = posted \cup {Value(p)}
            /\ use_count' = IF Pending(p) THEN use_count ELSE ForgetResult(p)
  /\ UNCHANGED <<item, handle, proxy, returned, processed, result, stop_request, thread>>

\* WaitQueuedCommands returns true.  A made connection gets one reference by
\* AddRef and one from the new ProxyConnection, and loses that of the Result.
Wake(p) ==
  /\ client[p] = "asleep" /\ Value(p) \in posted
  /\ GiveUp(p)
  /\ IF creation[p] # None /\ result[creation[p]] = "made"
     THEN /\ proxy' = [proxy EXCEPT ![p] = creation[p]]
          /\ use_count' = [use_count EXCEPT ![creation[p]] = @ + 1 + 1 - 1]
          /\ returned' = returned \cup {creation[p]}
     ELSE UNCHANGED <<proxy, use_count, returned>>
  /\ UNCHANGED <<vars, item, handle, processed, result, posted, stop_request, thread>>

\* TryWait runs out of time, or the wait is interrupted.
Expire(p) ==
  /\ client[p] = "asleep" /\ (p \notin Patient \/ Interrupts)
  /\ GiveUp(p)
  /\ use_count' = IF Pending(p) THEN use_count ELSE ForgetResult(p)
  /\ UNCHANGED <<vars, item, handle, proxy, returned, processed, result, posted,
                 stop_request, thread>>

\* References to RenderThread::Impl: copies of RenderThread, and proxies.
Holders == {p \in Producers : handle[p] \/ proxy[p] # None}

\* What a client does once it has let go: the last one is in ~Impl.
LetGo(p) ==
  /\ client[p] = "idle"
  /\ IF Holders' = {} THEN Become(p, "joining") /\ stop_request' = TRUE
                      ELSE UNCHANGED <<client, stop_request>>
  /\ UNCHANGED <<vars, item, creation, returned, processed, result, posted, thread>>

DropHandle(p) ==
  /\ handle[p] /\ handle' = [handle EXCEPT ![p] = FALSE]
  /\ UNCHANGED <<proxy, use_count>>
  /\ LetGo(p)

DropProxy(p) ==
  /\ proxy[p] # None /\ proxy' = [proxy EXCEPT ![p] = None]
  /\ use_count' = [use_count EXCEPT ![proxy[p]] = @ - 1]
  /\ UNCHANGED handle
  /\ LetGo(p)

-----------------------------------------------------------------------------
(* The thread: Run. *)

Command == delivered[Len(delivered)]  \* the item it has popped

LoopTest_Forever ==  \* (fault) the request to stop is not seen
  /\ thread = "running"
  /\ Call(Render, TRUE)
  /\ UNCHANGED <<clientVars, serverVars>>
LoopTest ==
  /\ thread = "running" /\ ~stop_request
  /\ Call(Render, TRUE)
  /\ UNCHANGED <<clientVars, serverVars>>

TakeCommand == Pop(Render) /\ UNCHANGED <<clientVars, serverVars>>
NoCommand ==
  /\ \/ Refuse(Render)
     \/ stage[Render] = "refused" /\ Return(Render)
  /\ UNCHANGED <<clientVars, serverVars>>

\* The connection's ProcessCommands: a creator calls its function, which gives
\* a connection with one reference or throws.
ProcessCommands ==
  /\ stage[Render] = "done" /\ Command \notin processed
  /\ processed' = processed \cup {Command}
  /\ IF item[Command].kind = "creator"
     THEN \E outcome \in {"made", "failed"} :
            /\ result' = [result EXCEPT ![Command] = outcome]
            /\ use_count' = [use_count EXCEPT ![Command] = IF outcome = "made" THEN 1 ELSE 0]
     ELSE UNCHANGED <<result, use_count>>
  /\ UNCHANGED <<vars, clientVars, posted, stop_request, thread>>

\* What is left of the use counts when items are destroyed: a commands item
\* lets go of its connection, a creator of its Result when no client waits for
\* it any more.
Released_Kept(items) ==  \* (fault) a Result nobody waits for is not destroyed
  [c \in AllItems |->
     use_count[c]
       - Cardinality({i \in items : item[i].kind = "commands" /\ item[i].connection = c})]
Released(items) ==
  [c \in AllItems |->
     use_count[c]
       - Cardinality({i \in items : item[i].kind = "commands" /\ item[i].connection = c})
       - (IF c \in items /\ result[c] = "made" /\ c \notin {creation[p] : p \in Producers}
          THEN 1 ELSE 0)]
Waiters_None(items) == {}  \* (fault) ~WaiterConnection does not post
Waiters(items) == {i \in items : item[i].kind = "waiter"}

\* The end of an iteration: the item is destroyed.
EndIteration ==
  /\ stage[Render] = "done" /\ Command \in processed
  /\ Return(Render)
  /\ use_count' = Released({Command})
  /\ posted' = posted \cup Waiters({Command})
  /\ UNCHANGED <<clientVars, processed, result, stop_request, thread>>

Stop ==
  /\ thread = "running" /\ stop_request /\ stage[Render] = "idle"
  /\ thread' = "ended"
  /\ UNCHANGED <<vars, clientVars, processed, result, use_count, posted, stop_request>>

\* The join returns, and the queue is destroyed with what is in it.
Queued == {queue[i] : i \in DOMAIN queue}
Join(p) ==
  /\ client[p] = "joining" /\ thread = "ended"
  /\ thread' = "destroyed"
  /\ Become(p, "idle")
  /\ use_count' = Released(Queued)
  /\ posted' = posted \cup Waiters(Queued)
  /\ UNCHANGED <<vars, item, creation, handle, proxy, returned, processed, result, stop_request>>

-----------------------------------------------------------------------------
Running == LoopTest \/ TakeCommand \/ NoCommand \/ ProcessCommands \/ EndIteration \/ Stop

RenderNext ==
  \/ \E p \in Producers :
       \/ Send(p) \/ Wait(p) \/ Create(p)
       \/ ClientPush(p) \/ ClientRefuse(p) \/ Pushed(p) \/ PushThrows(p)
       \/ Wake(p) \/ Expire(p) \/ DropHandle(p) \/ DropProxy(p) \/ Join(p)
  \/ Running

\* The thread runs, the queue serves its callers, and a thread that was woken
\* goes on.  Nothing makes a client call.
RenderSpec ==
  /\ RenderInit /\ [][RenderNext]_allVars
  /\ WF_allVars(Running) /\ SF_allVars(TakeCommand)
  /\ \A p \in Producers :
       /\ SF_allVars(ClientPush(p))
       /\ WF_allVars(Pushed(p) \/ PushThrows(p) \/ Wake(p) \/ Join(p))
       /\ WF_allVars(Wait(p) /\ client[p] = "created")

-----------------------------------------------------------------------------
\* Types, the queue's capacity among them, and no use count falls below zero.
RenderTypeOK ==
  /\ TypeOK
  /\ item \in [AllItems -> {None} \cup [kind : {"commands", "creator", "waiter"},
                                        connection : AllItems \cup {None}]]
  /\ client \in [Producers -> {"idle", "sending", "creating", "created", "posting",
                               "asleep", "joining"}]
  /\ creation \in [Producers -> AllItems \cup {None}]
  /\ handle \in [Producers -> BOOLEAN] /\ proxy \in [Producers -> AllItems \cup {None}]
  /\ processed \subseteq AllItems /\ posted \subseteq AllItems /\ returned \subseteq AllItems
  /\ result \in [AllItems -> {"none", "made", "failed"}]
  /\ use_count \in [AllItems -> Nat]
  /\ stop_request \in BOOLEAN /\ thread \in {"running", "ended", "destroyed"}

\* When the semaphore of a waiter is posted, everything that was pushed before
\* it is done: WaitQueuedCommands returning true can be relied on, and a client
\* that wakes up finds its connection, or the reason why there is none; never
\* that the thread "was destroyed earlier".
WaitMeansDone ==
  /\ \A i, j \in DOMAIN History :
       i < j /\ History[j] \in posted /\ thread # "destroyed" => History[i] \in processed
  /\ \A p \in Producers :
       client[p] = "asleep" /\ Value(p) \in posted /\ creation[p] # None
         => result[creation[p]] \in {"made", "failed"}

\* The items that exist: in the queue, in the hand of the thread, or in a call of
\* Push.
Existing ==
  (IF thread = "destroyed" THEN {} ELSE Queued)
    \cup (IF stage[Render] = "done" THEN {Command} ELSE {})
    \cup {Value(p) : p \in {q \in Producers : stage[q] \in {"waiting", "refused"}}}

\* References to a connection: proxies, commands on their way to it, and the
\* result it was made for, as long as somebody looks at that.  A connection
\* whose client gave up before it was made is released by the thread; one that
\* was returned keeps a reference nobody will drop.
ConnectionsCounted ==
  \A c \in AllItems :
    use_count[c] =
        Cardinality({p \in Producers : proxy[p] = c})
      + Cardinality({i \in Existing : item[i].kind = "commands" /\ item[i].connection = c})
      + (IF result[c] = "made" /\ (c \in Existing \/ \E p \in Producers : creation[p] = c)
         THEN 1 ELSE 0)
      + (IF c \in returned THEN 1 ELSE 0)

\* A client that waits for the queue gets on.
WaitReturns == \A p \in Producers : client[p] = "asleep" ~> client[p] # "asleep"

\* The last owner of the thread gets rid of it.
JoinEnds == stop_request ~> thread = "destroyed"
=============================================================================
