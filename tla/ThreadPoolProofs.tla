-------------------------- MODULE ThreadPoolProofs --------------------------
(***************************************************************************)
(* The thread pool for any number of clients, workers and actions: the     *)
(* queue in it is ActionQueue, so that all that was proved of ActionQueue  *)
(* holds of it, and the counter that decides whether a thread is created   *)
(* is the number of threads.  The argument for the counter needs that only *)
(* a worker that performs has an action in hand or is inside the queue,    *)
(* and for that the queue's own invariant.                                 *)
(***************************************************************************)
EXTENDS ThreadPool, SequenceFacts

(* The queue: the counters are exact, no action without a period is        *)
(* started twice, none is lost, a thread's own actions run in no other,    *)
(* and a canceled one is started by those only that had tested its flags.  *)
(* The argument: an action is listed at most once and in its own queue     *)
(* only (Placed), and one that is not periodic is either listed, or in one *)
(* thread's hands, or done with (Once).                                    *)

\* Whoever performs has an action that was pushed; a thread that pushes may be in
\* a handler; the others have none.
Hands ==
  \A t \in Threads : /\ pc[t] \in {"popped", "admitted", "running"} => cur[t] \in pushed
                     /\ pc[t] = "push" => cur[t] \in pushed \cup {None}
                     /\ pc[t] \in {"idle", "scan"} => cur[t] = None

\* Whoever is in PushAction or PopAction has the lock, and pops a queue it may pop.
Inside ==
  \A t \in Threads : /\ pc[t] \in {"push", "scan"} <=> qlock = t
                     /\ pc[t] = "scan" => from \in Shared \cup {t}

\* A list holds actions that were pushed to it, none of them twice.
Distinct(s) == \A i, j \in 1..Len(s) : s[i] = s[j] => i = j
For(q) == {a \in pushed : Target[a] = q}
Placed == \A q \in Queues : Range(queue[q]) \subseteq For(q) /\ Distinct(queue[q])

\* A running or completed action was started; a periodic one is never completed.
RunsCounted ==
  /\ \A t \in Threads : pc[t] \in {"running", "push"} /\ cur[t] # None => runs[cur[t]] > 0
  /\ \A a \in is_completed : a \notin Periodic /\ runs[a] > 0

\* The life of an action without a period: listed, popped, started once.
Fresh(a) == runs[a] = 0 /\ ~InHand(a)
Once ==
  \A a \in Actions \ Periodic :
    /\ a \notin pushed => runs[a] = 0
    /\ Listed(a) => Fresh(a)
    /\ runs[a] <= 1
    /\ \A t \in Threads : pc[t] \in {"popped", "admitted"} /\ cur[t] = a => runs[a] = 0
    /\ \A t, u \in Threads : cur[t] = a /\ cur[u] = a => t = u

IInv == /\ TypeOK /\ CountExact /\ Hands /\ Inside /\ Placed
        /\ RunsCounted /\ Once /\ NothingLost /\ InItsThread

-----------------------------------------------------------------------------
-----------------------------------------------------------------------------
\* An action is listed where it was pushed to, or nowhere.
LEMMA ListedThere ==
  ASSUME TypeOK, Placed, NEW a \in Actions
  PROVE  Target[a] \in Queues /\ (Listed(a) <=> a \in Range(queue[Target[a]]))
BY ActionAssumption DEF Placed, For, Listed, Queues

\* What is listed when one queue's list changes.
LEMMA OneList ==
  ASSUME TypeOK, Placed, NEW q \in Queues, NEW s \in Seq(Actions),
         queue' = [queue EXCEPT ![q] = s], pushed \subseteq pushed',
         Range(s) \subseteq For(q)', Distinct(s)
  PROVE  /\ Placed'
         /\ \A a \in Actions : Listed(a)' <=> IF Target[a] = q THEN a \in Range(s) ELSE Listed(a)
<1>1. \A r \in Queues : queue'[r] = IF r = q THEN s ELSE queue[r]
  BY DEF TypeOK
<1>2. \A r \in Queues : For(r) \subseteq For(r)'
  BY DEF For
<1>3. Placed'
  BY <1>1, <1>2 DEF Placed
<1>4. ASSUME NEW a \in Actions
      PROVE  Listed(a)' <=> IF Target[a] = q THEN a \in Range(s) ELSE Listed(a)
  <2>1. Target[a] \in Queues /\ (Listed(a) <=> a \in Range(queue[Target[a]]))
    BY ListedThere
  <2>2. Listed(a)' <=> a \in Range(queue'[Target[a]])
    BY <1>3, <2>1 DEF Listed, Placed, For
  <2> QED BY <1>1, <2>1, <2>2
<1> QED BY <1>3, <1>4

-----------------------------------------------------------------------------
\* The inductive invariant holds initially.
LEMMA InitInv == Init => IInv
<1> SUFFICES ASSUME Init PROVE IInv
  OBVIOUS
<1>1. /\ \A q \in Queues : queue[q] = <<>> /\ Range(queue[q]) = {}
      /\ \A a \in Actions : ~Listed(a)
  BY DEF Init, Range, Listed
<1>2. TypeOK
  BY ActionAssumption DEF Init, TypeOK, PCs
<1>3. Placed /\ CountExact
  BY <1>1 DEF Init, Placed, Distinct, CountExact
<1>4. Hands /\ Inside /\ RunsCounted /\ NothingLost /\ InItsThread
  BY ActionAssumption DEF Init, Hands, Inside, RunsCounted, NothingLost, InItsThread
<1>5. Once
  BY <1>1, ActionAssumption DEF Init, Once
<1> QED BY <1>2, <1>3, <1>4, <1>5 DEF IInv

\* The action under PopAction's cursor, and what the list is without it.
LEMMA AtCursor ==
  ASSUME TypeOK, Placed, NEW t \in Threads, Scanning(t)
  PROVE  /\ list \in Seq(Actions) /\ pos \in 1..Len(list)
         /\ list[pos] \in Range(list) /\ list[pos] \in For(from) /\ list[pos] \in Actions
         /\ Listed(list[pos])
         /\ RemoveAt(list, pos) \in Seq(Actions)
         /\ Len(RemoveAt(list, pos)) = Len(list) - 1
         /\ Range(RemoveAt(list, pos)) = Range(list) \ {list[pos]}
         /\ Distinct(RemoveAt(list, pos))
<1>1. list \in Seq(Actions) /\ pos \in 1..Len(list)
  BY DEF TypeOK, Scanning, list
<1>2. /\ list[pos] \in Range(list) /\ list[pos] \in Actions
      /\ Range(list) \subseteq For(from) /\ Distinct(list) /\ Listed(list[pos])
  BY <1>1 DEF Range, Placed, list, TypeOK, Listed
<1> QED BY <1>1, <1>2, RemoveAtIndex, RemoveAtRange DEF Distinct

\* Every operation preserves the type invariant and the exact counter.
LEMMA TypeStep == IInv /\ [Next]_vars => TypeOK' /\ CountExact'
<1> SUFFICES ASSUME IInv, [Next]_vars PROVE TypeOK' /\ CountExact'
  OBVIOUS
<1> USE ActionAssumption DEF IInv, TypeOK, CountExact, Goto, PCs, flags, waits, history, queues, cursor
<1>1. ASSUME NEW t \in Threads, NEW a \in Actions, NEW delayed \in BOOLEAN,
             Push(t, a, delayed) PROVE TypeOK' /\ CountExact'
  <2>1. /\ Target[a] \in Queues /\ queue[Target[a]] \in Seq(Actions)
        /\ Append(queue[Target[a]], a) \in Seq(Actions)
        /\ Len(Append(queue[Target[a]], a)) = Len(queue[Target[a]]) + 1
    BY AppendRange DEF Queues
  <2>2. queue' \in [Queues -> Seq(Actions)] /\ actions_count' \in [Queues -> Nat] /\ CountExact'
    BY <1>1, <2>1 DEF Push, Enqueue
  <2>3. thread_queues' \subseteq Threads
    BY <1>1 DEF Push, GetQueue
  <2> QED BY <1>1, <2>2, <2>3 DEF Push
<1>2. ASSUME NEW t \in Threads, NEW a \in Actions, Cancel(t, a)
      PROVE  TypeOK' /\ CountExact'
  BY <1>2 DEF Cancel
<1>3. ASSUME NEW t \in Threads, NEW a \in Actions, Wait(t, a)
      PROVE  TypeOK' /\ CountExact'
  BY <1>3 DEF Wait
<1>4. ASSUME NEW t \in Threads, PushReturn(t) PROVE TypeOK' /\ CountExact'
  BY <1>4 DEF PushReturn
<1>5. ASSUME NEW t \in Threads, NEW q \in Queues, BeginPop(t, q)
      PROVE  TypeOK' /\ CountExact'
  BY <1>5 DEF BeginPop, GetQueue
<1>60. ASSUME NEW t \in Threads, Scanning(t), Erase
       PROVE  /\ queue' \in [Queues -> Seq(Actions)] /\ actions_count' \in [Queues -> Nat]
              /\ CountExact'
  <2>1. /\ RemoveAt(list, pos) \in Seq(Actions) /\ Len(RemoveAt(list, pos)) = Len(list) - 1
        /\ Len(list) \in Nat \ {0} /\ list = queue[from]
    BY <1>60, AtCursor DEF list
  <2> QED BY <1>60, <2>1 DEF Erase
<1>6. ASSUME NEW t \in Threads, Drop(t) PROVE TypeOK' /\ CountExact'
  BY <1>6, <1>60 DEF Drop
<1>7. ASSUME NEW t \in Threads, Skip(t) PROVE TypeOK' /\ CountExact'
  BY <1>7 DEF Skip
<1>8. ASSUME NEW t \in Threads, Take(t) PROVE TypeOK' /\ CountExact'
  <2>1. /\ queue' \in [Queues -> Seq(Actions)] /\ actions_count' \in [Queues -> Nat]
        /\ CountExact' /\ due' \subseteq pushed
    <3>1. CASE list[pos] \in Periodic
      <4>1. /\ RemoveAt(list, pos) \in Seq(Actions) /\ list[pos] \in Actions
            /\ Len(RemoveAt(list, pos)) = Len(list) - 1
            /\ Len(list) \in Nat /\ list = queue[from]
        BY <1>8, AtCursor DEF Take, list
      <4>2. /\ Append(RemoveAt(list, pos), list[pos]) \in Seq(Actions)
            /\ Len(Append(RemoveAt(list, pos), list[pos])) = Len(list)
        BY <4>1, AppendRange
      <4>3. /\ queue' = [queue EXCEPT ![from] = Append(RemoveAt(list, pos), list[pos])]
            /\ actions_count' = actions_count /\ due' \subseteq pushed
        BY <1>8, <3>1 DEF Take, Rotate, list
      <4> QED BY <4>1, <4>2, <4>3
    <3>2. CASE list[pos] \notin Periodic
      BY <1>8, <3>2, <1>60 DEF Take, Unlink
    <3> QED BY <3>1, <3>2
  <2>2. list[pos] \in Actions
    BY <1>8, AtCursor DEF Take
  <2> QED BY <1>8, <2>1, <2>2 DEF Take
<1>9. ASSUME NEW t \in Threads, PopNothing(t) PROVE TypeOK' /\ CountExact'
  BY <1>9 DEF PopNothing
<1>10. ASSUME NEW t \in Threads, Perform(t) PROVE TypeOK' /\ CountExact'
  BY <1>10 DEF Perform
<1>18. ASSUME NEW t \in Threads, CallHandler(t) PROVE TypeOK' /\ CountExact'
  <2>1. cur[t] \in Actions /\ runs[cur[t]] \in 0..MaxRuns
    BY <1>18 DEF CallHandler, Hands
  <2>2. runs' \in [Actions -> 0..MaxRuns]
    BY <1>18, <2>1 DEF CallHandler
  <2> QED BY <1>18, <2>2 DEF CallHandler
<1>11. ASSUME NEW t \in Threads, Refuse(t) PROVE TypeOK' /\ CountExact'
  <2>1. /\ holder' \in [Actions -> Waiters \cup {None}]
        /\ waiting' \in [Threads -> Actions \cup {None}]
    <3>1. CASE StopWaiting(t)
      BY <3>1 DEF StopWaiting
    <3>2. CASE UNCHANGED waits
      BY <3>2
    <3> QED BY <1>11, <3>1, <3>2 DEF Refuse
  <2> QED BY <1>11, <2>1 DEF Refuse
<1>12. ASSUME NEW t \in Threads, Finish(t) PROVE TypeOK' /\ CountExact'
  <2>1. cur[t] \in pushed
    BY <1>12 DEF Finish, Hands
  <2> QED BY <1>12, <2>1 DEF Finish
<1>13. ASSUME NEW t \in Threads, Throw(t) PROVE TypeOK' /\ CountExact'
  BY <1>13 DEF Throw, StopWaiting
<1>14. ASSUME NEW t \in Threads, NEW expired \in BOOLEAN, WaitReturn(t, expired)
       PROVE  TypeOK' /\ CountExact'
  BY <1>14 DEF WaitReturn, StopWaiting
<1>15. ASSUME NEW a \in Actions, Tick(a) PROVE TypeOK' /\ CountExact'
  BY <1>15 DEF Tick
<1>16. CASE UNCHANGED vars
  BY <1>16 DEF vars
<1>17. ASSUME NEW t \in Threads, CleanupCurrentThread(t) PROVE TypeOK' /\ CountExact'
  <2>1. t \in Queues /\ <<>> \in Seq(Actions) /\ Len(<<>>) = 0
    BY DEF Queues
  <2> QED BY <1>17, <2>1 DEF CleanupCurrentThread
<1> QED
  BY <1>1, <1>2, <1>3, <1>4, <1>5, <1>6, <1>7, <1>8, <1>9, <1>10, <1>11, <1>12, <1>13,
     <1>14, <1>15, <1>16, <1>17, <1>18 DEF Next, PopStep, PerformStep

-----------------------------------------------------------------------------
\* PushAction lists one action more.
LEMMA ListPush ==
  ASSUME IInv, NEW t \in Threads, NEW a \in Actions, NEW delayed \in BOOLEAN,
         Push(t, a, delayed)
  PROVE  Placed' /\ \A b \in Actions : Listed(b)' <=> Listed(b) \/ b = a
<1> DEFINE l == queue[Target[a]]  s == Append(l, a)
<1>1. /\ Target[a] \in Queues /\ l \in Seq(Actions)
      /\ Range(l) \subseteq For(Target[a]) /\ Distinct(l)
  BY ListedThere DEF IInv, TypeOK, Placed
<1>2. /\ queue' = [queue EXCEPT ![Target[a]] = s] /\ pushed' = pushed \cup {a}
      /\ a \notin Range(l)
  BY <1>1 DEF Push, Enqueue, For
<1>3. s \in Seq(Actions) /\ Range(s) = Range(l) \cup {a} /\ Distinct(s)
  <2> HIDE DEF l
  <2>1. \A j, k \in 1..Len(l) : l[j] = l[k] => j = k
    BY <1>1 DEF Distinct
  <2>2. /\ s \in Seq(Actions) /\ Range(s) = Range(l) \cup {a}
        /\ \A j, k \in 1..Len(s) : s[j] = s[k] => j = k
    BY <1>1, <1>2, <2>1, AppendRange
  <2> QED BY <2>2 DEF Distinct
<1>4. Range(s) \subseteq For(Target[a])'
  BY <1>1, <1>2, <1>3 DEF For
<1> HIDE DEF s
<1>5. /\ Placed'
      /\ \A b \in Actions :
           Listed(b)' <=> IF Target[b] = Target[a] THEN b \in Range(s) ELSE Listed(b)
  BY <1>1, <1>2, <1>3, <1>4, OneList DEF IInv
<1>6. \A b \in Actions : Target[b] = Target[a] => (Listed(b) <=> b \in Range(l))
  BY ListedThere DEF IInv
<1> QED BY <1>3, <1>5, <1>6

\* PopAction unlists what it erases ...
LEMMA ListErase ==
  ASSUME IInv, NEW t \in Threads, Scanning(t), Erase, pushed' = pushed
  PROVE  Placed' /\ \A b \in Actions : Listed(b)' <=> Listed(b) /\ b # list[pos]
<1>1. PICK q \in Queues, s \in Seq(Actions), e \in Actions :
             from = q /\ RemoveAt(list, pos) = s /\ list[pos] = e
  BY AtCursor DEF IInv, TypeOK
<1>2. /\ list = queue[q] /\ Range(s) = Range(list) \ {e} /\ Distinct(s)
      /\ e \in For(q) /\ Range(list) \subseteq For(q)
  BY <1>1, AtCursor DEF IInv, Placed, list
<1>3. queue' = [queue EXCEPT ![q] = s] /\ Range(s) \subseteq For(q)'
  BY <1>1, <1>2 DEF Erase, list, For
<1>4. /\ Placed'
      /\ \A b \in Actions :
           Listed(b)' <=> IF Target[b] = q THEN b \in Range(s) ELSE Listed(b)
  BY <1>1, <1>2, <1>3, OneList DEF IInv
<1>5. \A b \in Actions : Target[b] = q => (Listed(b) <=> b \in Range(list))
  BY <1>1, <1>2, ListedThere DEF IInv
<1> QED BY <1>1, <1>2, <1>4, <1>5 DEF For

\* ... the dead ones ...
LEMMA ListDrop ==
  ASSUME IInv, NEW t \in Threads, Drop(t)
  PROVE  Placed' /\ \A b \in Actions : Listed(b)' <=> Listed(b) /\ b # list[pos]
BY ListErase DEF Drop, history

\* ... and the one it returns, unless that is periodic.
LEMMA ListTake ==
  ASSUME IInv, NEW t \in Threads, Take(t)
  PROVE  /\ Listed(list[pos]) /\ list[pos] \in Actions /\ list[pos] \in For(from)
         /\ Placed'
         /\ \A b \in Actions :
              Listed(b)' <=> Listed(b) /\ (b # list[pos] \/ list[pos] \in Periodic)
<1>1. PICK q \in Queues, r \in Seq(Actions), e \in Actions :
             from = q /\ RemoveAt(list, pos) = r /\ list[pos] = e
  BY AtCursor DEF IInv, TypeOK, Take
<1>2. /\ list = queue[q] /\ Range(r) = Range(list) \ {e} /\ Distinct(r) /\ Listed(e)
      /\ e \in For(q) /\ e \in Range(list) /\ Range(list) \subseteq For(q)
  BY <1>1, AtCursor DEF IInv, Placed, list, Take
<1>3. pushed' = pushed
  BY DEF Take, history
<1>4. CASE e \notin Periodic
  <2>1. Scanning(t) /\ Erase
    BY <1>1, <1>4 DEF Take, Unlink
  <2> QED BY <1>1, <1>2, <1>3, <1>4, <2>1, ListErase
<1>5. CASE e \in Periodic
  <2>1. PICK s \in Seq(Actions) : s = Append(r, e)
    BY <1>1, AppendRange
  <2>2. queue' = [queue EXCEPT ![q] = s]
    BY <1>1, <1>5, <2>1 DEF Take, Rotate, list
  <2>3. Range(s) = Range(list) /\ Distinct(s)
    <3>1. e \notin Range(r) /\ \A j, k \in 1..Len(r) : r[j] = r[k] => j = k
      BY <1>2 DEF Distinct
    <3>2. /\ Range(Append(r, e)) = Range(r) \cup {e}
          /\ \A j, k \in 1..Len(Append(r, e)) : Append(r, e)[j] = Append(r, e)[k] => j = k
      BY <1>1, <3>1, AppendRange
    <3> QED BY <1>2, <2>1, <3>2 DEF Distinct
  <2>4. Range(s) \subseteq For(q)'
    BY <1>2, <1>3, <2>3 DEF For
  <2>5. /\ Placed'
        /\ \A b \in Actions :
             Listed(b)' <=> IF Target[b] = q THEN b \in Range(s) ELSE Listed(b)
    BY <1>3, <2>2, <2>3, <2>4, OneList DEF IInv
  <2>6. \A b \in Actions : Target[b] = q => (Listed(b) <=> b \in Range(list))
    BY <1>2, ListedThere DEF IInv
  <2> QED BY <1>1, <1>2, <1>5, <2>3, <2>5, <2>6
<1> QED BY <1>4, <1>5

\* The operations that touch neither the list, nor what was started and completed.
Quiet ==
  \/ \E t \in Threads :
       \/ PushReturn(t) \/ Skip(t) \/ PopNothing(t) \/ CleanupCurrentThread(t)
       \/ Perform(t) \/ Refuse(t) \/ Throw(t)
       \/ \E q \in Queues : BeginPop(t, q)
       \/ \E expired \in BOOLEAN : WaitReturn(t, expired)
       \/ \E a \in Actions : Cancel(t, a) \/ Wait(t, a)
  \/ \E a \in Actions : Tick(a)
  \/ UNCHANGED vars

\* Thread t keeps what it has, and where it is but for the test of an action that
\* is not canceled and for the return of PushAction.
Keeps(t) == /\ cur'[t] = cur[t]
            /\ \/ pc'[t] = pc[t]
               \/ pc[t] = "popped" /\ pc'[t] = "admitted" /\ cur[t] \notin is_canceled
               \/ pc[t] = "push" /\ pc'[t] = IF cur[t] = None THEN "idle" ELSE "running"

\* What thread t has is given up only when it was started, or is canceled.
LetsGo(t) == /\ cur'[t] = None
             /\ pc'[t] \in {"idle", "scan"}
             /\ cur[t] = None \/ cur[t] \in is_canceled \/ runs[cur[t]] > 0

\* Such an operation may make a thread let go of its action, not take one up.
LEMMA QuietStep ==
  ASSUME IInv, Quiet
  PROVE  /\ queue' = queue /\ pushed' = pushed /\ runs' = runs
         /\ is_completed' = is_completed /\ is_canceled \subseteq is_canceled'
         /\ \A t \in Threads : Keeps(t) \/ LetsGo(t)
<1>1. ASSUME NEW t \in Threads, NEW l \in {"idle", "scan"}, pc' = [pc EXCEPT ![t] = l],
             cur' = [cur EXCEPT ![t] = None] \/ (cur[t] = None /\ cur' = cur),
             cur[t] = None \/ cur[t] \in is_canceled \/ runs[cur[t]] > 0
      PROVE  \A u \in Threads : Keeps(u) \/ LetsGo(u)
  BY <1>1 DEF IInv, TypeOK, LetsGo, Keeps
<1>2. ASSUME NEW t \in Threads, pc[t] \in {"idle", "scan"} PROVE cur[t] = None
  BY <1>2 DEF IInv, Hands
<1>3. CASE \E t \in Threads : PopNothing(t) \/ \E q \in Queues : BeginPop(t, q)
  BY <1>1, <1>2, <1>3 DEF BeginPop, PopNothing, Goto, flags, history, queues
<1>4. CASE \E t \in Threads : Refuse(t) \/ Throw(t)
  <2>1. PICK t \in Threads : Refuse(t) \/ Throw(t)
    BY <1>4
  <2>2. /\ pc' = [pc EXCEPT ![t] = "idle"] /\ cur' = [cur EXCEPT ![t] = None]
        /\ UNCHANGED <<queue, flags, history>>
    BY <2>1 DEF Refuse, Throw, Goto, queues
  <2>3. cur[t] = None \/ cur[t] \in is_canceled \/ runs[cur[t]] > 0
    BY <2>1 DEF Refuse, Throw, Dead, IInv, RunsCounted
  <2>4. \A u \in Threads : Keeps(u) \/ LetsGo(u)
    BY <2>2, <2>3 DEF IInv, TypeOK, LetsGo, Keeps
  <2> QED BY <2>2, <2>4 DEF flags, history
<1>5. CASE \E t \in Threads : Skip(t) \/ \E expired \in BOOLEAN : WaitReturn(t, expired)
  BY <1>5 DEF Skip, WaitReturn, flags, history, queues, Keeps
<1>6. CASE \E t \in Threads, a \in Actions : Cancel(t, a) \/ Wait(t, a)
  BY <1>6 DEF Cancel, Wait, flags, history, queues, Keeps
<1>7. CASE (\E a \in Actions : Tick(a)) \/ UNCHANGED vars
  BY <1>7 DEF Tick, vars, flags, history, queues, Keeps
<1>8. CASE \E t \in Threads : PushReturn(t)
  BY <1>8 DEF PushReturn, Goto, flags, history, queues, Keeps, IInv, TypeOK
<1>10. CASE \E t \in Threads : Perform(t)
  BY <1>10 DEF Perform, Dead, Goto, flags, history, queues, Keeps, IInv, TypeOK
<1>9. CASE \E t \in Threads : CleanupCurrentThread(t)
  <2>1. PICK t \in Threads : CleanupCurrentThread(t)
    BY <1>9
  <2>2. queue' = queue
    BY <2>1 DEF CleanupCurrentThread, IInv, TypeOK
  <2> QED BY <2>1, <2>2 DEF CleanupCurrentThread, flags, history, Keeps
<1> QED BY <1>3, <1>4, <1>5, <1>6, <1>7, <1>8, <1>9, <1>10 DEF Quiet

\* What the remaining operations do: they are the ones that the rest turns on.
LEMMA NextCases ==
  ASSUME [Next]_vars
  PROVE  \/ Quiet
         \/ \E t \in Threads, a \in Actions, delayed \in BOOLEAN : Push(t, a, delayed)
         \/ \E t \in Threads : Drop(t) \/ Take(t) \/ CallHandler(t) \/ Finish(t)
BY DEF Next, PopStep, PerformStep, Quiet

\* Only a thread that holds the lock is inside the queue, and where it may be.
LEMMA InsideStep == IInv /\ [Next]_vars => Inside'
<1> SUFFICES ASSUME IInv, [Next]_vars PROVE Inside'
  OBVIOUS
<1>0. /\ None \notin Threads /\ pc \in [Threads -> PCs] /\ from \in Queues
      /\ \A t \in Threads : pc[t] \in {"push", "scan"} <=> qlock = t
      /\ \A t \in Threads : pc[t] = "scan" => from \in Shared \cup {t}
  BY ActionAssumption DEF IInv, TypeOK, Inside
<1> USE <1>0 DEF Goto, Inside, queues, cursor, waits
<1>1. ASSUME NEW t \in Threads, NEW a \in Actions, NEW delayed \in BOOLEAN,
             Push(t, a, delayed) PROVE Inside'
  BY <1>1 DEF Push
<1>2. ASSUME NEW t \in Threads, PushReturn(t) \/ PopNothing(t) \/ Take(t) PROVE Inside'
  BY <1>2 DEF PushReturn, PopNothing, Take, Scanning
<1>3. ASSUME NEW t \in Threads, NEW q \in Queues, BeginPop(t, q) PROVE Inside'
  <2>1. q \in Shared \cup {t}
    BY <1>3, ActionAssumption DEF BeginPop, PopsFrom
  <2> QED BY <1>3, <2>1 DEF BeginPop
<1>4. ASSUME NEW t \in Threads, Drop(t) \/ Skip(t) \/ CleanupCurrentThread(t)
                                \/ \E expired \in BOOLEAN : WaitReturn(t, expired)
      PROVE  Inside'
  BY <1>4 DEF Drop, Skip, CleanupCurrentThread, WaitReturn
<1>5. ASSUME NEW t \in Threads, PerformStep(t) PROVE Inside'
  BY <1>5 DEF PerformStep, Perform, CallHandler, Refuse, Finish, Throw
<1>6. ASSUME NEW t \in Threads, NEW a \in Actions, Cancel(t, a) \/ Wait(t, a)
      PROVE  Inside'
  BY <1>6 DEF Cancel, Wait
<1>7. ASSUME NEW a \in Actions, Tick(a) PROVE Inside'
  BY <1>7 DEF Tick
<1>8. CASE UNCHANGED vars
  BY <1>8 DEF vars
<1> QED BY <1>1, <1>2, <1>3, <1>4, <1>5, <1>6, <1>7, <1>8 DEF Next, PopStep

\* Threads keep the actions they perform, and a queue the actions pushed to it.
LEMMA HandsStep == IInv /\ [Next]_vars => Hands' /\ Placed' /\ InItsThread'
<1> SUFFICES ASSUME IInv, [Next]_vars PROVE Hands' /\ Placed' /\ InItsThread'
  OBVIOUS
<1> USE DEF Goto, flags, waits, history, queues
<1>0. None \notin Actions /\ \A t \in Threads : cur[t] \in Actions \cup {None}
  BY ActionAssumption DEF IInv, TypeOK
<1>1. CASE Quiet
  <2>1. Hands'
    BY <1>1, QuietStep DEF IInv, Hands, Keeps, LetsGo
  <2>2. Placed'
    BY <1>1, QuietStep DEF IInv, Placed, For
  <2>3. InItsThread'
    BY <1>1, QuietStep DEF IInv, InItsThread, Keeps, LetsGo
  <2> QED BY <2>1, <2>2, <2>3
<1>2. ASSUME NEW t \in Threads, NEW a \in Actions, NEW delayed \in BOOLEAN,
             Push(t, a, delayed) PROVE Hands' /\ Placed' /\ InItsThread'
  BY <1>2, ListPush DEF IInv, TypeOK, Hands, InItsThread, Push
<1>3. ASSUME NEW t \in Threads, Drop(t) PROVE Hands' /\ Placed' /\ InItsThread'
  BY <1>3, ListDrop DEF IInv, TypeOK, Hands, InItsThread, Drop
<1>4. ASSUME NEW t \in Threads, Take(t) PROVE Hands' /\ Placed' /\ InItsThread'
  <2>1. list[pos] \in pushed /\ Target[list[pos]] = from /\ Placed'
    BY <1>4, ListTake DEF For
  <2>2. from \in Shared \cup {t}
    BY <1>4 DEF IInv, Inside, Take, Scanning
  <2>3. /\ pushed' = pushed
        /\ \A u \in Threads : cur'[u] = IF u = t THEN list[pos] ELSE cur[u]
        /\ \A u \in Threads : pc'[u] = IF u = t THEN "popped" ELSE pc[u]
    BY <1>4 DEF IInv, TypeOK, Take
  <2>4. Hands'
    BY <2>1, <2>3 DEF IInv, Hands
  <2>5. InItsThread'
    BY <2>1, <2>2, <2>3, ActionAssumption DEF IInv, InItsThread
  <2> QED BY <2>1, <2>4, <2>5
<1>5. ASSUME NEW t \in Threads, CallHandler(t) PROVE Hands' /\ Placed' /\ InItsThread'
  BY <1>5 DEF IInv, TypeOK, Hands, Placed, For, InItsThread, CallHandler, queues
<1>6. ASSUME NEW t \in Threads, Finish(t) PROVE Hands' /\ Placed' /\ InItsThread'
  BY <1>6 DEF IInv, TypeOK, Hands, Placed, For, InItsThread, Finish, queues
<1> QED BY <1>1, <1>2, <1>3, <1>4, <1>5, <1>6, NextCases

\* What runs or is completed was started.
LEMMA StartedStep == IInv /\ [Next]_vars => RunsCounted'
<1> SUFFICES ASSUME IInv, [Next]_vars PROVE RunsCounted'
  OBVIOUS
<1> USE DEF Goto, flags, waits, history, queues
<1>1. CASE Quiet
  BY <1>1, QuietStep DEF IInv, RunsCounted, Keeps, LetsGo
<1>2. ASSUME NEW t \in Threads, NEW a \in Actions, NEW delayed \in BOOLEAN,
             Push(t, a, delayed) PROVE RunsCounted'
  <2>1. cur[t] # None => pc[t] = "running"
    BY <1>2 DEF IInv, Hands, Push
  <2> QED BY <1>2, <2>1 DEF IInv, TypeOK, RunsCounted, Push
<1>3. ASSUME NEW t \in Threads, Drop(t) PROVE RunsCounted'
  BY <1>3 DEF IInv, TypeOK, RunsCounted, Drop
<1>4. ASSUME NEW t \in Threads, Take(t) PROVE RunsCounted'
  BY <1>4 DEF IInv, TypeOK, RunsCounted, Take
<1>5. ASSUME NEW t \in Threads, CallHandler(t) PROVE RunsCounted'
  <2>1. cur[t] \in Actions /\ \A a \in Actions : runs[a] \in Nat
    BY <1>5, ActionAssumption DEF IInv, TypeOK, Hands, CallHandler
  <2>2. \A a \in Actions : runs[a] > 0 => runs'[a] > 0
    BY <1>5, <2>1 DEF IInv, TypeOK, CallHandler
  <2>3. runs'[cur[t]] > 0
    BY <1>5, <2>1, ActionAssumption DEF IInv, TypeOK, CallHandler
  <2>4. \A u \in Threads : pc[u] = "running" => cur[u] \in Actions
    BY DEF IInv, TypeOK, Hands
  <2>5. \A a \in is_completed : a \in Actions
    BY DEF IInv, TypeOK
  <2> QED BY <1>5, <2>2, <2>3, <2>4, <2>5 DEF IInv, TypeOK, RunsCounted, CallHandler
<1>6. ASSUME NEW t \in Threads, Finish(t) PROVE RunsCounted'
  <2>1. cur[t] # None /\ runs[cur[t]] > 0
    BY <1>6, ActionAssumption DEF IInv, TypeOK, Hands, RunsCounted, Finish
  <2> QED BY <1>6, <2>1 DEF IInv, TypeOK, RunsCounted, Finish
<1> QED BY <1>1, <1>2, <1>3, <1>4, <1>5, <1>6, NextCases

\* An action without a period goes from the list to one thread and is done with.
LEMMA OnceStep == IInv /\ [Next]_vars => Once'
<1> SUFFICES ASSUME IInv, [Next]_vars, NEW a \in Actions \ Periodic
             PROVE  /\ a \notin pushed' => runs'[a] = 0
                    /\ Listed(a)' => Fresh(a)'
                    /\ runs'[a] <= 1
                    /\ \A t \in Threads :
                         pc'[t] \in {"popped", "admitted"} /\ cur'[t] = a => runs'[a] = 0
                    /\ \A t, u \in Threads : cur'[t] = a /\ cur'[u] = a => t = u
  BY DEF Once
<1> USE DEF Goto, flags, waits, history, queues
<1>0. /\ a # None
      /\ a \notin pushed => runs[a] = 0
      /\ Listed(a) => Fresh(a)
      /\ runs[a] <= 1
      /\ \A t \in Threads : pc[t] \in {"popped", "admitted"} /\ cur[t] = a => runs[a] = 0
      /\ \A t, u \in Threads : cur[t] = a /\ cur[u] = a => t = u
  BY ActionAssumption DEF IInv, Once
<1>1. CASE Quiet
  BY <1>0, <1>1, QuietStep DEF Fresh, InHand, Keeps, LetsGo, Listed
<1>2. CASE \E t \in Threads, b \in Actions, delayed \in BOOLEAN : Push(t, b, delayed)
  <2>1. PICK t \in Threads, b \in Actions, delayed \in BOOLEAN : Push(t, b, delayed)
    BY <1>2
  <2>2. \A c \in Actions : Listed(c)' <=> Listed(c) \/ c = b
    BY <2>1, ListPush
  <2>3. \A u \in Threads : cur[u] # b
    BY <2>1, ActionAssumption DEF IInv, TypeOK, PCs, Hands, Push
  <2>4. /\ cur' = cur /\ runs' = runs /\ pushed' = pushed \cup {b} /\ b \notin pushed
        /\ \A u \in Threads : pc'[u] \in {"popped", "admitted"} => pc'[u] = pc[u]
    BY <2>1 DEF IInv, TypeOK, Push
  <2> QED BY <1>0, <2>2, <2>3, <2>4 DEF Fresh, InHand
<1>3. CASE \E t \in Threads : Drop(t)
  <2>1. PICK t \in Threads : Drop(t)
    BY <1>3
  <2>2. \A b \in Actions : Listed(b)' => Listed(b)
    BY <2>1, ListDrop
  <2> QED BY <1>0, <2>1, <2>2 DEF Drop, Fresh, InHand
<1>4. CASE \E t \in Threads : Take(t)
  <2>1. PICK t \in Threads : Take(t)
    BY <1>4
  <2>2. /\ Listed(list[pos]) /\ list[pos] \in Actions
        /\ \A b \in Actions :
             Listed(b)' <=> Listed(b) /\ (b # list[pos] \/ list[pos] \in Periodic)
    BY <2>1, ListTake
  <2>3. /\ runs' = runs /\ pushed' = pushed
        /\ \A u \in Threads : cur'[u] = IF u = t THEN list[pos] ELSE cur[u]
        /\ \A u \in Threads : pc'[u] = IF u = t THEN "popped" ELSE pc[u]
    BY <2>1 DEF IInv, TypeOK, Take
  <2>4. CASE a = list[pos]
    BY <1>0, <2>2, <2>3, <2>4 DEF Fresh, InHand
  <2>5. CASE a # list[pos]
    BY <1>0, <2>2, <2>3, <2>5 DEF Fresh, InHand
  <2> QED BY <2>4, <2>5
<1>5. CASE \E t \in Threads : CallHandler(t)
  <2>1. PICK t \in Threads : CallHandler(t)
    BY <1>5
  <2>2. /\ Listed(a)' = Listed(a) /\ cur' = cur /\ pushed' = pushed
        /\ pc[t] = "admitted" /\ cur[t] \in pushed /\ cur[t] \in Actions
        /\ \A u \in Threads : pc'[u] = IF u = t THEN "running" ELSE pc[u]
    BY <2>1 DEF IInv, TypeOK, Hands, CallHandler, Listed
  <2>3. CASE a = cur[t]
    <3>1. runs[a] = 0 /\ runs'[a] = 1
      BY <1>0, <2>1, <2>2, <2>3, ActionAssumption DEF IInv, TypeOK, CallHandler
    <3> QED BY <1>0, <2>2, <2>3, <3>1 DEF Fresh, InHand
  <2>4. CASE a # cur[t]
    <3>1. runs'[a] = runs[a]
      BY <2>1, <2>4 DEF IInv, TypeOK, CallHandler
    <3> QED BY <1>0, <2>2, <3>1 DEF Fresh, InHand
  <2> QED BY <2>3, <2>4
<1>6. CASE \E t \in Threads : Finish(t)
  <2>1. PICK t \in Threads : Finish(t)
    BY <1>6
  <2>2. /\ Listed(a)' = Listed(a) /\ runs' = runs /\ pushed' = pushed
        /\ \A u \in Threads : cur'[u] = IF u = t THEN None ELSE cur[u]
        /\ \A u \in Threads : pc'[u] \in {"popped", "admitted"} => pc'[u] = pc[u]
    BY <2>1 DEF IInv, TypeOK, Finish, Listed
  <2> QED BY <1>0, <2>2 DEF Fresh, InHand
<1> QED BY <1>1, <1>2, <1>3, <1>4, <1>5, <1>6, NextCases

\* An action leaves the list into a thread's hands, and these when it was started.
LEMMA NothingLostStep == IInv /\ [Next]_vars => NothingLost'
<1> SUFFICES ASSUME IInv, [Next]_vars, NEW a \in pushed' \ is_canceled'
             PROVE  \/ Listed(a)'
                    \/ a \notin Periodic /\ (InHand(a)' \/ runs'[a] > 0)
  BY DEF NothingLost
<1> USE DEF Goto, flags, waits, history, queues
<1>00. a \in Actions
  BY TypeStep DEF TypeOK
<1>0. ASSUME a \in pushed \ is_canceled
      PROVE  Listed(a) \/ (a \notin Periodic /\ (InHand(a) \/ runs[a] > 0))
  BY <1>0 DEF IInv, NothingLost
<1>1. CASE Quiet
  <2>1. a \in pushed \ is_canceled
    BY <1>1, QuietStep
  <2>2. InHand(a) => InHand(a)' \/ runs[a] > 0
    BY <1>1, <2>1, QuietStep, ActionAssumption DEF InHand, Keeps, LetsGo, IInv, TypeOK
  <2> QED BY <1>0, <1>1, <2>1, <2>2, QuietStep DEF Listed
<1>2. CASE \E t \in Threads, b \in Actions, delayed \in BOOLEAN : Push(t, b, delayed)
  <2>1. PICK t \in Threads, b \in Actions, delayed \in BOOLEAN : Push(t, b, delayed)
    BY <1>2
  <2>2. \A c \in Actions : Listed(c)' <=> Listed(c) \/ c = b
    BY <2>1, ListPush
  <2>3. /\ cur' = cur /\ runs' = runs /\ pushed' = pushed \cup {b}
        /\ is_canceled' = is_canceled
    BY <2>1 DEF Push
  <2> QED BY <1>00, <1>0, <2>2, <2>3 DEF InHand
<1>3. CASE \E t \in Threads : Drop(t)
  <2>1. PICK t \in Threads : Drop(t)
    BY <1>3
  <2>2. /\ cur' = cur /\ runs' = runs /\ pushed' = pushed /\ is_canceled' = is_canceled
        /\ list[pos] \in is_canceled \cup is_completed
    BY <2>1 DEF Drop, Dead
  <2>3. \A b \in Actions : Listed(b)' <=> Listed(b) /\ b # list[pos]
    BY <2>1, ListDrop
  <2>4. a = list[pos] => a \notin Periodic /\ runs[a] > 0
    BY <2>2 DEF IInv, RunsCounted
  <2> QED BY <1>00, <1>0, <2>2, <2>3, <2>4 DEF InHand
<1>4. CASE \E t \in Threads : Take(t)
  <2>1. PICK t \in Threads : Take(t)
    BY <1>4
  <2>2. \A b \in Actions : Listed(b)' <=> Listed(b) /\ (b # list[pos] \/ list[pos] \in Periodic)
    BY <2>1, ListTake
  <2>3. /\ runs' = runs /\ pushed' = pushed /\ is_canceled' = is_canceled
        /\ pc[t] = "scan"
        /\ \A u \in Threads : cur'[u] = IF u = t THEN list[pos] ELSE cur[u]
    BY <2>1 DEF IInv, TypeOK, Take, Scanning
  <2>4. cur[t] = None /\ a # None
    BY <2>3, ActionAssumption DEF IInv, TypeOK, Hands
  <2>5. InHand(a) => InHand(a)'
    BY <2>3, <2>4 DEF InHand
  <2>6. a = list[pos] => InHand(a)'
    BY <2>3 DEF InHand
  <2> QED BY <1>00, <1>0, <2>2, <2>3, <2>5, <2>6
<1>5. CASE \E t \in Threads : CallHandler(t)
  <2>1. PICK t \in Threads : CallHandler(t)
    BY <1>5
  <2>2. /\ Listed(a)' = Listed(a) /\ cur' = cur /\ pushed' = pushed /\ is_canceled' = is_canceled
        /\ cur[t] \in Actions
    BY <2>1 DEF IInv, TypeOK, Hands, CallHandler, Listed
  <2>3. a \in Actions /\ (runs[a] > 0 => runs'[a] > 0)
    BY <2>1, <2>2, ActionAssumption DEF IInv, TypeOK, CallHandler
  <2> QED BY <1>0, <2>2, <2>3 DEF InHand
<1>6. CASE \E t \in Threads : Finish(t)
  <2>1. PICK t \in Threads : Finish(t)
    BY <1>6
  <2>2. /\ Listed(a)' = Listed(a) /\ runs' = runs /\ pushed' = pushed /\ is_canceled' = is_canceled
        /\ \A u \in Threads : cur'[u] = IF u = t THEN None ELSE cur[u]
    BY <2>1 DEF IInv, TypeOK, Finish, Listed
  <2>3. runs[cur[t]] > 0
    BY <2>1, ActionAssumption DEF IInv, TypeOK, Hands, RunsCounted, Finish
  <2> QED BY <1>0, <2>2, <2>3 DEF InHand
<1> QED BY <1>1, <1>2, <1>3, <1>4, <1>5, <1>6, NextCases

\* The invariant is inductive.
LEMMA NextInv == IInv /\ [Next]_vars => IInv'
BY TypeStep, InsideStep, HandsStep, StartedStep, OnceStep, NothingLostStep DEF IInv

-----------------------------------------------------------------------------
\* ActionQueue keeps the inductive invariant in every behaviour.
THEOREM Inductive == Spec => []IInv
BY InitInv, NextInv, PTL DEF Spec

\* Types: an action is performed only if it was pushed, and MaxRuns bounds how often.
THEOREM TypeCorrect == Spec => []TypeOK
<1>1. IInv => TypeOK
  BY DEF IInv
<1> QED BY <1>1, Inductive, PTL

\* The counter that the thread pool and the main loop consult equals the length
\* of the list, whatever pops, drops and rotates actions (ThreadActionQueue).
THEOREM CountIsExact == Spec => []CountExact
<1>1. IInv => CountExact
  BY DEF IInv
<1> QED BY <1>1, Inductive, PTL

\* An action without a period is started at most once and is never in two places.
THEOREM StartedAtMostOnce == Spec => []AtMostOnce
<1>1. ASSUME IInv PROVE AtMostOnce
  <2> SUFFICES ASSUME NEW a \in Actions \ Periodic
               PROVE  /\ runs[a] <= 1
                      /\ InHand(a) => ~Listed(a)
                      /\ runs[a] = 1 => ~Listed(a)
                      /\ \A t, u \in Threads : cur[t] = a /\ cur[u] = a => t = u
    BY DEF AtMostOnce
  <2> QED BY <1>1 DEF IInv, Once, Fresh
<1> QED BY <1>1, Inductive, PTL

\* No action that was pushed and not canceled disappears without having been started.
THEOREM NothingIsLost == Spec => []NothingLost
<1>1. IInv => NothingLost
  BY DEF IInv
<1> QED BY <1>1, Inductive, PTL

\* A thread's own actions are performed by it alone: PopAction gives a thread only
\* actions of its own queue and the shared ones, in the loop of Wait too.
THEOREM RunsInItsThread == Spec => []InItsThread
<1>1. IInv => InItsThread
  BY DEF IInv
<1> QED BY <1>1, Inductive, PTL

\* Perform tests the flag under the action's mutex, and no operation resets it:
\* after Cancel the handler is started only by a thread that had tested the flag
\* before and has not called the handler yet.
THEOREM OnlyTheAdmittedStart == Spec => OnlyAdmittedStart
<1>1. ASSUME IInv, [Next]_vars, NEW a \in is_canceled
      PROVE  /\ a \in is_canceled'
             /\ Admitted(a)' \subseteq Admitted(a)
             /\ runs'[a] # runs[a] => \E t \in Admitted(a) : Admitted(a)' = Admitted(a) \ {t}
  <2> USE DEF flags, history, Goto
  <2>0. a \in Actions /\ \A t \in Threads : cur[t] = a => a # None
    BY <1>1, ActionAssumption DEF IInv, TypeOK
  <2>1. CASE Quiet
    BY <1>1, <2>0, <2>1, QuietStep DEF Keeps, LetsGo, Admitted
  <2>2. CASE \E t \in Threads, b \in Actions, delayed \in BOOLEAN : Push(t, b, delayed)
    BY <1>1, <2>2 DEF Push, Admitted, IInv, TypeOK
  <2>3. CASE \E t \in Threads : Drop(t) \/ Take(t) \/ Finish(t)
    BY <1>1, <2>3 DEF Drop, Take, Finish, Admitted, IInv, TypeOK
  <2>4. CASE \E t \in Threads : CallHandler(t)
    <3>1. PICK t \in Threads : CallHandler(t)
      BY <2>4
    <3>2. /\ cur' = cur /\ is_canceled' = is_canceled /\ pc[t] = "admitted"
          /\ \A u \in Threads : pc'[u] = IF u = t THEN "running" ELSE pc[u]
          /\ a # cur[t] => runs'[a] = runs[a]
      BY <1>1, <2>0, <3>1 DEF CallHandler, IInv, TypeOK
    <3>3. Admitted(a)' = Admitted(a) \ {t}
      BY <3>2 DEF Admitted
    <3>4. a = cur[t] => t \in Admitted(a)
      BY <3>2 DEF Admitted
    <3> QED BY <1>1, <3>2, <3>3, <3>4
  <2> QED BY <1>1, <2>1, <2>2, <2>3, <2>4, NextCases
<1>2. IInv /\ [Next]_vars
        => [\A a \in is_canceled :
              /\ a \in is_canceled'
              /\ Admitted(a)' \subseteq Admitted(a)
              /\ runs'[a] # runs[a] => \E t \in Admitted(a) : Admitted(a)' = Admitted(a) \ {t}]_vars
  BY <1>1
<1> QED BY <1>2, Inductive, PTL DEF Spec, OnlyAdmittedStart

-----------------------------------------------------------------------------
(* The pool. *)

\* A worker that is not performing actions is outside the queue and has none.
Performing == {"own", "background"}
OnlyInLoop ==
  \A w \in Workers : wpc[w] \notin Performing => cur[w] = None /\ pc[w] = "idle"

PInv == IInv /\ PoolTypeOK /\ OnlyInLoop /\ threads_count = Cardinality(Alive)

\* A step of the pool is a step of the queue, or leaves the queue alone.
LEMMA PoolStepIsQueueStep == [PoolNext]_allvars => [Next]_vars
<1> SUFFICES ASSUME [PoolNext]_allvars PROVE [Next]_vars
  OBVIOUS
<1> USE PoolAssumption
<1>1. ASSUME NEW t \in Threads, NEW a \in Actions,
             (\E delayed \in BOOLEAN : PoolPush(t, a, delayed)) \/ PoolCancel(t, a)
      PROVE  Next
  BY <1>1 DEF PoolPush, PoolCancel, Next
<1>2. ASSUME NEW t \in Threads, ProcessNewEvent(t) \/ PoolPushReturn(t) PROVE [Next]_vars
  BY <1>2 DEF ProcessNewEvent, PoolPushReturn, Next
<1>3. ASSUME NEW w \in Workers, WorkerPop(w) \/ WorkerExit(w) PROVE [Next]_vars
  <2>1. w \in Threads /\ w \in Queues /\ Background \in Queues
    BY DEF Queues
  <2>2. CASE CountOwn(w) \/ Expired(w) \/ CheckEmpty(w)
    BY <2>2 DEF CountOwn, Expired, CheckEmpty
  <2>3. CASE PopOwn(w) \/ PopBackground(w)
    BY <2>1, <2>3 DEF PopOwn, PopBackground, Next
  <2>4. CASE Cleanup(w)
    BY <2>1, <2>4 DEF Cleanup, Next
  <2> QED BY <1>3, <2>2, <2>3, <2>4 DEF WorkerPop, WorkerExit
<1>4. ASSUME NEW w \in Workers, WorkerStep(w) PROVE [Next]_vars
  BY <1>4 DEF WorkerStep, WorkerScan, WorkerPerform, WorkerFinishes, WorkerHasNone,
              WorkerSleep, Destroy, PopStep, PerformStep, Next
<1>5. ASSUME NEW a \in Actions, Tick(a) PROVE Next
  BY <1>5 DEF Next
<1>6. CASE UNCHANGED allvars
  BY <1>6 DEF allvars
<1> QED BY <1>1, <1>2, <1>3, <1>4, <1>5, <1>6 DEF PoolNext

\* The queue inside the pool behaves as ActionQueue says.
THEOREM QueueInPool == PoolSpec => Spec
<1>1. PoolInit => Init
  BY DEF PoolInit
<1> QED BY <1>1, PoolStepIsQueueStep, PTL DEF PoolSpec, Spec

-----------------------------------------------------------------------------
\* How the set of threads changes with the place of one of them.
LEMMA AliveMoves ==
  ASSUME PoolTypeOK, NEW w \in Workers, NEW l \in WorkerPCs, Become(w, l)
  PROVE  /\ wpc' \in [Workers -> WorkerPCs] /\ wpc'[w] = l
         /\ \A u \in Workers \ {w} : wpc'[u] = wpc[u]
         /\ Alive' = IF l = "absent" THEN Alive \ {w} ELSE Alive \cup {w}
         /\ (w \in Alive) = (wpc[w] # "absent")
BY DEF PoolTypeOK, Become, Alive

\* One element more or less.
LEMMA Counted ==
  ASSUME NEW w \in Workers
  PROVE  /\ Cardinality(Alive) \in Nat
         /\ w \notin Alive => Cardinality(Alive \cup {w}) = Cardinality(Alive) + 1
         /\ w \in Alive => Cardinality(Alive \ {w}) = Cardinality(Alive) - 1
<1>1. IsFiniteSet(Alive)
  BY PoolAssumption, FS_Subset DEF Alive
<1> QED BY <1>1, FS_CardinalityType, FS_AddElement, FS_RemoveElement

\* Initially no thread exists and all are idle.
LEMMA PoolInitInv == PoolInit => PInv
<1> SUFFICES ASSUME PoolInit PROVE PInv
  OBVIOUS
<1>1. IInv
  BY InitInv DEF PoolInit
<1>2. PoolTypeOK
  BY <1>1 DEF PoolInit, PoolTypeOK, IInv, WorkerPCs
<1>3. OnlyInLoop
  BY PoolAssumption DEF PoolInit, Init, OnlyInLoop
<1>4. Alive = {}
  BY DEF PoolInit, Alive
<1> QED BY <1>1, <1>2, <1>3, <1>4, FS_EmptySet DEF PInv, PoolInit

\* A thread takes a step in the queue, with whatever it changes of the pool's run:
\* a worker that stays where it is must be performing ...
LEMMA StayInv ==
  ASSUME PInv, IInv', NEW t \in Threads,
         UNCHANGED <<threads_count, wpc>>, plock' \in Workers \cup {None},
         notified' \subseteq Threads, left' \in [Workers -> Nat],
         processed' \subseteq Workers,
         t \in Workers => wpc[t] \in Performing \/ UNCHANGED <<pc, cur>>,
         \A u \in Threads \ {t} : pc'[u] = pc[u] /\ cur'[u] = cur[u]
  PROVE  PInv'
<1>1. OnlyInLoop'
  BY PoolAssumption DEF PInv, OnlyInLoop
<1>2. PoolTypeOK'
  BY DEF PInv, PoolTypeOK, IInv
<1>3. Alive' = Alive
  BY DEF Alive
<1> QED BY <1>1, <1>2, <1>3 DEF PInv

\* ... and one that goes elsewhere must go on performing or have let go of all.
LEMMA MoveInv ==
  ASSUME PInv, IInv', NEW w \in Workers, NEW l \in WorkerPCs \ {"absent"},
         Become(w, l), wpc[w] # "absent",
         UNCHANGED threads_count, plock' \in Workers \cup {None},
         notified' \subseteq Threads, left' \in [Workers -> Nat],
         processed' \subseteq Workers,
         l \in Performing \/ (pc'[w] = "idle" /\ cur'[w] = None),
         \A u \in Threads \ {w} : pc'[u] = pc[u] /\ cur'[u] = cur[u]
  PROVE  PInv'
<1>1. /\ wpc' \in [Workers -> WorkerPCs] /\ wpc'[w] = l
      /\ \A u \in Workers \ {w} : wpc'[u] = wpc[u]
      /\ Alive' = Alive
  BY AliveMoves DEF PInv
<1>2. OnlyInLoop'
  BY <1>1, PoolAssumption DEF PInv, OnlyInLoop
<1>3. PoolTypeOK'
  BY <1>1 DEF PInv, PoolTypeOK, IInv
<1> QED BY <1>1, <1>2, <1>3 DEF PInv

\* The counter follows the threads, and only workers that perform use the queue.
LEMMA PoolStep == PInv /\ [PoolNext]_allvars => PInv'
<1> SUFFICES ASSUME PInv, [PoolNext]_allvars PROVE PInv'
  OBVIOUS
<1>0. /\ IInv' /\ IInv /\ TypeOK /\ Hands /\ PoolTypeOK /\ OnlyInLoop
      /\ Clients \subseteq Threads /\ Workers \subseteq Threads /\ Clients \cap Workers = {}
      /\ None \notin Threads
      /\ Background \in Queues
  BY PoolStepIsQueueStep, NextInv, PoolAssumption, ActionAssumption
     DEF PInv, IInv, Queues
<1>t. /\ plock \in Workers \cup {None} /\ notified \subseteq Threads
      /\ left \in [Workers -> Nat] /\ processed \subseteq Workers
      /\ wpc \in [Workers -> WorkerPCs]
      /\ pc \in [Threads -> PCs] /\ cur \in [Threads -> Actions \cup {None}]
      /\ actions_count \in [Queues -> Nat]
  BY <1>0 DEF PoolTypeOK, TypeOK
<1>w. ASSUME NEW w \in Workers, pc[w] # "idle" \/ cur[w] # None
      PROVE  wpc[w] \in Performing
  BY <1>0, <1>w DEF OnlyInLoop
<1>1. ASSUME NEW t \in Threads, NEW a \in Actions, NEW delayed \in BOOLEAN,
             PoolPush(t, a, delayed)
      PROVE  PInv'
  <2>1. t \in Workers => wpc[t] \in Performing
    BY <1>0, <1>1, <1>w DEF PoolPush, MayCall
  <2>2. \A u \in Threads \ {t} : pc'[u] = pc[u] /\ cur'[u] = cur[u]
    BY <1>t, <1>1 DEF PoolPush, Push, Goto
  <2>3. /\ UNCHANGED <<threads_count, plock, wpc, left, processed>>
        /\ notified' \subseteq Threads
    BY <1>t, <1>1 DEF PoolPush, run
  <2> QED BY <1>0, <1>t, <2>1, <2>2, <2>3, StayInv
<1>2. ASSUME NEW t \in Threads, NEW a \in Actions, PoolCancel(t, a) PROVE PInv'
  BY <1>0, <1>t, <1>2, StayInv DEF PoolCancel, Cancel, pool, run
<1>3. ASSUME NEW t \in Threads, ProcessNewEvent(t) PROVE PInv'
  <2> DEFINE quiet == wpc' = wpc /\ threads_count' = threads_count
  <2>1. /\ UNCHANGED <<vars, plock, left, processed>> /\ notified' \subseteq Threads
        /\ quiet \/ \E w \in Workers : Create(w)
    BY <1>t, <1>3 DEF ProcessNewEvent, run
  <2>2. UNCHANGED <<pc, cur>>
    BY <2>1 DEF vars
  <2>3. CASE quiet
    BY <1>0, <1>t, <2>1, <2>2, <2>3, StayInv
  <2>4. ASSUME NEW w \in Workers, Create(w) PROVE PInv'
    <3>1. /\ wpc' \in [Workers -> WorkerPCs]
          /\ \A u \in Workers \ {w} : wpc'[u] = wpc[u]
          /\ wpc'[w] = "loop" /\ w \notin Alive /\ Alive' = Alive \cup {w}
      BY <1>0, <2>4, AliveMoves DEF Create, WorkerPCs
    <3>2. threads_count' = Cardinality(Alive')
      BY <2>4, <3>1, Counted DEF Create, PInv
    <3>3. OnlyInLoop'
      BY <1>0, <2>2, <2>4, <3>1 DEF OnlyInLoop, Create, Performing
    <3>4. PoolTypeOK'
      BY <1>0, <1>t, <2>1, <2>4, <3>1 DEF PoolTypeOK, IInv, Create
    <3> QED BY <1>0, <3>2, <3>3, <3>4 DEF PInv
  <2> QED BY <2>1, <2>3, <2>4
<1>4. ASSUME NEW t \in Threads, PoolPushReturn(t) PROVE PInv'
  <2>1. t \in Workers => wpc[t] \in Performing
    BY <1>4, <1>w DEF PoolPushReturn, PushReturn
  <2>2. \A u \in Threads \ {t} : pc'[u] = pc[u] /\ cur'[u] = cur[u]
    BY <1>t, <1>4 DEF PoolPushReturn, PushReturn, Goto
  <2> QED BY <1>0, <1>t, <1>4, <2>1, <2>2, StayInv DEF PoolPushReturn, pool, run
<1>5. ASSUME NEW w \in Workers, WorkerPop(w) PROVE PInv'
  <2>1. CASE CountOwn(w)
    <3>1. wpc[w] = "loop" /\ UNCHANGED <<pc, cur, threads_count, notified, plock>>
          /\ Become(w, "own")
      BY <2>1 DEF CountOwn, vars
    <3>2. left' \in [Workers -> Nat] /\ processed' \subseteq Workers
      BY <1>0, <1>t, <2>1 DEF CountOwn, Queues
    <3>3. PICK l \in WorkerPCs \ {"absent"} : Become(w, l) /\ l \in Performing
      BY <3>1 DEF WorkerPCs, Performing
    <3>4. /\ wpc[w] # "absent"
          /\ UNCHANGED threads_count /\ plock' \in Workers \cup {None}
          /\ notified' \subseteq Threads /\ left' \in [Workers -> Nat]
          /\ processed' \subseteq Workers
          /\ \A u \in Threads \ {w} : pc'[u] = pc[u] /\ cur'[u] = cur[u]
      BY <1>t, <3>1, <3>2
    <3> QED BY <1>0, <3>3, <3>4, MoveInv DEF Become
  <2>2. CASE PopOwn(w)
    <3>1. wpc[w] \in Performing /\ UNCHANGED <<threads_count, plock, notified, wpc, processed>>
      BY <2>2 DEF PopOwn, Performing
    <3>2. left' \in [Workers -> Nat]
      BY <1>t, <2>2 DEF PopOwn
    <3>3. \A u \in Threads \ {w} : pc'[u] = pc[u] /\ cur'[u] = cur[u]
      BY <1>t, <2>2 DEF PopOwn, BeginPop, Goto
    <3> QED BY <1>0, <1>t, <3>1, <3>2, <3>3, StayInv
  <2>3. CASE PopBackground(w)
    <3>1. /\ wpc[w] = "own" /\ Become(w, "background")
          /\ UNCHANGED <<threads_count, plock, notified, left, processed>>
      BY <2>3 DEF PopBackground, run
    <3>2. \A u \in Threads \ {w} : pc'[u] = pc[u] /\ cur'[u] = cur[u]
      BY <1>t, <2>3 DEF PopBackground, BeginPop, Goto
    <3>3. PICK l \in WorkerPCs \ {"absent"} : Become(w, l) /\ l \in Performing
      BY <3>1 DEF WorkerPCs, Performing
    <3>4. /\ wpc[w] # "absent"
          /\ UNCHANGED threads_count /\ plock' \in Workers \cup {None}
          /\ notified' \subseteq Threads /\ left' \in [Workers -> Nat]
          /\ processed' \subseteq Workers
          /\ \A u \in Threads \ {w} : pc'[u] = pc[u] /\ cur'[u] = cur[u]
      BY <1>t, <3>1, <3>2
    <3> QED BY <1>0, <3>3, <3>4, MoveInv DEF Become
  <2> QED BY <1>5, <2>1, <2>2, <2>3 DEF WorkerPop
<1>6. ASSUME NEW w \in Workers, WorkerScan(w) \/ WorkerPerform(w) PROVE PInv'
  <2>1. wpc[w] \in Performing
    BY <1>6, <1>w DEF WorkerScan, WorkerPerform, Drop, Skip, Take, Scanning, Perform,
                          CallHandler
  <2>2. \A u \in Threads \ {w} : pc'[u] = pc[u] /\ cur'[u] = cur[u]
    BY <1>t, <1>6 DEF WorkerScan, WorkerPerform, Drop, Skip, Take, Perform, CallHandler, Goto
  <2>3. UNCHANGED <<threads_count, plock, notified, wpc, left, processed>>
    BY <1>6 DEF WorkerScan, WorkerPerform, pool, run
  <2> QED BY <1>0, <1>t, <2>1, <2>2, <2>3, StayInv
<1>7. ASSUME NEW w \in Workers, NEW done \in BOOLEAN, AfterPop(w, done),
             pc[w] # "idle", pc'[w] = "idle" /\ cur'[w] = None,
             \A u \in Threads \ {w} : pc'[u] = pc[u] /\ cur'[u] = cur[u]
      PROVE  PInv'
  <2>1. wpc[w] \in Performing /\ wpc[w] # "absent"
    BY <1>7, <1>w DEF Performing
  <2>2. /\ UNCHANGED <<threads_count, plock, notified, left>>
        /\ processed' \subseteq Workers
        /\ UNCHANGED wpc \/ \E l \in {"loop", "empty"} : Become(w, l)
    BY <1>t, <1>7 DEF AfterPop
  <2>3. {"loop", "empty"} \subseteq WorkerPCs \ {"absent"}
    BY DEF WorkerPCs
  <2> QED BY <1>0, <1>t, <1>7, <2>1, <2>2, <2>3, StayInv, MoveInv
<1>8. ASSUME NEW w \in Workers, WorkerFinishes(w) PROVE PInv'
  <2>1. /\ pc[w] # "idle" /\ pc'[w] = "idle" /\ cur'[w] = None
        /\ \A u \in Threads \ {w} : pc'[u] = pc[u] /\ cur'[u] = cur[u]
    BY <1>0, <1>t, <1>8 DEF WorkerFinishes, Finish, Goto
  <2> QED BY <1>7, <1>8, <2>1 DEF WorkerFinishes
<1>9. ASSUME NEW w \in Workers, WorkerHasNone(w) PROVE PInv'
  <2>1. PopNothing(w) => cur[w] = None
    BY <1>0 DEF PopNothing, Hands
  <2>2. /\ pc[w] # "idle" /\ pc'[w] = "idle" /\ cur'[w] = None
        /\ \A u \in Threads \ {w} : pc'[u] = pc[u] /\ cur'[u] = cur[u]
    BY <1>0, <1>t, <1>9, <2>1 DEF WorkerHasNone, PopNothing, Refuse, Throw, Goto
  <2> QED BY <1>7, <1>9, <2>2 DEF WorkerHasNone
<1>10. ASSUME NEW w \in Workers, WorkerSleep(w) \/ WorkerExit(w) PROVE PInv'
  <2>1. /\ wpc[w] \in {"empty", "checking", "cleaning"}
        /\ pc' = pc /\ cur' = cur /\ UNCHANGED <<threads_count, notified, left, processed>>
        /\ plock' \in Workers \cup {None}
        /\ \E l \in {"loop", "checking", "cleaning", "exiting"} : Become(w, l)
    BY <1>0, <1>t, <1>10 DEF WorkerSleep, WorkerExit, Expired, CheckEmpty, Cleanup,
                             CleanupCurrentThread, vars, run
  <2>2. pc[w] = "idle" /\ cur[w] = None
    BY <1>0, <2>1 DEF OnlyInLoop, Performing
  <2>3. {"loop", "checking", "cleaning", "exiting"} \subseteq WorkerPCs \ {"absent"}
    BY DEF WorkerPCs
  <2> QED BY <1>0, <1>t, <2>1, <2>2, <2>3, MoveInv
<1>11. ASSUME NEW w \in Workers, Destroy(w) PROVE PInv'
  <2>1. /\ wpc' \in [Workers -> WorkerPCs] /\ wpc'[w] = "absent"
        /\ \A u \in Workers \ {w} : wpc'[u] = wpc[u]
        /\ w \in Alive /\ Alive' = Alive \ {w}
    BY <1>0, <1>11, AliveMoves DEF Destroy, WorkerPCs
  <2>2. threads_count' = Cardinality(Alive') /\ threads_count' \in Nat
    <3>1. IsFiniteSet(Alive')
      BY <2>1, PoolAssumption, FS_Subset DEF Alive
    <3> QED BY <1>11, <2>1, <3>1, Counted, FS_CardinalityType DEF Destroy, PInv
  <2>3. UNCHANGED <<pc, cur, plock, notified, left, processed>>
    BY <1>11 DEF Destroy, vars, run
  <2>4. OnlyInLoop'
    <3>1. pc[w] = "idle" /\ cur[w] = None
      BY <1>0, <1>11 DEF Destroy, OnlyInLoop, Performing
    <3> QED BY <1>0, <2>1, <2>3, <3>1 DEF OnlyInLoop
  <2>5. PoolTypeOK'
    BY <1>0, <1>t, <2>1, <2>2, <2>3 DEF PoolTypeOK, IInv
  <2> QED BY <1>0, <2>2, <2>4, <2>5 DEF PInv
<1>12. ASSUME UNCHANGED <<pc, cur, pool>> PROVE PInv'
  <2>1. OnlyInLoop' /\ Alive' = Alive /\ threads_count' = threads_count
    BY <1>0, <1>12 DEF pool, OnlyInLoop, Alive
  <2>2. PoolTypeOK'
    BY <1>0, <1>t, <1>12 DEF pool, run, PoolTypeOK, IInv
  <2> QED BY <1>0, <2>1, <2>2 DEF PInv
<1>13. ASSUME NEW a \in Actions, Tick(a), UNCHANGED pool PROVE PInv'
  BY <1>12, <1>13 DEF Tick
<1>14. CASE UNCHANGED allvars
  BY <1>12, <1>14 DEF allvars, vars
<1> QED BY <1>1, <1>2, <1>3, <1>4, <1>5, <1>6, <1>8, <1>9, <1>10, <1>11, <1>13, <1>14
        DEF PoolNext, WorkerStep

\* The pool keeps the invariant, whatever clients push and cancel and whichever
\* workers fail or end themselves.
THEOREM PoolInductive == PoolSpec => []PInv
BY PoolInitInv, PoolStep, PTL DEF PoolSpec

\* Types of the queue and the pool together.
THEOREM PoolTypeCorrect == PoolSpec => []PoolTypeOK
<1>1. PInv => PoolTypeOK
  BY DEF PInv
<1> QED BY <1>1, PoolInductive, PTL

\* threads_count, by which the pool decides whether anybody would perform a new
\* action, is the number of its threads; and a thread on its way out of Run does
\* not take an action with it.
THEOREM ThreadsAreCounted == PoolSpec => []ThreadsCounted
<1>1. PInv => ThreadsCounted
  BY DEF PInv, OnlyInLoop, Performing, ThreadsCounted
<1> QED BY <1>1, PoolInductive, PTL
=============================================================================
