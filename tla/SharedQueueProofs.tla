-------------------------- MODULE SharedQueueProofs -------------------------
(***************************************************************************)
(* Proofs about SharedQueue for any finite sets of producers and           *)
(* consumers, any capacity and any number of calls.                        *)
(*                                                                         *)
(* NoLostWakeup is not inductive alone: that a post is not skipped while   *)
(* somebody sleeps needs WaitersCounted, and that the counters and the     *)
(* queue stand still between a test and the step that relies on it needs   *)
(* LockDiscipline.                                                         *)
(***************************************************************************)
EXTENDS SharedQueue, FiniteSetTheorems, TLAPS

IInv == TypeOK /\ LockDiscipline /\ WaitersCounted /\ NoLostWakeup

\* The threads of S that a step brings to, or leaves at, the labels L.
AtNext(S, L) == {t \in S : pc'[t] \in L}

\* 1 for a thread t of S whose label l is among L.
One(t, S, l, L) == IF t \in S /\ l \in L THEN 1 ELSE 0

\* When one thread moves from pc[t] to l, the number of threads of S at the
\* labels L changes by what t contributes.
LEMMA Moves ==
  ASSUME TypeOK, NEW t \in Threads, NEW l \in PCs, Goto(t, l),
         NEW S \in SUBSET Threads, NEW L
  PROVE  /\ Cardinality(At(S, L)) \in Nat
         /\ Cardinality(AtNext(S, L)) \in Nat
         /\ Cardinality(AtNext(S, L)) =
              Cardinality(At(S, L)) + One(t, S, l, L) - One(t, S, pc[t], L)
<1> USE DEF One
<1>1. /\ IsFiniteSet(Threads) /\ IsFiniteSet(S)
  BY QueueAssumption, FS_Union, FS_Subset DEF Threads
<1>2. IsFiniteSet(At(S, L)) /\ IsFiniteSet(AtNext(S, L))
  BY <1>1, FS_Subset DEF At, AtNext
<1>3. CASE t \in S /\ l \in L /\ pc[t] \notin L
  <2>1. AtNext(S, L) = At(S, L) \cup {t} /\ t \notin At(S, L)
    BY <1>3 DEF At, AtNext, Goto, TypeOK
  <2> QED BY <1>2, <1>3, <2>1, FS_AddElement, FS_CardinalityType
<1>4. CASE t \in S /\ l \notin L /\ pc[t] \in L
  <2>1. AtNext(S, L) = At(S, L) \ {t} /\ t \in At(S, L)
    BY <1>4 DEF At, AtNext, Goto, TypeOK
  <2> QED BY <1>2, <1>4, <2>1, FS_RemoveElement, FS_CardinalityType
<1>5. CASE t \notin S \/ (l \in L <=> pc[t] \in L)
  <2>1. AtNext(S, L) = At(S, L)
    BY <1>5 DEF At, AtNext, Goto, TypeOK
  <2> QED BY <1>2, <1>5, <2>1, FS_CardinalityType
<1> QED BY <1>3, <1>4, <1>5

\* The two conditions are opposite, and each thread belongs to one of them.
LEMMA Sides ==
  /\ \A k \in Conditions : Side(k) \subseteq Threads /\ Opposite(k) \in Conditions
                           /\ Opposite(Opposite(k)) = k /\ Opposite(k) # k
  /\ \A t \in Threads : Cond(t) \in Conditions
  /\ \A t \in Threads, k \in Conditions : t \in Side(k) <=> Cond(t) = k
BY QueueAssumption DEF Conditions, Side, Cond, Opposite, Threads

\* The queue is ready for a thread when something is available for its side.
LEMMA ReadyIsAvailable ==
  ASSUME TypeOK, NEW t \in Threads
  PROVE  /\ \A k \in Conditions : Available(k) \in Nat
         /\ Ready(t) <=> Available(Cond(t)) > 0
BY Sides, QueueAssumption DEF TypeOK, Ready, Available, Cond, Threads, Conditions

-----------------------------------------------------------------------------
\* The inductive invariant holds initially.
LEMMA InitInv == Init => IInv
<1> SUFFICES ASSUME Init PROVE IInv
  OBVIOUS
<1>1. TypeOK
  BY QueueAssumption DEF Init, TypeOK, Conditions, PCs, Phases, Threads, Items
<1>2. \A S \in SUBSET Threads, L \in SUBSET (PCs \ {"idle"}) : At(S, L) = {}
  BY DEF Init, At
<1>3. LockDiscipline
  BY QueueAssumption DEF Init, LockDiscipline, Inside, Threads
<1>4. WaitersCounted
  <2> SUFFICES ASSUME NEW k \in Conditions
               PROVE  waiters[k] = Cardinality(Waiting(k))
    BY DEF WaitersCounted
  <2>1. Waiting(k) = {}
    BY <1>2, Sides DEF Waiting, PCs
  <2> QED BY <2>1, FS_EmptySet DEF Init
<1>5. NoLostWakeup
  <2> SUFFICES ASSUME NEW k \in Conditions
               PROVE  Asleep(k) = {}
    BY DEF NoLostWakeup
  <2> QED BY <1>2, Sides DEF Asleep, PCs
<1> QED BY <1>1, <1>3, <1>4, <1>5 DEF IInv

\* Every step of TryPush, TryPop and of the waits inside them keeps the types; that
\* wait_counter-- stays a natural number needs the exact counters.
LEMMA TypeStep == TypeOK /\ LockDiscipline /\ WaitersCounted /\ [Next]_vars => TypeOK'
<1> SUFFICES ASSUME TypeOK, LockDiscipline, WaitersCounted, [Next]_vars PROVE TypeOK'
  OBVIOUS
<1> USE QueueAssumption DEF TypeOK, histories
<1>1. ASSUME NEW t \in Threads, NEW limit \in BOOLEAN, Call(t, limit) PROVE TypeOK'
  BY <1>1 DEF Call, Goto, PCs, Phases
<1>2. ASSUME NEW t \in Threads, Acquire(t) PROVE TypeOK'
  <2>1. CASE pc[t] \in {"woken", "interrupted"}
    <3>1. /\ Cond(t) \in Conditions /\ t \in Waiting(Cond(t))
          /\ waiters[Cond(t)] = Cardinality(Waiting(Cond(t)))
      BY <2>1, Sides DEF Waiting, At, WaitersCounted
    <3>2. IsFiniteSet(Waiting(Cond(t)))
      <4>1. IsFiniteSet(Side(Cond(t)))
        BY QueueAssumption DEF Side
      <4> QED BY <4>1, FS_Subset DEF Waiting, At
    <3>3. waiters[Cond(t)] - 1 \in Nat
      BY <3>1, <3>2, FS_EmptySet, FS_CardinalityType
    <3> QED BY <1>2, <2>1, <3>1, <3>3 DEF Acquire, TakeLock, LowerCounter, Goto, PCs
  <2>2. CASE pc[t] \notin {"woken", "interrupted"}
    BY <1>2, <2>2 DEF Acquire, TakeLock, LowerCounter, Goto, PCs
  <2> QED BY <2>1, <2>2
<1>3. ASSUME NEW p \in Producers, Push(p) PROVE TypeOK'
  BY <1>3 DEF Push, Ready, Value, Items, Goto, PCs, Threads
<1>4. ASSUME NEW c \in Consumers, Pop(c) PROVE TypeOK'
  BY <1>4 DEF Pop, Ready, Goto, PCs, Threads
<1>5. ASSUME NEW t \in Threads, Post(t) PROVE TypeOK'
  BY <1>5, Sides DEF Post, Signal, Goto, PCs
<1>6. ASSUME NEW t \in Threads, Spin(t) \/ Fail(t) PROVE TypeOK'
  BY <1>6 DEF Spin, Fail, Goto, PCs
<1>7. ASSUME NEW t \in Threads, Sleep(t) PROVE TypeOK'
  BY <1>7, Sides DEF Sleep, Goto, PCs
<1>8. ASSUME NEW t \in Threads, Expire(t) \/ Interrupt(t) PROVE TypeOK'
  <2>1. t \in Producers => Value(t) \in Items
    BY DEF Value, Items
  <2>2. refused' \subseteq Items
    BY <1>8, <2>1 DEF Expire, Interrupt, Refusing
  <2>3. pc' \in [Threads -> PCs]
    BY <1>8 DEF Expire, Interrupt, Goto, PCs
  <2> QED BY <1>8, <2>2, <2>3 DEF Expire, Interrupt
<1>9. ASSUME NEW t \in Threads, Wake(t) PROVE TypeOK'
  BY <1>9, Sides DEF Wake, Goto, PCs
<1>10. ASSUME NEW t \in Threads, TimeOut(t) PROVE TypeOK'
  BY <1>10 DEF TimeOut, Goto, PCs
<1>11. ASSUME NEW t \in Threads, Tick(t) PROVE TypeOK'
  BY <1>11 DEF Tick, Phases
<1>12. CASE UNCHANGED vars
  BY <1>12 DEF vars
<1> QED BY <1>1, <1>2, <1>3, <1>4, <1>5, <1>6, <1>7, <1>8, <1>9, <1>10, <1>11, <1>12
        DEF Next, Internal

\* Every step keeps the spin lock in the hands of the thread inside it.
LEMMA LockStep == TypeOK /\ LockDiscipline /\ [Next]_vars => LockDiscipline'
<1> SUFFICES ASSUME TypeOK, LockDiscipline, [Next]_vars,
                    NEW u \in Threads
             PROVE  (Inside(u) <=> holder = u)'
  BY DEF LockDiscipline
<1> USE QueueAssumption DEF TypeOK, LockDiscipline, Inside, Goto, Threads
<1>1. ASSUME NEW t \in Threads, NEW limit \in BOOLEAN, Call(t, limit)
      PROVE  (Inside(u) <=> holder = u)'
  BY <1>1 DEF Call
<1>2. ASSUME NEW t \in Threads, Acquire(t) PROVE (Inside(u) <=> holder = u)'
  BY <1>2 DEF Acquire, TakeLock, LowerCounter
<1>3. ASSUME NEW t \in Threads, Internal(t) PROVE (Inside(u) <=> holder = u)'
  BY <1>3 DEF Internal, Push, Pop, Post, Signal, Spin, Sleep, Expire, Fail
<1>4. ASSUME NEW t \in Threads, Wake(t) \/ TimeOut(t) \/ Interrupt(t)
      PROVE  (Inside(u) <=> holder = u)'
  BY <1>4 DEF Wake, TimeOut, Interrupt
<1>5. ASSUME NEW t \in Threads, Tick(t) \/ UNCHANGED vars
      PROVE  (Inside(u) <=> holder = u)'
  BY <1>5 DEF Tick, vars
<1> QED BY <1>1, <1>2, <1>3, <1>4, <1>5 DEF Next, vars

\* What a step of thread t does to the number of its own side's waiters.
LEMMA CountStep ==
  TypeOK /\ WaitersCounted /\ [Next]_vars => WaitersCounted'
<1> SUFFICES ASSUME TypeOK, WaitersCounted, [Next]_vars,
                    NEW k \in Conditions
             PROVE  waiters'[k] = Cardinality(Waiting(k)')
  BY DEF WaitersCounted, Waiting, At
<1> DEFINE L == {"sleep", "woken", "interrupted"}
<1>1. /\ Waiting(k) = At(Side(k), L) /\ Waiting(k)' = AtNext(Side(k), L)
      /\ waiters[k] = Cardinality(At(Side(k), L)) /\ waiters[k] \in Nat
      /\ Side(k) \in SUBSET Threads
  BY Sides DEF Waiting, At, AtNext, Side, WaitersCounted, TypeOK
<1>2. ASSUME NEW t \in Threads, NEW l \in PCs, Goto(t, l),
             waiters'[k] = waiters[k] + (IF t \in Side(k) /\ l \in L THEN 1 ELSE 0)
                                      - (IF t \in Side(k) /\ pc[t] \in L THEN 1 ELSE 0)
      PROVE  waiters'[k] = Cardinality(Waiting(k)')
  <2>1. /\ Cardinality(AtNext(Side(k), L)) \in Nat
        /\ Cardinality(AtNext(Side(k), L)) =
             Cardinality(At(Side(k), L)) + One(t, Side(k), l, L) - One(t, Side(k), pc[t], L)
    <3> HIDE DEF L
    <3> QED BY <1>1, <1>2, Moves
  <2> QED BY <1>1, <1>2, <2>1 DEF One
<1>3. ASSUME NEW t \in Threads, Acquire(t) PROVE waiters'[k] = Cardinality(Waiting(k)')
  <2>1. CASE pc[t] \in {"enter", "spin"}
    BY <2>1, <1>2, <1>3, <1>1 DEF Acquire, TakeLock, LowerCounter, PCs
  <2>2. CASE pc[t] \in {"woken", "interrupted"}
    <3>1. waiters'[k] = waiters[k] - (IF t \in Side(k) THEN 1 ELSE 0)
      BY <2>2, <1>3, <1>1, Sides DEF Acquire, TakeLock, LowerCounter, TypeOK
    <3>2. Goto(t, "check") \/ Goto(t, "fail")
      BY <2>2, <1>3 DEF Acquire, TakeLock, LowerCounter
    <3> QED BY <2>2, <3>1, <3>2, <1>2, <1>1 DEF PCs
  <2>3. CASE pc[t] = "expired"
    BY <2>3, <1>2, <1>3, <1>1 DEF Acquire, TakeLock, LowerCounter, PCs
  <2> QED BY <1>3, <2>1, <2>2, <2>3 DEF Acquire, TakeLock, LowerCounter
<1>4. ASSUME NEW t \in Threads, Sleep(t) PROVE waiters'[k] = Cardinality(Waiting(k)')
  <2>1. waiters'[k] = waiters[k] + (IF t \in Side(k) THEN 1 ELSE 0)
    BY <1>4, <1>1, Sides DEF Sleep, TypeOK
  <2> QED BY <1>4, <2>1, <1>2, <1>1 DEF Sleep, PCs
<1>5. ASSUME NEW t \in Threads, NEW limit \in BOOLEAN, Call(t, limit)
      PROVE  waiters'[k] = Cardinality(Waiting(k)')
  BY <1>5, <1>2, <1>1 DEF Call, PCs
<1>6. ASSUME NEW t \in Threads,
             \/ Post(t) \/ Spin(t) \/ Expire(t) \/ Fail(t)
             \/ (t \in Producers /\ Push(t)) \/ (t \in Consumers /\ Pop(t))
      PROVE  waiters'[k] = Cardinality(Waiting(k)')
  <2>1. /\ UNCHANGED waiters /\ pc[t] \notin L
        /\ \E l \in PCs \ L : Goto(t, l)
    BY <1>6 DEF Post, Signal, Spin, Expire, Fail, Push, Pop, PCs
  <2> QED BY <2>1, <1>2, <1>1
<1>7. ASSUME NEW t \in Threads, Wake(t) \/ TimeOut(t) \/ Interrupt(t)
      PROVE  waiters'[k] = Cardinality(Waiting(k)')
  <2>1. /\ UNCHANGED waiters /\ pc[t] \in L
        /\ \E l \in PCs \cap L : Goto(t, l)
    BY <1>7 DEF Wake, TimeOut, Interrupt, PCs
  <2> QED BY <2>1, <1>2, <1>1
<1>8. CASE UNCHANGED <<pc, waiters>>
  BY <1>8, <1>1 DEF At, AtNext
<1>9. /\ UNCHANGED vars => UNCHANGED <<pc, waiters>>
      /\ \A t \in Threads : Tick(t) => UNCHANGED <<pc, waiters>>
  BY DEF vars, Tick
<1> QED BY <1>9, <1>3, <1>4, <1>5, <1>6, <1>7, <1>8 DEF Next, Internal, vars

\* While somebody sleeps, the counter that decides whether to post is not zero.
LEMMA SleeperIsCounted ==
  ASSUME TypeOK, WaitersCounted, NEW k \in Conditions, Asleep(k) # {}
  PROVE  waiters[k] > 0
<1>1. IsFiniteSet(Waiting(k))
  <2>1. IsFiniteSet(Side(k))
    BY QueueAssumption DEF Side
  <2> QED BY <2>1, FS_Subset DEF Waiting, At
<1>2. Waiting(k) # {}
  BY DEF Asleep, Waiting, At
<1> QED BY <1>1, <1>2, FS_EmptySet, FS_CardinalityType DEF WaitersCounted, TypeOK

-----------------------------------------------------------------------------
\* What a move of thread t does to the two sets NoLostWakeup counts.
LEMMA Deltas ==
  ASSUME TypeOK, NEW k \in Conditions, NEW t \in Threads, NEW l \in PCs, Goto(t, l)
  PROVE  /\ Cardinality(Looking(k)) \in Nat /\ Cardinality(Posting(k)) \in Nat
         /\ Cardinality(Looking(k)') \in Nat /\ Cardinality(Posting(k)') \in Nat
         /\ Cardinality(Looking(k)') =
              Cardinality(Looking(k))
                + (IF Cond(t) = k /\ l \in {"woken", "check"} THEN 1 ELSE 0)
                - (IF Cond(t) = k /\ pc[t] \in {"woken", "check"} THEN 1 ELSE 0)
         /\ Cardinality(Posting(k)') =
              Cardinality(Posting(k))
                + (IF Cond(t) # k /\ l = "post" THEN 1 ELSE 0)
                - (IF Cond(t) # k /\ pc[t] = "post" THEN 1 ELSE 0)
<1>1. /\ Side(k) \in SUBSET Threads /\ Side(Opposite(k)) \in SUBSET Threads
      /\ t \in Side(k) <=> Cond(t) = k
      /\ t \in Side(Opposite(k)) <=> Cond(t) # k
  <2>1. \A u \in Threads : Cond(u) = Opposite(k) <=> Cond(u) # k
    BY DEF Conditions, Cond, Opposite
  <2> QED BY <2>1, Sides
<1>2. /\ Looking(k)' = AtNext(Side(k), {"woken", "check"})
      /\ Posting(k)' = AtNext(Side(Opposite(k)), {"post"})
  BY DEF Looking, Posting, At, AtNext, Side, Opposite
<1>3. ASSUME NEW S \in SUBSET Threads, NEW L
      PROVE  /\ Cardinality(At(S, L)) \in Nat
             /\ Cardinality(AtNext(S, L)) \in Nat
             /\ Cardinality(AtNext(S, L)) =
                  Cardinality(At(S, L)) + One(t, S, l, L) - One(t, S, pc[t], L)
  BY Moves
<1> QED BY <1>1, <1>2, <1>3 DEF Looking, Posting, One

\* The invariant for one condition, and its preservation by one step.
Matched(k) ==
  Asleep(k) # {} =>
    Available(k) <= sem[k] + Cardinality(Looking(k)) + Cardinality(Posting(k))

\* Every step preserves NoLostWakeup: what makes an item or a place available posts
\* to the opposite side before it lets go of the lock.
LEMMA WakeupStep == IInv /\ TypeOK' /\ [Next]_vars => NoLostWakeup'
<1> SUFFICES ASSUME IInv, TypeOK', [Next]_vars, NEW k \in Conditions
             PROVE  Matched(k)'
  BY DEF NoLostWakeup, Matched
<1>0. /\ TypeOK /\ WaitersCounted /\ Matched(k)
      /\ sem[k] \in Nat /\ sem'[k] \in Nat
      /\ Available(k) \in Nat /\ Available(k)' \in Nat
  <2>1. TypeOK /\ WaitersCounted /\ Matched(k)
    BY DEF IInv, NoLostWakeup, Matched
  <2>2. Available(k)' \in Nat
    BY QueueAssumption DEF TypeOK, Available
  <2> QED BY <2>1, <2>2, ReadyIsAvailable, QueueAssumption DEF TypeOK, Available
\* A step that leaves queue, semaphore and the two sets no worse than before.
<1>1. ASSUME NEW t \in Threads, NEW l \in PCs, Goto(t, l),
             Asleep(k)' # {} => Asleep(k) # {},
             Available(k)' - sem'[k]
               - (IF Cond(t) = k /\ l \in {"woken", "check"} THEN 1 ELSE 0)
               + (IF Cond(t) = k /\ pc[t] \in {"woken", "check"} THEN 1 ELSE 0)
               - (IF Cond(t) # k /\ l = "post" THEN 1 ELSE 0)
               + (IF Cond(t) # k /\ pc[t] = "post" THEN 1 ELSE 0)
                 <= Available(k) - sem[k]
      PROVE  Matched(k)'
  BY <1>0, <1>1, Deltas DEF Matched
\* Only Sleep brings a thread to "sleep".
<1>2. ASSUME NEW t \in Threads, NEW l \in PCs \ {"sleep"}, Goto(t, l)
      PROVE  Asleep(k)' # {} => Asleep(k) # {}
  BY <1>0, <1>2, Sides DEF Asleep, At, Goto, TypeOK, Side
<1>3. ASSUME UNCHANGED <<queue, sem>> PROVE Available(k)' = Available(k) /\ sem'[k] = sem[k]
  BY <1>3 DEF Available
<1>4. ASSUME NEW t \in Threads, NEW limit \in BOOLEAN, Call(t, limit) PROVE Matched(k)'
  BY <1>0, <1>1, <1>2, <1>3, <1>4 DEF Call, PCs
<1>5. ASSUME NEW t \in Threads, Acquire(t) PROVE Matched(k)'
  <2>1. PICK l \in {"check", "fail"} :
          Goto(t, l) /\ (l = "fail" => pc[t] \in {"interrupted", "expired"})
    BY <1>5 DEF Acquire, TakeLock, LowerCounter
  <2>2. pc[t] # "post" /\ UNCHANGED <<queue, sem>>
    BY <1>5 DEF Acquire, TakeLock, LowerCounter
  <2> QED BY <1>0, <1>1, <1>2, <1>3, <2>1, <2>2 DEF PCs
<1>6. ASSUME NEW p \in Producers, Push(p) PROVE Matched(k)'
  <2>1. /\ p \in Threads /\ Cond(p) = "full" /\ Goto(p, "post") /\ pc[p] = "check"
        /\ UNCHANGED sem
    BY <1>6, QueueAssumption DEF Push, Threads, Cond
  <2>2. Available(k)' = IF k = "full" THEN Available(k) - 1 ELSE Available(k) + 1
    BY <1>0, <1>6, QueueAssumption DEF Push, Available, Conditions, TypeOK, Value, Items
  <2> QED BY <1>0, <1>1, <1>2, <2>1, <2>2 DEF PCs, Conditions
<1>7. ASSUME NEW c \in Consumers, Pop(c) PROVE Matched(k)'
  <2>1. /\ c \in Threads /\ Cond(c) = "empty" /\ Goto(c, "post") /\ pc[c] = "check"
        /\ UNCHANGED sem
    BY <1>7 DEF Pop, Threads, Cond
  <2>2. queue # <<>>
    BY <1>7, QueueAssumption DEF Pop, Ready
  <2>3. Available(k)' = IF k = "empty" THEN Available(k) - 1 ELSE Available(k) + 1
    BY <1>0, <1>7, <2>2, QueueAssumption DEF Pop, Available, Conditions, TypeOK
  <2> QED BY <1>0, <1>1, <1>2, <2>1, <2>3 DEF PCs, Conditions
\* The post is skipped only when nobody sleeps on the other side.
<1>8. ASSUME NEW t \in Threads, Post(t) PROVE Matched(k)'
  <2>1. /\ Goto(t, "idle") /\ pc[t] = "post" /\ Available(k)' = Available(k)
        /\ Asleep(k)' # {} => Asleep(k) # {}
    BY <1>8, <1>2 DEF Post, Signal, Available, PCs
  <2>2. CASE Cond(t) = k
    <3>1. sem'[k] = sem[k]
      BY <1>0, <1>8, <2>2, Sides DEF Post, Signal, TypeOK
    <3> QED BY <1>0, <1>1, <2>1, <2>2, <3>1 DEF PCs
  <2>3. CASE Cond(t) # k /\ Asleep(k) # {}
    <3>1. Opposite(Cond(t)) = k
      BY <2>3 DEF Conditions, Cond, Opposite
    <3>2. sem'[k] = sem[k] + 1
      BY <1>0, <1>8, <2>3, <3>1, SleeperIsCounted DEF Post, Signal, TypeOK
    <3> QED BY <1>0, <1>1, <2>1, <2>3, <3>2 DEF PCs
  <2>4. CASE Asleep(k) = {}
    BY <2>1, <2>4 DEF Matched
  <2> QED BY <2>2, <2>3, <2>4
\* A thread that gives up the test does so because nothing is available for it.
<1>9. ASSUME NEW t \in Threads, Spin(t) \/ Sleep(t) \/ Expire(t) PROVE Matched(k)'
  <2>1. PICK l \in {"spin", "sleep", "expired"} : Goto(t, l)
    BY <1>9 DEF Spin, Sleep, Expire
  <2>2. /\ pc[t] = "check" /\ ~Ready(t)
        /\ Available(k)' = Available(k) /\ sem'[k] = sem[k]
    BY <1>3, <1>9 DEF Spin, Sleep, Expire
  <2>3. CASE Cond(t) = k
    <3>1. Available(k)' = 0
      BY <1>0, <2>2, <2>3, ReadyIsAvailable
    <3>2. Cardinality(Looking(k)') \in Nat /\ Cardinality(Posting(k)') \in Nat
      BY <1>0, <2>1, Deltas DEF PCs
    <3> QED BY <1>0, <3>1, <3>2 DEF Matched
  <2>4. CASE Cond(t) # k
    <3>1. Asleep(k)' # {} => Asleep(k) # {}
      BY <1>0, <2>1, <2>4, Sides DEF Asleep, At, Goto, TypeOK, Side
    <3> QED BY <1>0, <1>1, <2>1, <2>2, <2>4, <3>1 DEF PCs
  <2> QED BY <2>3, <2>4
<1>10. ASSUME NEW t \in Threads, Wake(t) PROVE Matched(k)'
  <2>1. /\ Goto(t, "woken") /\ pc[t] = "sleep" /\ Available(k)' = Available(k)
        /\ sem'[k] = IF Cond(t) = k THEN sem[k] - 1 ELSE sem[k]
    BY <1>0, <1>10, Sides DEF Wake, TypeOK, Available
  <2> QED BY <1>0, <1>1, <1>2, <2>1 DEF PCs
<1>11. ASSUME NEW t \in Threads, TimeOut(t) \/ Interrupt(t) \/ Fail(t) PROVE Matched(k)'
  <2>1. PICK l \in {"woken", "interrupted", "idle"} : Goto(t, l)
    BY <1>11 DEF TimeOut, Interrupt, Fail
  <2>2. /\ pc[t] \in {"sleep", "fail"}
        /\ Available(k)' = Available(k) /\ sem'[k] = sem[k]
    BY <1>3, <1>11 DEF TimeOut, Interrupt, Fail
  <2> QED BY <1>0, <1>1, <1>2, <2>1, <2>2 DEF PCs
<1>12. ASSUME UNCHANGED <<queue, sem, pc>> PROVE Matched(k)'
  BY <1>0, <1>12 DEF Matched, Asleep, Looking, Posting, At, Available
<1>13. /\ UNCHANGED vars => UNCHANGED <<queue, sem, pc>>
       /\ \A t \in Threads : Tick(t) => UNCHANGED <<queue, sem, pc>>
  BY DEF vars, Tick
<1> QED BY <1>4, <1>5, <1>6, <1>7, <1>8, <1>9, <1>10, <1>11, <1>12, <1>13
        DEF Next, Internal

\* Every reachable state, of any number of threads, satisfies the type
\* invariant, lock discipline, counter accounting and absence of lost wake-ups.
THEOREM Inductive == Spec => []IInv
<1>1. Init => IInv
  BY InitInv
<1>2. IInv /\ [Next]_vars => IInv'
  BY TypeStep, LockStep, CountStep, WakeupStep DEF IInv
<1> QED BY <1>1, <1>2, PTL DEF Spec

\* TypeOK, with the capacity of the deque, always holds.
THEOREM TypeCorrect == Spec => []TypeOK
<1>1. IInv => TypeOK
  BY DEF IInv
<1> QED BY <1>1, Inductive, PTL

\* Only the thread that holds the spin lock is between its lock and unlock, on
\* every path: waits, timeouts and exceptions included.
THEOREM LockHeld == Spec => []LockDiscipline
<1>1. IInv => LockDiscipline
  BY DEF IInv
<1> QED BY <1>1, Inductive, PTL

\* The wait counters never drift from the number of waiting threads.
THEOREM CountersExact == Spec => []WaitersCounted
<1>1. IInv => WaitersCounted
  BY DEF IInv
<1> QED BY <1>1, Inductive, PTL

\* TryPush and TryPop never leave a thread asleep with nobody to wake it.
THEOREM WakeupsNotLost == Spec => []NoLostWakeup
<1>1. IInv => NoLostWakeup
  BY DEF IInv
<1> QED BY <1>1, Inductive, PTL

-----------------------------------------------------------------------------
Stages == [t \in Threads |-> Stage(pc[t])]

\* A step that moves one thread changes the stage of that thread only.
LEMMA StageMoves ==
  ASSUME TypeOK, NEW t \in Threads, NEW l \in PCs, Goto(t, l)
  PROVE  /\ Stages' = [Stages EXCEPT ![t] = Stage(l)]
         /\ Stages[t] = Stage(pc[t])
         /\ Stage(l) = Stage(pc[t]) => UNCHANGED Stages
<1>1. \A u \in Threads : pc'[u] = IF u = t THEN l ELSE pc[u]
  BY DEF Goto, TypeOK
<1>2. Stages' = [u \in Threads |-> Stage(pc'[u])]
  BY DEF Stages, Stage
<1> HIDE DEF Stage
<1> QED BY <1>1, <1>2 DEF Stages

\* Only a call with a finite timeout can measure a delay beyond it.
OnlyTimedExpire == \A t \in Threads : clock[t] = "over" => timed[t]

\* Only a call with a finite delay can run out of time.
LEMMA ClockStep == TypeOK /\ OnlyTimedExpire /\ [Next]_vars => OnlyTimedExpire'
<1> SUFFICES ASSUME TypeOK, OnlyTimedExpire, [Next]_vars PROVE OnlyTimedExpire'
  OBVIOUS
<1> USE DEF TypeOK, OnlyTimedExpire
<1>1. ASSUME NEW t \in Threads, NEW limit \in BOOLEAN, Call(t, limit)
      PROVE  OnlyTimedExpire'
  BY <1>1 DEF Call
<1>2. ASSUME NEW t \in Threads, Tick(t) PROVE OnlyTimedExpire'
  BY <1>2 DEF Tick
<1>3. ASSUME UNCHANGED <<clock, timed>> PROVE OnlyTimedExpire'
  BY <1>3
<1>4. UNCHANGED vars => UNCHANGED <<clock, timed>>
  BY DEF vars
<1>5. ASSUME NEW t \in Threads,
             Acquire(t) \/ Internal(t) \/ Wake(t) \/ TimeOut(t) \/ Interrupt(t)
      PROVE  UNCHANGED <<clock, timed>>
  BY <1>5 DEF Acquire, Internal, Push, Pop, Post, Signal, Spin, Sleep, Expire, Fail,
              Wake, TimeOut, Interrupt
<1> QED BY <1>1, <1>2, <1>3, <1>4, <1>5 DEF Next

\* Every step of SharedQueue is a step of BoundedQueue or leaves its state alone.
LEMMA RefineStep ==
  TypeOK /\ OnlyTimedExpire /\ [Next]_vars => [Abstract!Next]_(Abstract!vars)
<1> SUFFICES ASSUME TypeOK, OnlyTimedExpire, [Next]_vars
             PROVE  Abstract!Next \/ UNCHANGED Abstract!vars
  OBVIOUS
<1>0. /\ Abstract!Threads = Threads
      /\ UNCHANGED Abstract!vars <=>
           UNCHANGED <<queue, Stages, timed, calls, delivered, refused>>
      /\ \A t : Abstract!Ready(t) <=> Ready(t)
      /\ \A t : Abstract!Value(t) = Value(t)
      /\ Producers \subseteq Threads /\ Consumers \subseteq Threads
  BY DEF Abstract!Threads, Abstract!vars, Abstract!Ready, Abstract!Value,
         Threads, Ready, Value, Stages
<1>1. ASSUME NEW t \in Threads, NEW l \in PCs, Goto(t, l), Stage(l) = Stage(pc[t]),
             UNCHANGED <<queue, timed, calls, delivered, refused>>
      PROVE  UNCHANGED Abstract!vars
  BY <1>0, <1>1, StageMoves
<1>2. ASSUME NEW t \in Threads, NEW limit \in BOOLEAN, Call(t, limit) PROVE Abstract!Next
  <2>1. Stages[t] = "idle" /\ Stages' = [Stages EXCEPT ![t] = "waiting"]
    BY <1>2, StageMoves DEF Call, Stage, PCs
  <2>2. Abstract!Call(t, limit)
    BY <1>2, <2>1 DEF Call, Abstract!Call, Abstract!Goto, Stages
  <2> QED BY <1>0, <2>2 DEF Abstract!Next
<1>3. ASSUME NEW t \in Threads, Acquire(t) PROVE UNCHANGED Abstract!vars
  <2>1. PICK l \in {"check", "fail"} : Goto(t, l) /\ Stage(l) = Stage(pc[t])
    BY <1>3 DEF Acquire, TakeLock, LowerCounter, Stage
  <2>2. UNCHANGED <<queue, timed, calls, delivered, refused>>
    BY <1>3 DEF Acquire, TakeLock, LowerCounter, histories
  <2> QED BY <1>1, <2>1, <2>2 DEF PCs
<1>4. ASSUME NEW p \in Producers, Push(p) PROVE Abstract!Next
  <2>1. Stages[p] = "waiting" /\ Stages' = [Stages EXCEPT ![p] = "done"]
    BY <1>0, <1>4, StageMoves DEF Push, Stage, PCs
  <2>2. Abstract!Push(p)
    BY <1>0, <1>4, <2>1 DEF Push, histories, Abstract!Push, Abstract!Goto, Stages
  <2> QED BY <2>2 DEF Abstract!Next
<1>5. ASSUME NEW c \in Consumers, Pop(c) PROVE Abstract!Next
  <2>1. Stages[c] = "waiting" /\ Stages' = [Stages EXCEPT ![c] = "done"]
    BY <1>0, <1>5, StageMoves DEF Pop, Stage, PCs
  <2>2. Abstract!Pop(c)
    BY <1>0, <1>5, <2>1 DEF Pop, Abstract!Pop, Abstract!Goto, Stages
  <2> QED BY <2>2 DEF Abstract!Next
<1>6. ASSUME NEW t \in Threads, Post(t) \/ Fail(t) PROVE Abstract!Next
  <2>1. /\ Stages[t] \in {"done", "refused"}
        /\ Stages' = [Stages EXCEPT ![t] = "idle"]
    BY <1>6, StageMoves DEF Post, Signal, Fail, Stage, PCs
  <2>2. Abstract!Return(t)
    BY <1>6, <2>1 DEF Post, Signal, Fail, histories, Abstract!Return, Abstract!Goto, Stages
  <2> QED BY <1>0, <2>2 DEF Abstract!Next
<1>7. ASSUME NEW t \in Threads, Spin(t) \/ Sleep(t) \/ Wake(t) \/ TimeOut(t)
      PROVE  UNCHANGED Abstract!vars
  <2>1. PICK l \in {"spin", "sleep", "woken"} : Goto(t, l) /\ Stage(l) = Stage(pc[t])
    BY <1>7 DEF Spin, Sleep, Wake, TimeOut, Stage
  <2>2. UNCHANGED <<queue, timed, calls, delivered, refused>>
    BY <1>7 DEF Spin, Sleep, Wake, TimeOut, histories
  <2> QED BY <1>1, <2>1, <2>2 DEF PCs
\* A timeout has just been measured on a queue that is not ready.
<1>8. ASSUME NEW t \in Threads, Expire(t) \/ Interrupt(t)
      PROVE  Abstract!Next
  <2>0. clock[t] = "over" => timed[t]
    BY DEF OnlyTimedExpire
  <2>1. /\ Stages[t] = "waiting"
        /\ Stages' = [Stages EXCEPT ![t] = "refused"]
    BY <1>8, StageMoves DEF Expire, Interrupt, Stage, PCs
  <2>2. Abstract!Refuse(t)
    BY <1>0, <1>8, <2>0, <2>1 DEF Expire, Interrupt, Refusing, Abstract!Refuse, Abstract!Goto, Stages
  <2> QED BY <1>0, <2>2 DEF Abstract!Next
<1>9. ASSUME UNCHANGED <<queue, pc, timed, calls, delivered, refused>>
      PROVE  UNCHANGED Abstract!vars
  BY <1>0, <1>9 DEF Stages
<1>10. /\ UNCHANGED vars => UNCHANGED <<queue, pc, timed, calls, delivered, refused>>
       /\ \A t \in Threads :
            Tick(t) => UNCHANGED <<queue, pc, timed, calls, delivered, refused>>
  BY DEF vars, Tick, histories
<1> QED BY <1>2, <1>3, <1>4, <1>5, <1>6, <1>7, <1>8, <1>9, <1>10 DEF Next, Internal

\* The initial states map to initial states.
LEMMA RefineInit == Init => Abstract!Init /\ OnlyTimedExpire
BY DEF Init, Abstract!Init, Abstract!Threads, Threads, Stage, OnlyTimedExpire

\* The spin lock, the wait counters and the semaphores implement the FIFO with
\* bounded capacity that shared_queue.h announces, timeouts included.
THEOREM Refinement == Spec => ImplementsBoundedQueue
<1>1. TypeOK /\ OnlyTimedExpire /\ [Next]_vars => OnlyTimedExpire'
  BY ClockStep
<1> QED BY <1>1, TypeCorrect, RefineInit, RefineStep, PTL
        DEF Spec, ImplementsBoundedQueue, Abstract!Spec
=============================================================================
