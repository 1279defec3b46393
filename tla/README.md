# TLA+ verification of funner's threads, queues and timers

funner is a C++ engine for games: libraries for system services, rendering,
media, networking, scene graph and scripting, and a launcher that puts them
together. This project models the part of it where most of what can go wrong
depends on timing or on the order of events: the queues through which threads
talk to each other, the background threads, the main loop, the timers, the
render thread, and the protocol that keeps the render server's copies of
property maps up to date. TLC checks the models on small instances; TLAPS
proves every safety invariant, every safety property of steps and both
refinements that the passing runs check, for any number of threads, actions,
timers and maps and any capacity.

All paths below are relative to `src/components/`.

## 1. Inventory

| component | state | operations | interacts with |
|---|---|---|---|
| `SharedQueue` (`system/include/syslib/detail/shared_queue.inl`) | a deque, a spin lock, two wait counters, two semaphores | Push, Pop, TryPush, TryPop, both with timeouts | the render thread takes its commands from it |
| `ActionQueue`, `Action` (`common/sources/utils/utils_action_queue.cpp`) | the lists of the main thread, of the background threads and of each thread, with their counters; two flags and a mutex per action | PushAction, PopAction, Perform, Cancel, Wait, CleanupCurrentThread | everybody pushes; the main loop, the pool and `Wait` pop |
| `ThreadPool` (`system/sources/wrappers/sys_thread_pool.cpp`) | number of threads, a mutex | a listener of PushAction, the loop of a worker | listens to ActionQueue inside its mutex |
| `MessageQueue` (`system/sources/platform/message_queue/sys_message_queue.cpp`) | messages, registered handlers, a flag, mutex and condition variable | PushMessage, PushEmptyMessage, DispatchFirstMessage, WaitMessage | windows, timers and the delegate push, the main thread waits |
| `Application` and its delegate (`system/sources/wrappers/sys_application.cpp`, `system/sources/platform/message_queue/sys_application_delegate.cpp`) | the current delegate, the exit flag, the delegate's `idle_enabled` and `is_exited` | Run, Exit, OnIdle, UpdateIdleState | drives MessageQueue, performs the main thread's actions, listens to ActionQueue |
| `TimerManager` (`system/sources/platform/unistd/unistd_timer_manager.cpp`) | the vector of timers, a thread, mutex and condition variable | CreateTimer, KillTimer, the timer thread, DispatchTimer, shutdown | posts to MessageQueue, its handlers run in the main loop |
| `AsyncResult` (`common/sources/utils/utils_async.cpp`) | result, completion flag, callback, action | construction, Perform on a worker, WaitCompleted, Result | an action of the background queue |
| `Singleton` (`common/sources/utils/utils_singleton.cpp`) | an instance and a lock per type, one service list | Init, Destroy, DestroyAll at exit | every component above is reached through one |
| threads and timers of `syslib` (`sys_thread.cpp`, `sys_timer.cpp`) | a handle and its state | start, join; pause, period | the pool, the timer manager |
| render thread (`render/scene_render/interchange/sources/render_interchange_render_thread.cpp`, `render_interchange_command_queue.cpp`) | the command queue, the thread, proxies with reference counts, a stop flag | ProcessCommands of a proxy, WaitQueuedCommands, CreateConnectionFromThread, Run, stop and join | SharedQueue; connections made on the thread, a listener |
| property synchronizer (`render_interchange_property_synchronizer.cpp`, `render_interchange_property_map_auto_writer.cpp`, same directory) | at the writer: descriptors of maps and layouts with hashes, the update list, two removal lists; at the reader: descriptors and copies | SetProperty and the other changes of a map (events), Write, Read | `common::PropertyMap` tells it of changes and deaths; commands go through the interchange |
| command buffers and in-process exchange (same directory) | buffers, a pool behind a mutex, registered endpoints | send, process, reserve, return | carry the commands of the two above |
| resource management (`media/rms/sources`) | bindings, groups, servers with reference counts | prefetch, load, unload | servers of textures, sounds and so on |
| URL connections (`network/sources/wrappers`) | buffers between a connection's thread and its reader | send, receive, close | stream managers |
| sound manager, scene graph, input translation, players, subsystems, loaders | trees, registries and channels of one thread | | |

Hard behaviours. *Locks*: the action queue's mutex, the mutex of each action,
the pool's mutex and the application's are nested in several orders.
*Unsynchronised state*: `idle_enabled`, `current_delegate` and
`threads_count` are read in one critical section and used after it.
*Wake-ups*: semaphores posted only when a counter says that somebody waits,
condition variables notified only for the first message or after the mutex was
released. *Time*: timeouts race with pushes, timers with messages about timers
that no longer exist, the self-destruction of idle threads with new work.
*Exceptions*: a semaphore that is interrupted, handlers that throw, a command
that cannot be written. *Names*: maps, layouts and timers are known by address,
and an address outlives its object.

What makes the components correct: nothing put into a queue is lost, doubled
or started after its cancellation; whoever sleeps is woken when there is
something to do; counters kept apart from what they count never drift; no two
threads wait for each other; a handler that was destroyed is never called;
threads end when they are told to; a wait that succeeds means that the work is
done; a copy becomes equal to its original once nothing is on its way. `PROJECT.json` lists the hazards with their
lines and the properties that cover them.

## 2. Modules

`BoundedQueue` is what `shared_queue.h` promises: a FIFO with a capacity, whose
calls wait, give up after a timeout, or are interrupted by an exception. A
call is Call, then Push, Pop or Refuse, then Return. Values are pairs of a
producer and a number. `delivered` and `refused` are histories.

`SharedQueue` is the code. One thread at a time is inside the spin lock
(`holder`); `pc` follows a call through TryPush or TryPop: `check` (the test
of WaitUnderflow or WaitOverflow), `sleep` or a spin wait in WaitChanges,
`woken`, `interrupted` (the catch clause), `expired`, `post` (the semaphore
posts), `fail`. Each side (producers, consumers) has its condition `Cond`, a
semaphore and a counter. Time is the phase of a call in `clock`: before
`loop_timeout`, after it, after the caller's timeout. `Abstract` maps the
labels to the stages of `BoundedQueue`.

`ActionQueue` models all queues of the singleton: the shared ones and one of
each thread (`queue`, `actions_count`; `thread_queues` are those that exist),
under one recursive mutex, `qlock`. `Target` says where each action of a run is
pushed. PopAction is taken apart at each action of the list it locks (`from`
and `pos` are its cursor). Perform is taken apart at its test of the flags, made
under the action's mutex (`Perform`), the call of the handler, made without it
(`CallHandler`), and the handler's end: a Cancel may come between any two. The
mutex of an action is `holder`, as only Wait keeps it for long. A handler may
throw, cancel, push, and last as long as it likes. A thread inside Wait
pops what DefaultWaitHandler pops: the queue *of the kind* of its action, that
is, its own queue if the action is in that of another thread.

`ThreadPool` extends it: workers are created by the listener inside the
queue's mutex and end themselves under the pool's own (`plock`). The steps of
BackgroundThread::Run between the locks are separate actions: a pass over the
worker's own queue, as many pops as it had actions when the pass began (`left`),
one pop of the background queue, then the decision to sleep or to end, and the
cleaning of the worker's queue, which may throw. A worker's name may be used by
a later one, as the ids of threads are.

`MessageQueue` is an open module: every member function of the class is one
critical section, hence one operator. A thread inside `condition.Wait` is in
`asleep`; it may be woken without a reason.

`ApplicationLoop` extends it with Application::Run for a number of runs, the
delegate's loop, OnIdle, and threads that post messages, push actions and call
Exit. IsIdleEnabled, the assignment of `idle_enabled` and PushEmptyMessage
are separate steps, because no lock covers the three. Actions are counted
only; a handler may do nothing, post, push, exit, or destroy a window, and a
message handler may throw, which ends the loop.

`TimerManager` extends MessageQueue with the timer thread, the main loop as
far as it concerns timers, and threads that create and kill timers. Timers
have addresses, as the allocator gives them out: a dead timer's address may
be used again. `due` is what the clock has reached. Without timers the delay
of TryWait is four fifths of the largest unsigned number of milliseconds,
some forty days, which the model takes as no time limit.

`RenderThread` extends BoundedQueue: the thread is its only consumer, the
clients its producers. An item is commands of a proxy, the creator of a
connection, or a waiter whose semaphore its destructor posts: on the thread after
ProcessCommands, in a client whose push failed, or with the queue. `use_count`
follows the references to connections through proxies, commands, creators and
the thread. Calls of Push and Pop are those of BoundedQueue, of which the run
`SharedQueue` shows that the code implements it. A connection has the name of
the item that asked for it. Command buffers, their pool, the listener and
ProcessThreadMessages change none of this state and are left out.

`PropertyReplica` is what `property_synchronizer.h` promises: whole states of
maps travel, the reader's copies only take states the map had, in order, and a
copy is removed before a new map with its identifier is sent; what is sent besides
is about no map. Some states a copy cannot take (`Blank` names them): of these it
shows a part, and where there was no copy there may be none (`Taken`).
`PropertySync` is the code on both sides. A map has a layout, shared or not, and
data; a layout is its `Shape`, and hashes are the contents they stand for (no collisions). The
descriptors of layouts are counted references in the code and are collected
here when nothing refers to them (`Collect`). `first`, `last` and `next` are the
update list as AddToList leaves it, dirty flags included. Write is taken apart
at each command, since a command may fail (`WriteFails`: BeginCommand throws,
or what follows WriteLayout does, when the layout is noted as sent and the
stream goes back to where it was); the reader lags behind by up to `MaxStream`
commands. Two variables are histories: `mistaken` holds the layouts that came to
an address whose dead layout a descriptor still named, and those noted as sent
that were not; `misread` holds the maps whose last update the reader read with no
layout, or with another than it was written with.

`Sparse` are data that index a string beyond the number of string properties.
RemoveProperty makes them: where it takes out one of several string properties it
keeps the string and does not renumber the others; SetProperty leaves the numbers
as they are, Reset numbers anew. The reader has one string for each string
property. SetBufferData refuses such data (`Decode`), and the catch clause of Read
leaves the copy with the layout it has just taken and its strings reset, shown as
the value `None`; a copy that was not there before is not entered (`Entered`).
`Abstract` maps the detailed state to PropertyReplica.

`MCTimerManager` says how often each timer may be due, `MCActionQueue` and
`MCThreadPool` what is pushed where, `MCPropertySync` what is symmetric.
Theorems are in modules of their own: `SharedQueueProofs`; `ThreadPoolProofs`,
the action queue's first and then the pool's; `RenderThreadProofs`, the bounded
queue's promise and then waiting for the render thread; `ConnectionProofs`, which
extends it with the use counts; `PropertySyncProofs`; `ApplicationLoopProofs`; and
`TimerManagerProofs`. `SequenceFacts` has the lemmas on sequences that more than
one of them cites.

Operators marked `(fault)` are not part of the specifications: each is a way
the definition below it could have been written wrong, and shows that a
property can tell the difference.

## 3. Runs

| run | instance | shows |
|---|---|---|
| `SharedQueue` | 2 producers, 1 consumer, capacity 1, 1 push each, spin waits and interrupts | lock discipline, exact counters, no lost wake-up; the code implements the promise; sleepers are served, timed calls return |
| `RenderThread` | 2 clients, one with time limits and up to 4 calls, one that waits once without; capacity 2, interrupts | the queue's order and truthful results; a wait that succeeds means done; connections are neither lost nor released early; waits and joins end |
| `PropertySync` | 3 maps, 2 layouts, 2 shapes, 3 values of which one is sparse, 4 changes, a reader up to 2 commands behind, 1 failing command | copies end equal, or without what the reader refuses, layouts do not leak, the reader is never asked for what it lacks, what the update list may lose; the protocol implements `PropertyReplica` |
| `ActionQueue` | 2 threads that may both wait, a shared queue and their own, 3 actions, one periodic | count, at most one start, nothing lost, each action in its thread, a canceled action is started only by a thread that had passed the test of the flags |
| `ActionQueue_wait` | 2 threads, 1 action | **violated**: see findings |
| `ThreadPool` | 1 client, 1 worker that ends and comes back, 3 actions: one in the background queue, in the worker's own queue another and a periodic one that may always be due | threads are counted exactly, the pool serves both queues and starves no action |
| `ThreadPool_locks`, `ThreadPool_stranded` | 1 client, 2 workers, 2 actions | **violated**: see findings |
| `ApplicationLoop` | 2 other threads, 1 window, 2 runs, 1 post, 2 pushes | no sleep on messages, no dead handler called, Exit neither lost nor without effect, a loop without work sleeps |
| `ApplicationLoop_idle` | 1 other thread, 1 run, 1 push | **violated**: see findings |
| `TimerManager` | 1 other thread, 2 timers, 2 addresses, 1 and 2 firings | killed timers stay silent, ticks are exact, timers go off, shutdown ends |
| `TimerManager_reuse` | 2 timers, 1 address | **violated**: see findings |

Bounds. `MaxCalls`, `MaxPosts`, `MaxPushes`, `MaxRaises` and `MaxRuns` of
ApplicationLoop end the behaviours; `MaxRuns` of ActionQueue only ends the
counting. Capacity 1 with three threads is where two sleepers compete for
one place and a token may go to the wrong one; two runs of the loop are what
it takes for a stale exit message; two timers in the vector, one of them
killed while its message is queued, are what the search by address is for.
`PoolServes` is about threads that do not end themselves; what happens when one
does is the subject of `ThreadPool_stranded`. The limit `NewThread` is 1 instead
of 5, so that two waiting actions let a second worker appear; the run for
liveness has place for one only, to have room for a queue of its own. That two
workers serve the queue together is therefore not checked: with two, the temporal
check takes more than the five minutes a run is given. That the counter is right for
any number of workers is proved.

Three maps are what it takes to overflow the update list, two layouts for a
map to move between while another keeps the first; two commands are a removal and
an update on their way at once. The run has 2.5 million states, for two minutes; with
three commands it has 3.2 million and the same properties hold, as is proved for any
number. The symmetry of `PropertySync` is sound
for its properties, all of which are about safety and treat maps, layouts and
contents alike, but for the sparse value, which is interchanged with no other.

A client of the render thread needs three calls to create a connection and
wait for it (creator, waiter, a command through the new proxy) and a fourth to
meet a full queue; the second client is there to be overtaken and to hold the
last reference.

Deadlock checking is off where a run may stop: all bounds used up and
everybody asleep, or a cycle of waits that another run reports.

Fairness. Threads inside a function go on (weak fairness); nobody is obliged
to call one. Taking a contended lock has strong fairness, that is, a thread
that tries again and again gets it in the end: neither the spin lock nor a
pthread mutex promises this to a particular thread, but starving for ever
needs an opponent who takes the lock at every attempt, while the opponents
here release it and sleep or leave. Time passes (weak fairness of Tick and
TimeOut), and a worker that polls the queue does so for ever, as its loop says.
Handlers of actions return, or `PoolServes` would claim nothing could block a
worker. In RenderSpec the thread takes commands for ever (its loop ends only
with `stop_request`, which it looks at ten times a second), a push into
the queue gets its turn (strong fairness: the room it needs comes and goes), and
a client that was woken goes on. A client that made a creator item goes on to
wait for it, as CreateConnectionFromThread does; no other call is owed.
An unlimited sleep on a semaphore or a condition is never assumed to end by
itself.

## 4. Proofs

The constants are arbitrary: any finite sets of producers and consumers, any
capacity, any bound on calls. `QueueAssumption` and its like in the modules
state what the code takes for granted, and TLC evaluates them.

*The promise.* `Fifo` and `ResultIsTrue` speak about the history
`delivered \o queue`. They are not inductive alone: that a pushed value is new
follows only if no value in the history, or refused, has a number beyond the
producer's calls. `Numbered` says so. The lemmas on Append and on moving the
border between the two halves reduce each step to facts about indices.

*The code.* `TypeOK` needs `WaitersCounted` (the counter that is lowered is not
zero, because the thread that lowers it is counted), which needs
`LockDiscipline` (only the thread inside the lock moves). `NoLostWakeup` is an
inequality between what is available and tokens, threads on their way and
threads about to post; it needs all three, and lemma `Moves` accounts for what
one thread's step does to a cardinality. A push posts only if the counter is
not zero: `SleeperIsCounted` shows that it cannot be zero while somebody
sleeps. `Refinement` uses the same invariant: every step is a step of
BoundedQueue under the mapping, or changes nothing it sees. One fact had to
be added, `OnlyTimedExpire`.

*The action queue.* (Any threads, queues, actions and targets.) `AtMostOnce` and `NothingLost` follow where an action is.
`Placed` says that an action is in no list but that of its target, `Distinct`
that this list holds it once, so that `RemoveAt` takes it out for good (lemma
`RemoveAtRange`); `Inside` that only the owner of the mutex is in PopAction, on a
queue it may pop; `Hands` that exactly the threads which
perform have an action; `Once` that an action without a period is listed only
before it is popped, popped only by one thread, and started only from there;
`RunsCounted` that whatever runs or is completed was started, so that PopAction drops
nothing live. `OnlyTheAdmittedStart` takes the steps one by one: nobody passes
the test for a canceled action, and only a thread that passed it, with this action in
its hand, calls the handler. `CountExact` is what keeps the counter, lowered in two
places, from passing below zero. Operations that touch neither list nor history
are treated together (`Quiet`). All safety properties the run `ActionQueue`
checks are proved; `NoCircularWait` is false, and the proof does not need it.

*The pool.* `QueueInPool`: every step of the pool is a step of ActionQueue or
leaves it alone, so all of the above holds inside the pool. `ThreadsAreCounted`
says that `threads_count` is the cardinality of the set of live workers; a step
changes that set by at most one element (`AliveMoves`, `Counted`). A worker that
ends must not take an action with it: `OnlyInLoop` says that only a worker
that performs is inside the queue or has an action, and its proof uses the
queue's `Hands`. (The deadlock and the stranded action are no contradiction: the
counter is exact, it counts threads that no longer work.)

*The render thread.* `QueueInRender`: the thread and its clients only call the
queue. `WaitIsReliable` rests on the history of the queue: the thread has
processed what it took but for the item in its hand, in that order
(`InOrder`), a waiter is posted behind what was pushed before it or after its
push failed, which left nothing in the queue (`PushedBefore`, `InStep`), or with
the destruction of the queue, when nobody has the thread any more (`Owned`);
and a creator that somebody waits for is the item before the waiter (`Awaited`).
It assumes one consumer, and finitely many producers only for
the use counts.

*Connections.* `CountsAreRight` compares `use_count` with a sum of cardinalities
of sets that every action may change. What items exist is said again in terms
that steps change one at a time (`ExistingIs`): what was pushed and not yet
released, and what a client in a call has in its hand. Each action then makes or
ends the items it names and no others (`ExistingCall` to `ExistingJoined`), and
changes the count by the references that came or went with them (`CountCall` to
`CountReleased`). `References` is the strengthening: whoever refers to a
connection refers to one whose creator the thread has processed, so a connection
starts with the count of nobody. A count lowered is not zero, since the one who
lowers it is counted: that no count passes below zero is proved together with the
equation, and is the part of `RenderTypesCorrect` that is not obvious.

*The property synchronizer.* The constants are any finite sets of maps, layouts
and descriptors, any shapes and values, and any lag; `SyncAssumption` asks for one
descriptor for each map and layout, which an allocator that does not fail has, and
for a `None` that is no object, nor the state of a copy whose strings were reset.
The invariant `IInv` has these parts:

- `Types`: the tables of both sides, and that a descriptor is there exactly while
  the table of layouts or a map refers to it, with the identifier of its layout.
- `ListShape`: the update list is empty, one map, or two, `next` of the second is
  nobody, and, while Write runs, what is dirty in it is what Write has before it.
  `NothingElseIsLost` (only the second of three maps, or a failure, loses an
  update) follows from it step by step.
- `Removals`: a map or layout the reader is to be told of is forgotten by the
  writer; removals are written before updates, so none is left when these begin.
- `Current`: a live map that is neither dirty nor failed was sent as it is.
- `Caring`: behind every update that brings a layout, and behind what the reader
  has, the end of that layout is tracked, listed or on its way (`LayoutsEnd`).
- `Copies`: the last command about a map says what the writer remembers of it, and
  if there is none, the copy shows that state (`Shows`), as far as it can take it.
  What reading an update with its layout makes of a copy is lemma `CopyTaken`. With
  `Current` this is `MirrorIsTrue`.
- `Promises`: while no layout was taken for another, `Understood`. An update
  without layout finds, when its turn comes, the layout it was written for.

The last is the hard one. It speaks of the reader as it *will be* behind the first
n commands: `Has(l, s, n)`, that it will have layout l with shape s; `Fresh(m, l, n)`,
that the copy of m will not be of a layout that died and had the address of l.
Reading a command turns n into n - 1 (`HasTaken`, `FreshTaken`), writing one
leaves the promises before it alone (`HasEmitted`, `FreshEmitted`), and the writer's own
table is a promise about the whole stream, which is what an update it writes
without layout relies on (`UnderstoodTold`). That the first command finds what was
promised gives `Understands`. All parts but the last hold after a layout was
mistaken too; so do `Mirror` and `NoLayoutLeaks` in the form they have.
`Implements` uses the same invariant: `StepsImplement` takes the steps one by one,
the command read being the state the source had when it was written, or its `Blank`.

Two things changed in the model for the proof, both to say more. `Mirror`
excepted every map whose layout was in `mistaken`; now it excepts only maps whose last
update was read without its layout. The abstract channel left out the commands about
layouts, by a filter (a recursive operator the provers cannot use); now it carries them as
messages about no map. `NewDesc` chooses any free descriptor, not the least.

*The main loop.* `NoSleepOnMessages` is inductive with the types: the first
message wakes, and while there is one nobody goes to sleep. `HandlerAlive` and
`ExitNotLost` need `Loops`: the delegate of a running loop is registered and is
the one Exit finds. `ExitSent` is `ExitNotLost` made inductive: it holds also
while the main thread has the lock to begin its loop, and the message in hand
counts only while it is being handled. What an operation of the queue does to
its contents is said once (`Grows`, `PopMessagePops`), and most steps of the main
thread need no more than that (`MainMoves`).

*The timers.* `KillWaitsForHandler` follows from who holds the mutex (`Holders`).
The types contain that the vector is what was created and not killed, each
timer once (`Distinct`), and that no timer is raised more often than it was due:
what a pass has before it is still due (`InPass`), since nobody else has the
mutex. `TicksExact` counts messages (`PlacesAppend`, `PlacesTail` of
`SequenceFacts`) and needs that a timer just created, if no other has its
address, has no messages: they name timers that were created (`Births`). That
is false of a reused address, which is what `TimerManager_reuse` shows.

*Only model-checked.* The liveness properties, which need fairness and ENABLED, out
of the prover's reach: `SleeperServed`, `TimedCallReturns`, `WaitReturns`, `JoinEnds`,
`PoolServes`, `ExitEndsLoop`, `GoesToSleep`, `TimersGoOff` and `Closes`. No safety
property of a passing run is left without a theorem.

## 5. Findings

Each is a counterexample of a run marked violated; `PROJECT.json` has the lines.

1. *Waiting for an action* (`ActionQueue_wait`). Action::Wait holds the action's
   mutex while it pops other actions, which takes the queue's; PopAction takes
   them in the other order, and Perform needs the action's mutex to finish.
2. *Opposite lock orders* (`ThreadPool_locks`) of a push and an ending worker.
3. *A stranded action* (`ThreadPool_stranded`). A worker that has decided to end
   still counts, so a push at that moment starts no new one.
4. *Asleep with work* (`ApplicationLoop_idle`). The main thread writes an
   `idle_enabled` it computed before another thread's push: this is the
   synchronisation a TODO in OnPushAction asks for. For want of the same lock
   a pushing thread may call a delegate that the end of Run has destroyed; the
   model lets it write the flag of the dead delegate, which nobody reads again.
5. *An early timer* (`TimerManager_reuse`). A new timer that gets the address of
   a killed one is fired by the old one's message.

Disagreements met while modelling that no run of its own shows. Where the model
has them, its properties name exactly the states they reach:

6. *The update list* (`render_interchange_property_map_auto_writer.cpp:130-144`).
   `list.last` is never advanced: the third map changed between two writes takes
   the place of the second, which stays marked dirty and is not sent again. The
   catch clause (263-270) leaves `last` stale too. `LostOnlyByOverflow` says that
   this, and a failed write, are the only ways to lose an update.
7. *Reused addresses of layouts* (`render_interchange_property_synchronizer.cpp:212`,
   `:128`, `:527`). The descriptor of a dead layout is taken for a new one at its
   address: that one is not tracked, is not sent for a second map, and stays at
   the reader. `Mirror`, `NeverRefused`, `NoLayoutLeaks` and `ImplementsReplica`
   except what comes of `mistaken` and nothing else: `Mirror`, once there is such a
   layout, the maps whose last update was read without its layout because of it,
   `NoLayoutLeaks` these layouts, the other two all that follows the first of them.
   A write that fails behind WriteLayout, which a comment calls exception safe
   (`:185`), puts its layout there too: its hash is recorded, so it is not sent
   again, for this map nor for another, while it stays as it is.
8. *A leaked reference* (`render_interchange_render_thread.cpp:371`). AddRef before
   the return of the new connection is never matched: `returned` counts it in
   `ConnectionsCounted`.
9. *A map destroyed while in the update list* leaves a dangling pointer there
   (`render_interchange_property_map_auto_writer.cpp:98`): undefined from then on,
   the model stops short of it (guard of `DestroyMap`).
10. *A cleaned-up worker* (`system/sources/wrappers/sys_thread_pool.cpp:174`). A
    worker whose own queue holds a delayed action cannot clean it: the exception
    ends the thread, and the action waits for a thread with the same id.
    `PoolServes` excepts it.
11. *The main thread's actions* (`common/include/common/action_queue.h:20` says they
    are performed by the main thread). DefaultWaitHandler lets any thread that
    waits for one pop and perform others; `InItsThread` is therefore about the
    threads' own queues only.
12. *Strings that are not renumbered* (`common/sources/properties/property_map.cpp:941-968`).
    RemoveProperty looks at the strings of the other properties through `desc.offset`,
    the offset of the property it removes, instead of theirs: it finds every one
    equal to its own, so the string stays and the others keep their numbers. The reader
    of the synchronizer, with one string for each string property, refuses every
    update with a number that is too large (`:1931`), after it took the new
    layout; an exception is all the application sees. Until the strings are
    numbered anew the copy has the layout of the map, empty strings and values that
    are old or the default, or is not there at all. `Mirror` and `ImplementsReplica`
    say exactly that (`Shows`, `Blank`).
13. *A late start of a canceled action* (`common/sources/utils/utils_action_queue.cpp:691-693`).
    Perform tests the flags under the action's mutex and calls the handler after it
    let go of it: a Cancel may return in between, and the handler starts then.
    `action_queue.h` promises nothing else; who relies on it must know. The threads
    that may still do so are those that `OnlyAdmittedStart` names.

Not in a model, seen in the source: Flush of a command buffer whose connection
throws swaps the buffer back and resets its position, which drops pending
commands; `render_interchange_render_thread.cpp:132` keeps a raw listener that may
be destroyed before the thread; ~Impl of the render thread would join itself if
the last reference were dropped on it; the copy constructor of a command buffer
pool's handle (`render_interchange_command_buffer_pool.cpp:62`) lacks an addref; and
AsyncResult (`common/sources/utils/utils_async.cpp`) races its constructor's
assignment of `action` (137) with Perform (161), holds its lock during a wait
(258) that needs the worker to take it (166), and never completes when the
operation throws.

## 6. Plan

Done so far: the queues and their implementation, the action queue with all
its queues, the pool, the loop, the timers, the render thread over the queue,
the property synchronizer with its abstract specification, and the proofs of
section 4. What is left, in this order:

1. Theorems: that the render thread's clients and loop are a refinement of a
   simple service, which needs that service to be written down; leads-to
   properties stay with TLC.
2. `AsyncResult` over ActionQueue: the constructor that assigns `action` after
   pushing it, and threads that wait or ask for the result.
3. `Singleton`: Init against DestroyAll; then `sys_thread` and `sys_timer`.
4. Resource management, then the URL connection.

## 7. Not modelled

Left out of modelled parts: waits and pops by handlers of actions;
PropertyMap::Clear of a map whose layout others share, which may empty theirs too;
subscribers
of OnIdle (with one the loop never sleeps), suspend and resume;
`need_delete` and `kill_lock` of timers, which only a re-entrant call from the
timer thread could meet; the manual Write of one property map; the destruction
of the shared queue and of the acceptor of the render thread while in use.
Each is named in `PROJECT.json` with its component.

Left out altogether, for now: AsyncResult, Singleton, resource management, the
URL connection, sockets, and the single-threaded managers of sound, scene,
players and subsystems; `PROJECT.json` gives the reason for each.

Not to be modelled: rendering back ends, media formats, platform windows and
vendored libraries (input and output, or generated code: nearly all of the
repository's lines), and single-threaded registries whose operations are one
assignment.
