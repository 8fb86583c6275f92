# Verification of nstd

nstd is a header-only C++ library (`include/*.hpp`, one header per facility).
Most of it is sequential; the part that is hard to get right is the family of
signals and slots (`signal_slot.hpp`) and the classes that run threads of their
own or share state between threads. This directory holds TLA+ modules of those
classes, TLC configurations that check them on small instances, and proofs,
checked by TLAPS, of what matters most about them for every instance.

All paths below are under `src/include/` unless they say otherwise. PROJECT.json
lists components, runs, theorems and hazards, and names for every definition the
lines of code it stands for.

## The system

| Component | State it keeps | Operations | What is hard | What makes it correct |
|---|---|---|---|---|
| `paired_ptr` (signal_slot.hpp) | two objects that point at each other | construct, move, assign, disconnect, destroy | a move swaps four pointers; both ends move independently; who is linked may be linked again | both ends agree as long as nobody is linked twice; a move loses no pair |
| `signal`, `slot`, `connection` (signal_slot.hpp) | a vector of pending slots, a multiset of installed ones, two mutexes, an atomic flag | `emit`, `connect`, `clear`, `set_enabled`, `enable_slot`, `disconnect`, `set_connection_priority` | slots re-enter the signal while it iterates; other threads connect and emit; slots throw; connections outlive slots and slots connections | one call per slot and emission, nobody missed, nobody after disconnection, order of priority, the lock released |
| `throttled_signal` | a queue, its mutex, a dispatcher thread, an atomic flag | `emit` (queues), dispatcher loop, destructor | the hand-over from a dispatcher that ends to the next; destruction at any moment | order, at most once, nothing lost at destruction; `emit` and the destructor return |
| `queued_signal` | the same, but `static`: shared by all signals of a scope | the same | signals die while the shared queue points to them | the same, and no pointer to a dead signal |
| `bridged_signal` | a queue of emissions, which the application delivers when it wants | `emit`, `invoke_next`, `invoke_all`, ... | the queue is looked at without its lock; slots run with the lock | no emission lost, order |
| `timer_signal` | a timer thread, `cancellable_sleep`, a flag | `start_timer`, `stop_timer` | restart before the old thread is over | a started timer ticks |
| `signal_set`, `connection_bag` | maps and lists of the above | lookup, insertion | none beyond the above | - |
| `thread_pool_lite`, `thread_pool`, `thread_safe_queue` (thread_pool.hpp) | a queue of tasks, mutex, condition variable, workers | `enqueue`, the worker loop, destructor | lost notifications, spurious wake-ups, tasks that enqueue, end of the workers | each task once, in order; the lite pool executes all of them; destruction ends |
| `expiry_cache` (expiry_cache.hpp) | a map with times, a mutex, the vacuuming thread | `put`, `get`, `touch`, `set_expiry`, `vacuum`, `clear`, start and stop of the thread | the clock and the thread interleave with users; stop waits for the thread | every value announced once, never early, and in the end |
| `sharp_tcp` | a pool, a self-pipe, `io_service` with tracked sockets, clients and servers | `track`, `untrack`, `poll`, callbacks | sockets untracked during their callbacks; pool resized while it works | an entry is erased by exactly one thread, and not under a callback; a request is answered or dropped; the pool ends |
| `remote_signal_slot` | a `tcp_client`, a parser of messages | emit over TCP | built on sharp_tcp | - |
| `global_named_mutex` | shared memory with a process-shared mutex, a count of users and a semaphore | create or open, lock, try, wait for a time, unlock, leave | two processes race to create; a crash in between | mutual exclusion, one creator |
| `http_resource_manager`, `http_request_parser` | one request at a time | routing, parsing | partial input | - |
| `topological_sorter` | a graph | insertion, `sort` | cycles | every item after what it depends on |
| `live_property` | a value and two signals | assignment with veto | re-entrance | - |
| `relinx` (relinx.hpp) | iterators around iterators, each with members and functors that change as it is advanced | the stages of a query, all lazy but for two that make a container, and the functions that end it | iterators are copied, compared and advanced through several layers; functors with a count in them are copied too | the query yields what its stages mean one after the other |
| `co_relinx` (co_relinx.hpp) | coroutines that resume coroutines | the same stages | a generator can be started only once; what is buffered and what is not | the same |
| `utilities`, text and byte conversions, layouts, terminal, number generators, wrappers of third-party libraries | - | pure or sequential, or calls of the operating system | - | - |

How they interact: `slot` and `connection` are the two ends of a `paired_ptr`;
a `signal` owns slots, and hands out connections. `throttled_signal`,
`queued_signal`, `bridged_signal` and `timer_signal` inherit from `signal`,
queue what is emitted, and call `base_class::emit` from another thread or at
another time. `expiry_cache` announces what expires through a signal, with its
mutex held. `live_property` has signals. `remote_signal_slot` and
`http_resource_manager` sit on `sharp_tcp`; its `io_service` has a thread pool
of its own, not the one of thread_pool.hpp.

Shared state: mutexes (`std::mutex`, none of them recursive), condition
variables, atomics that are written outside the locks
(`_thread_running`, `_enabled`, `_cancel_auto_vacuum`) - and a few plain
pointers and flags that several threads reach with no lock at all
(`connection::disconnect`).

## The modules

| Module | Code | State and actions |
|---|---|---|
| `PairedPtr` | `paired_ptr`, 98-224 | one pointer per address; one action per constructor, assignment and destructor; `LinkedTo`, `Swapped` and `Unlinked` are the bodies of code that write several pointers. `PairSpec` links anything to anything, as the class lets its users do; `CarefulSpec` adds what it leaves to them, `LinksFree`: only an object that is not linked is passed to be linked with |
| `Signal` | `slot_base`, `slot`, `connection`, `signal`, 304-955 | the variables are the members. `emit` is `Emit` (entered), `EmitBegin` (both locks taken, pending slots merged), `Check`, `Invoke`, `Settle` (one element of `std::erase_if`), `EmitEnd` or `SlotThrows`. `disconnect` takes no lock, and is two steps, the read of the pointer and the write through it. A slot that is being called may do everything the code lets it do |
| `AsyncDelivery` | - | what a signal with a dispatcher promises: each emission delivered at most once and in order |
| `ThrottledSignal` | `throttled_signal_base`, 1276-1431 | `Emit`, then `Started` if no dispatcher was announced (the old thread is joined with the lock held); the dispatcher is `LoopTest`, `Take`, `Pop`, `Wake`, `Announce`, `Return`; the destructor is `Destroy`, `Drain`, `Drained`, `RequestStop`, `Destroyed` |
| `QueuedSignal` | `queued_signal_base`, 1462-1659 | the same shape with the static members, two locks, and several signals |
| `TaskPool` | - | what a pool promises: tasks start in order, each on one worker; a pool that does not drop work is not gone before all have finished |
| `ThreadPool` | thread_pool.hpp, 36-303 | `kind` says which of the two pools it is. `LiteFetch`, and `PoolTest`, `WaitPop`, are the sections of the worker loops under the mutex; `condition_variable` is the set of the sleeping workers, notified one (any) or all, and woken spuriously |
| `ExpiryCache` | expiry_cache.hpp | one action per operation, since each holds the mutex throughout, except `stop_auto_vacuum`, which waits inside (`StopAutoVacuum`, `AutoVacuumStopped`); the thread is `VacuumerDue` or `VacuumerTest`, `VacuumerVacuum`, `VacuumerRetest`, `VacuumerWake` |
| `BridgedSignal` | `bridged_signal_base`, 992-1244 | `Emit` and `EmitDirectly`, then `Push` and `AskFunctor` (the emit functor takes the delivery over, or the thread goes on to deliver the next of the queue); `Invoke` enters one of the four functions that empty the queue: `Test` looks at it without the lock, `Lock` again with it, `Call` calls the slots, `Finish` removes; `SlotThrows` |
| `TimerSignal` | `timer_signal_base`, 1699-1888 with `cancellable_sleep` | the owner: `StartTimer`, `SetArgs`, `JoinFormer`, `Spawn`, `StopTimer`, `Stopped`; the timer's thread: `Awake`, `Emitted`, `Leave`, `Return`; `DisableFromSlot` |
| `TimerBridge` | - | the two composed: the timer's slot emits the bridged signal, other threads pump it, and its slots may switch the timer off |
| `IoService` | `io_service` of sharp_tcp.hpp | the table entry of one socket and the polling thread: `Prepare`, `Select`, `ProcessEvents`; `Track`, `Untrack`, `SetCallback`, `EndTask` are the sections its users run under its mutex |
| `TcpClient` | `tcp_client` of sharp_tcp.hpp | a client on that service, the thread of the application and the workers of the pool: `Connect`, `AsyncRequest`, `Disconnect`, and the steps of `disconnect()`, `Check` to `Close`, which any of them may be in; `Fetch`, `Process` and `CalledBack` are one task of the pool, or `CallbackThrows`, after which the pool goes on and the direction stays flagged. `WaitForRemoval` looks for the descriptor the socket has now (`Removed`) |
| `NamedMutex` | global_named_mutex.hpp on Unix | processes, their objects and threads. `Open`, `Publish`, `Enter`, `CountIn`, `SetUp` are `create()`; `Lock`, `Acquire`, `TryFails`, `Look`, `Take`, `Timeout`, `Leave`, `Own` are `lock()` with its three ways to wait; `Unlock`, `Acquire`, `Release` are `unlock()`. The semaphore has a mutex of its own, `inner`, which is held from `Acquire` to `Take`, `Leave`, `Release` or the sleep. `StartUnmap`, `CountOut` are the end of an object; `Crash`, possible between any two of these, leaves what is shared as it is, the two mutexes included |
| `TopologicalSorter` | topological_sorter.hpp | `Add`, `AddDependency`, `ClearGraph`, and `sort()` as `Sort`, `Collect`, `Visit`, `Advance`, `Finish`; the containers are unordered, so each loop takes any element next |
| `Pipelines` | the comments of relinx.hpp | what each stage means on a whole sequence, and each ending: the reference of the two evaluations |
| `Relinx` | relinx.hpp | an adapter is a record; `AtEnd`, `Deref` and `Inc` are its `==`, `*` and `++`, with the copies of iterators and functors that the code makes; `Apply` only names which definition a stage is |
| `CoRelinx` | co_relinx.hpp | a coroutine is a record of its locals; `MoveNext` resumes it to its next `co_yield`. A second container is taken as in the overload that can be used: by lvalue for `except`, `intersect_with`, `join` and `group_join`, by rvalue for `concat`, `mix`, `union_with` and `zip` |
| `Query` | - | chains stages to a source in one of the two libraries, then pulls element by element |
| `MC*` | - | the instances for TLC |
| `*Proofs` | - | the theorems |

`ThrottledSignal` and `QueuedSignal` take the call of the slots as one delivery:
it is the `emit` of `Signal`, which holds a lock of its own, and calls into
functions the model of `Signal` covers.

An operator whose name ends in `Bug` is used by no specification. It is a
mutated form of the definition that follows it, a mistake somebody could make in
that code: put in its place, it makes TLC refute a property, which shows that
the property can fail. PROJECT.json pairs each property with such a form.

## The runs

Passing:

| Run | Instance | What it shows |
|---|---|---|
| `paired_ptr` | 5 addresses: two linked pairs and one to move through; `CarefulSpec` | every sequence of operations in which nobody is linked who is linked already keeps the ends in agreement (`Symmetric`); a move, whatever its two sides are linked to, carries the link along (`MovesKeepLinks`) |
| `signal` | 2 threads, 3 connections, 2 priorities, 2 emissions, 1 setting | `EmissionExact` (each slot called once, nobody missed, nobody late), `NoCallAfterDisconnect`, `PriorityOrder`, `PairsAgree`, and `EveryEmitReturns` |
| `throttled` | 2 emitters, 4 emissions | refinement of `AsyncDelivery` (`DeliversInOrder`), `JoinsFinishedThread`, `DestroyDeliversAll`, and that `emit` and the destructor return (`CallsReturn`) |
| `queued` | 2 threads, 2 signals, 3 emissions of each | `DeliversInOrder` per signal, `NoDanglingSignal`, `DestroyDeliversAll` |
| `thread_pool` | 2 workers, 2 clients, 4 tasks; both classes | refinement of `TaskPool` (`KeepsPromise`), `NoSleepOverWork`, `DestructionEnds`, `EveryTaskRuns` |
| `expiry_cache` | 2 users, 2 keys, 2 puts, 3 ticks; durations negative, 0 (the default one) and 2 | `AnnouncedOnce`, `FlagMeansThread`, `NeverEarly`, `AutoVacuumCollects` |
| `timer_bridge` | the timer's thread and a pump, 2 emissions, 2 starts | `BridgeKeepsPromise`: nothing changes under the thread that calls slots, every emission is queued, delivered or dropped on purpose, once unless a slot throws, and without a functor none is left behind. `ArgsUnshared`: the arguments are not written while the old thread reads them. `TimerStops`: stopping returns, although the thread that is joined may wait for the bridge's lock |
| `tcp_client` | 2 workers, 2 requests, 2 connections | `ServiceKeepsPromise`: a direction has one task at most, and is flagged while it has, `wait_for_removal()` returns when no callback is or will be executing, unless another thread has closed the socket, a connected client is tracked with the callbacks its requests need. `PollerIsTold`: the polling thread does not sleep on outdated sets. `RequestsEnd`: each request is answered or dropped, unless a callback of its direction has thrown (`Stuck`) |
| `named_mutex` | 2 processes, 3 threads, 3 calls, 1 death | `OneHolder` also across the race to create the name and a death anywhere; `CallsReturn` unless the death was of a kind that the code does not provide for (`Fatal`): with a mutex or the token in hand, in the middle of making the segment or of the count, or asleep, where it may be sent the signal |
| `topological_sorter` | 4 objects, any graph on them, any order of iteration | `SortIsTopological` |
| `queries` | every chain of two of 42 stages, with a third of a few, on an empty and a repetitive sequence, in both libraries | `YieldsExpected`: lazy evaluation yields, element by element, what eager evaluation does, and `select_many` is that of the library: relinx maps an element to a container, co_relinx takes elements that are containers and maps what is in them. `EndingsAgree`: so do the functions that end a query |

One run shows a behaviour of the code that contradicts what the repository says
of it:

| Run | Property | What happens |
|---|---|---|
| `expiry_deadlock` | `DestructionEnds` of `ExpiryCache` | `stop_auto_vacuum()` joins the thread with the mutex that thread is waiting for |

The other findings of PROJECT.json that a model can show have their properties
in the modules, and no run of their own: putting the property in place of those
of the run named here shows each.

| Module, run | Property or constant | What happens |
|---|---|---|
| `PairedPtr`, `paired_ptr` with `PairSpec` | `PartnerIsAlive` | an object that is linked already is linked again: its partner is not told, and has a dangling pointer when it dies. The shortest behaviour gives an object its own address |
| `Signal`, `signal` | `PairsAgree` with `Synchronised = FALSE` | `disconnect()` has read the address of the slot; an emission moves the slot; the write goes to the old address, and the slot goes on being called |
| `ThrottledSignal`, `throttled` | `EverythingDelivered` | the dispatcher decides under the lock that it is done and says so after the lock; an emission in between starts no dispatcher and is not delivered |
| `QueuedSignal`, `queued` with `FairSpec` | `EveryEmitReturns` | the second, unlocked store of the ending dispatcher clears the flag of its successor; the next emission joins that successor with the lock it needs |
| `TimerSignal` | `StartTakesEffect` | a cancellation that comes between the flag and the reset of the sleep is forgotten, and one before it makes the start do nothing |
| `TcpClient`, `tcp_client` | `DestroyedIsSilent`, `DisconnectReturns` | the destructor does not wait for a worker that is disconnecting the same client; `disconnect(true)` may not return while callbacks go on asking for more, or when one has thrown |
| `TcpClient`, `tcp_client` | `WaitMeansSilence` without `open` | the wait looks for the descriptor again each time: another thread's `close()` ends it while callbacks are executing |
| `NamedMutex`, `named_mutex` | `OneHolder` with 3 objects | who finds a name that nobody uses any more sets the semaphore up, and unlocks the mutex of the segment, after it has unlocked that mutex once: others may be at the count or inside `lock()` by then, and a second token appears |

For most of these a theorem says that what the row tells is the only thing that goes
wrong, for any number of threads. Its premise is an action formula that excludes the one
step of the row, or a condition on states (`Settled`), and its conclusion is the property, or the part of it that needs no
fairness:

| Finding | Premise | Conclusion |
|---|---|---|
| `ExpiryCache`, `DestructionEnds` | `StopsBetween`: no stop comes between the thread's decision and its lock | `OnlyThisDeadlock`: whoever joins the thread joins one that needs the mutex no more. `TheDeadlockIsFinal`, without a premise: once stuck, for ever |
| `ThrottledSignal`, `EverythingDelivered` | `EmitsOutside`: no emission comes between the last look at the queue and the store | `NothingWaitsUnattended`: what waits in a live signal has a dispatcher |
| `QueuedSignal`, `EveryEmitReturns` | `StartsOutside`: no emission starts a dispatcher between the two stores of the former | `OnlyThisDeadlock` and, without a premise, `TheDeadlockIsFinal` |
| `TcpClient`, `DestroyedIsSilent` and `WaitMeansSilence` | `DestroysAlone`: the destructor finds the client connected and its socket open, or unknown to the service, and no worker closes the socket until it has waited | `DestructorWaitsForAll`: `DestroyedIsSilent` itself, `Careful` or not, whatever callbacks throw |
| `NamedMutex`, `OneHolder` | `Settled`: nobody is at the count of users while another object sets the semaphore up | `HoldersAreOne`: `OneHolder` itself, with any `Reopen` and `Renew`; `NobodyWaitsInVain` |
| `PairedPtr`, `PartnerIsAlive` | `LinksFree`: no object is linked that is linked already, and none with itself | `PairsNeverDangle`, `MovesNeverDisconnect` |

The premises are true of the runs in which nothing goes wrong, and each behaviour of the
finding violates its premise at the step the row names. That the premise is needed is
what the violated property shows; that it suffices is the theorem.

The findings about single statements (a key changed inside a multiset,
`enable_slot()` and pending slots, `where_i()`, `select_i()`, `sequence_equal()`,
`co_distinct()`, `max()` and `to_vector()` of co_relinx, its `select_many()`, and its
overloads that do not compile or keep a reference to what is gone) need no run; `Query` names the chains they
touch (`RelinxDeviates`, `CoRelinxDeviates`, `ReadThrough`), enumerates them, and
claims nothing about what they yield.

### Bounds, and why they are enough

`MaxConnects`, `MaxEmits`, `MaxSettings`, `MaxTasks`, `MaxPuts` and `MaxTime`
bound what would otherwise grow for ever; each is the guard of the action that
counts, and the code has no such guard. Three slots let an emission erase one,
skip to the next, and have one connected while it runs; two emissions let the
second see what the first left; two threads are every pair of operations. Four
emissions of a throttled signal let a dispatcher end, be succeeded by a second,
which is caught ending by the third. Three emissions per queued signal do the
same with two signals. Four tasks on two workers let one sleep, one work, one
task wait and one be enqueued by a task. Three ticks with a duration of two are
before, at and after the moment an entry expires. Two starts of a timer let
the second meet the thread of the first, and two threads on the bridge meet
between the unlocked look at the queue and the lock. Two workers let a read and a
write of one socket fail at the same time, and a second connection meets what the
first has left. Three calls of a named mutex let each of its three threads wait for
another, or one come back to what another holds, inside and outside the section under the mutex of the semaphore. Four objects are the fewest with a cycle, something that hangs on it, and
an object with two dependencies. Each stage of a query meets each other before and
behind it; of the third stages those are kept that stop early, repeat or read
ahead (without co_relinx's own `select_many`, all third stages were checked once on two
non-empty sources: 880 000 states, no error). `MaxYielded` is longer than the longest finite result. What
the theorems below state, they state for all values of the bounds.

`LinksFree` is what the library itself does: `connection` links the end of a slot that
was created a line before, and moves do the rest.

`Synchronised = TRUE` says that the application does not call `disconnect`,
`set_enabled` and `set_connection_priority` of a connection from one thread
while another uses the signal: these functions take no lock.

`Careful = TRUE` says that the application connects a client again only when
nothing is left of the former connection; without it a new descriptor may have the
number of the old one, and the old tasks are taken for its own. `Reopen` says that
a named mutex may be created again after its last user has left, `Renew` that
`create()` may be called on an object its caller has locked; with
both false (`Orderly`) `OneHolder` is proved without more; the run has `Reopen` true and
two objects, with which it still holds; `Reopen` with three breaks it, in the
one way that `HoldersAreOne` leaves. A
bridged signal sees one exception (`SlotThrows`), as a slot that always throws is
never done with. In `Query` a stage without a member function in a library, or with
one that does not compile (`skip_while_i` of co_relinx), is `Missing`, a stage whose elements are containers is
followed by the `select_many` of co_relinx, which has no others (`Fits`), and a cycle
without end is followed by `take`, as its comment demands.

Configurations with `CHECK_DEADLOCK FALSE` are those of systems that may stop:
everybody is idle and the bounds are reached, or the object is destroyed.

### Fairness

Weak fairness of a thread that is inside a function of the library: the
operating system goes on scheduling it, and what it calls (slots, tasks)
returns. There is none for the calls themselves: nobody has to emit, enqueue,
disconnect, set or destroy, and no spurious wake-up is counted on. The one
strong fairness is that of `VacuumerDue` in `ExpiryCache`: whether the idle
period of the vacuuming thread is over is left open, and time makes it so again
and again; so `AutoVacuumCollects` says nothing about a thread that never gets the
mutex because users keep it busy. The intervals of a timer end, select() sooner or later reports what is
watched (the peer goes on sending and reading), callbacks end in a return or a throw,
`wait_for_removal()` is woken by whoever erases the entry and by nobody else, and who has locked a named mutex
and lives unlocks it some time. Locks that a thread waits for are weakly fair only where the property
does not depend on more.

## The proofs

All are about `Spec` for every value of the constants that meets the named
assumption of the module (`SignalAssumption` and so on).

`DataStructureProofs`, on `paired_ptr`: `PairTypeOK` and `Symmetric` for any set of
addresses and every behaviour of `PairSpec` in which nobody is linked who is linked
already (`LinksFree`, an action formula; what happens otherwise is the first row of the
table of findings); symmetry is inductive together with the types. There is one step per
action; the four pointers of a move assignment are the interesting case.
`MovesKeepLinks` is an action property about a number, that of the linked objects:
a move assignment exchanges what its two sides are linked to, so the objects linked
before and after are in bijection (`Exchange`, `MoveExchanges`); that there are
finitely many of them at any time is part of the invariant (`LiveFinite`).

`SignalProofs`: every invariant of the run. The argument goes bottom up:
`EmissionOwnsLock` says that only one thread is past `EmitBegin`; `OnePlace`
that slots are unique in the multiset. The inductive core about an emission is
that what was called, and is still in the container, stands before the cursor
(or at it, while the slot is executing), and that what is steady and stands
before the cursor was called: from this and uniqueness follow `CalledOnce`,
`NobodyMissed` and, with the order of the container, `PriorityOrder`. A slot
erased at the cursor shifts those behind it by one, which is where the erasure
of `erase_if` could miss one, and where most of the proof is spent.
`ConnectionsKnowTheirSlots` and `DisconnectedSlotsStaySilent` assume
`Synchronised`, as their run does; that no pointer to a slot is stale while
somebody is about to write through it is the strengthening they need.

`ThrottledSignalProofs`: types, `JoinsFinishedThread`, `FlagHasDispatcher`,
`DestroyDeliversAll` and the refinement of `AsyncDelivery`. The invariant has
three parts. One is about who holds `_emit_lock` and which thread stands behind
the flag: the flag is stored outside the lock, so it says nothing about the
dispatcher by itself; what is inductive is that a dispatcher which has not yet
left its loop keeps the flag set, and that an emission joins only one which has
left it. The second accounts for the emissions: those delivered, the one being
delivered and those in the queue are 1, 2, ... without a gap, which makes a
delivery a step of `AsyncDelivery`. The third follows the destructor: once it
has drained the queue nothing comes back. That `EverythingDelivered` does *not* hold is
a finding (see the runs); `NothingWaitsUnattended` says when it does. About the end of
the signal: an emission or a destructor never joins a thread that needs what it holds
(`EveryJoinCanEnd`), no item is delivered once the stop is requested, although the queue
may not be empty then (`SilentOnceStopped`), and there is no step of any thread after the
destructor (`NoStepWhenDead`). They rest on `StopRequested`: the stop token is reset only
by an emission that starts a thread, and none is inside by then.

`QueuedSignalProofs`: types, the owners of the two locks, `NoDanglingSignal`,
`DestroyDeliversAll`, and the refinement of `AsyncDelivery` by each of the signals
that share the dispatcher. The invariant says who holds the locks, then who is
inside which signal (a thread that emits or destroys is alone there and keeps it
alive), then what the queue is: the entries of each living signal, wherever they
stand between those of others, are its emissions that have not left, in order. A
destructor takes out all of one signal's and none of the others', and the latter
keep their order; the lemmas about `Without` show it. The last three theorems are about
the flag. `JoinsFinished` (who is joined wants no lock) is inductive together with
`FlagSet` (the flag is set while a dispatcher works), and the two fail at one step only,
an emission that starts a thread while the former one is between its two stores.

`ThreadPoolProofs`: types, `NoSleepOverWork`, `LeavesNoWork` and the refinement
of `TaskPool`, for both kinds of pool. What holds the proof together is that the
tasks taken are those up to the number accepted less the length of the queue,
so that a fetch always starts the next one; and that a task that runs is held by
one worker, which is why the destructor, joining every worker, leaves none
running in a lite pool. `SomebodyWorks` is what the liveness of both pools comes down
to once fairness is taken away: wherever a task waits, or the destructor, somebody can
take a step towards it. It needs `SleepsAlive`, that nobody goes back to sleep after the
notification of the destructor: the predicate that a worker looks at before it sleeps was
changed under the same mutex. `FuturesAreSettled` follows the futures to the end of the
pool, through the queue that dies with it.

`DataStructureProofs`, on `expiry_cache`: types, `AnnouncedOnce`, `FlagMeansThread` and `NeverEarly`.
For each value the number of times it was announced and the number of keys it
is under add up to one, and every erasure moves it from the second to the
first; values not yet put are neither. `NeverEarly` needs no invariant: each
step that erases erases what has expired, or is named in the property. The deadlock of
`expiry_deadlock` is the state `Stuck`: somebody joins the thread, which wants the mutex
of the first. That it is final follows from `FlagMeansThread` (who has the mutex is the
one who joins) and from the destructor being the one that joins when `life` is past
`"alive"`; that there is no other way into it, from the thread reading the cancellation
before it decides.

`DataStructureProofs`, on `topological_sorter`: types and `SortIsTopological` for any finite set of
objects, any graph and any order of iteration. The counts that `sort()` works on
are, for every object, the number of its dependencies whose dependents have not
been visited yet; so a count reaches zero exactly once, when the last of them is,
and what is left over at the end waits for something left over.

`NamedMutexProofs`: types, without any condition (`MutexTypeOK`: `unlock()` never brings
the depth of a lock below zero), `OneHolder`, and that nobody waits in vain,
for any number of objects, processes, threads and deaths. A call of the semaphore is not
one step: who has its mutex may die there, and the others wait for it (`inner`).
`OneHolder` is not inductive, because the semaphore is set up anew by whoever finds
no user in the segment. What makes it so is `Counts`: the count is never less than the
number of objects it includes (`CountCovers`); who is at the count has its mutex, so that
what it has read is still true when it writes (`AtTheCount`); one object at most sets the
semaphore up (`OneSetsUp`), nobody else uses the segment meanwhile (`Alone`) and there is
nothing to take (`NothingToTake`); and one thread is inside the mutex of the semaphore, so
that who goes to take a token still finds it (`OneInside`). One kind of step can break
them: the set-up clears the semaphore and the mutexes whoever has them, and unlocks the
mutex of the segment a second time. `HoldersAreOne` is `OneHolder` under the premise that
nobody else is at the count while the semaphore is being set up, `Settled`, and so shows
that the finding has no other cause. `Orderly` users (those
that neither reopen nor renew) satisfy the premise by themselves (`MakersMutexSettles`):
until the maker has left, the count is at least one more than the number of other objects
that are counted in, those that died included (`CountIsEnough`), so that only the maker sets the semaphore
up, before anybody has it open (`MutexHasOneHolder`).

`NobodyWaitsInVain` is the part of `CallsReturn` that needs no fairness: unless a death
was `Fatal`, a thread that sleeps in `lock()` waits for a living thread that has the lock
or is on its way to the token, none is forgotten by the condition, the mutex of the
semaphore is in the hands of a living thread that is in its section, and an object that
comes or goes finds the segment's mutex free, or in the hands of a living object that is
making the segment or is at the count. What it needs is `Kept`: a token is never lost (it
is in the semaphore, or somebody dead or alive has it; `TokenKept`), a signal is not (a
token that others wait for has a thread on the way to it; `SignalKept`), and the segment's
mutex is not (`MutexKept`). Its premise is `Settled`, with `Renew` excluded;
`OrderlyUsersGetOn` discharges it for orderly users. The deaths in `Fatal` are those in
the hand of the token, of the mutex of the semaphore or of that of the count, before the
segment is made, and asleep or just woken, where the one signal of a `post()` may be
lost with the thread.

`TcpClientProofs`: types and `ServiceKeepsPromise`, for any number of workers,
requests and connections, of a client together with the service. The first part of
the promise is proved without `Careful`: that a direction has one task at most, queued
or in the hands of a worker, and is flagged as executing while it has one
(`TasksMatch`), which is what lets the polling thread fill the pool again and again. The
converse fails when a callback throws: the flag stays. The second part, `WaitMeansSilence`,
is about waits that end while the socket is open: as long as it is, the descriptor that
the predicate looks for is that of the entry. `StaysRemoved`
says that an entry does not come back between the end of the wait in
`disconnect(true)` and the return. The callbacks need more, and `Careful`: requests
that are left when the connection is over have somebody on the way to drop them
(`SomebodyClears`), and until then the socket stays open, tracked, and watched for
exactly the directions with requests (`Usable`): nobody who is taking the connection
down has come past the step that clears the requests. This last clause is what makes
it inductive, and it was found with TLC, with `Careful` both true and false. `PollerIsTold` needs the types only: whoever changes the entry writes to
the pipe, and the polling thread forgets the pipe before it reads the entry.
`DestructorWaitsForAll` follows the destructor under its premise `DestroysAlone`: from its
look at the flag on the socket stays open until the wait has ended, so that the entry is
gone when it returns (`Gone`), and an entry that is gone has no task, queued or taken
(`Silence`), nor does it come back (`GoneStays`).

`TimerBridgeProofs`: types, `BridgeKeepsPromise` and `ArgsUnshared` of the
composition, for any finite set of pumping threads. Which emissions of the queue have
been handled while the lock is held depends on the function that holds it: the first,
the last, or those up to the cursor (`Handled`). Those may leave the queue; the others
have not been delivered yet unless a slot has thrown (`Progress`), so that what `Finish`
removes is exactly what was called. From this follow that nothing is lost and nothing
delivered twice. That nothing is left behind is a matter of counting: without a functor
the queue is never longer than the number of threads that are about to take one out
(`Enough`); each push adds one to both, and a thread goes away empty-handed only when
it has seen an empty queue, with the lock or without. The timer's part says that
`_timer_enabled` stays set until its thread is past the loop, and that the owner starts a
thread only over one that is (`TimerInv`). `PartsKeepTheirSpecifications` states that
the composition implements both of its parts. TLC checked the invariant on the instance
of the run and on one with two pumps. The end of the timer needs one more fact, that a
cancellation is reset only by a start (`StopIsKept`): from the stop on no emission begins
(`TimerEmitsNoMore`), and the thread that is joined waits, if at all, for a lock of the
bridge that another thread at work will release (`EveryStopCanEnd`).

What the proofs assume of the constants is little: distinct model values, bounds that
are natural numbers, and sets of threads, processes or addresses that are finite where
something is counted (`IsFiniteSet(Pumps)` for one). `Synchronised`, `Orderly` and
`Careful` are conditions on the application; where a theorem needs one it says so, or
the property does. The theorems with a premise `[][...]_vars` or `[]Settled` are listed
with the findings they delimit; all the others are about every behaviour of `Spec`.

What is only model-checked: the liveness properties `EveryEmitReturns`, `CallsReturn`,
`DestructionEnds`, `EveryTaskRuns`, `AutoVacuumCollects`, `TimerStops` and `RequestsEnd`
(liveness under fairness is out of the prover's reach). What these come down to without
fairness is proved where it holds: somebody can always take a step towards the end
(`SomebodyWorks`, `EveryJoinCanEnd`, `EveryStopCanEnd`, `NobodyWaitsInVain`,
`OnlyThisDeadlock`); from there the argument to liveness, a measure that the steps
decrease, is left to TLC. Also only model-checked are `YieldsExpected` and `EndingsAgree`. `Relinx` and `CoRelinx` are recursive definitions
over the structure of a query, and induction over data is out of the prover's reach.

## What is not modelled

Durations and rates: how long a dispatcher sleeps, the period of the vacuuming
thread, the clock's resolution. Arguments of signals, values of tasks and keys
of maps: numbers and model values stand for them. Copying and moving a whole
signal, its name and its user data. Failures to allocate memory or to start a
thread. Weak memory: the atomics of the code are sequentially consistent by
default, and accesses without any synchronisation are modelled as atomic reads
and writes in any order. The end of the program for the static dispatcher of
`queued_signal`. Components listed as `not_modelled` in PROJECT.json, with the
reason.

Listeners of `expiry_cache` that throw (expiry_cache.hpp:64,
183, 271). `NoDanglingSignal` is about signals destroyed with dispatching on; with it
off the destructor leaves its entries in the queue (signal_slot.hpp:1507-1532,
1641-1643), with pointers to the signal that was.

Of sharp_tcp: its thread pool and self-pipe appear as a queue of tasks and a flag,
the shutdown of the service and several sockets in one table not at all; the
server keeps a list of clients. An exception of a callback that does not
derive from `std::exception` ends the program. Of the named mutex: unnamed ones, the event
classes, wake-ups of the condition without a signal, a semaphore with a maximum other
than one, a clock that fails (global_named_mutex.hpp:447 returns with the mutex of the
semaphore locked); `create()` called again on an object that is in use by another thread,
which the code does not look at and the model excludes (`Quiet`); and Windows, where the operating system has all of it. Of relinx:
`group_by`, `average`, `sum`, `to_string`, `then_by`, `sequence_equal`, and the
conversions to containers other than a map, and that `select_i`, `where_i` and
`select_many_i` capture their functor by reference (relinx.hpp:2359, 2422, 2865); of
co_relinx `co_group` too. Of the overloads of co_relinx `except`, `intersect_with`, `join`
and `group_join` are modelled as those for lvalue containers do, `concat`, `zip`, `mix`
and `union_with` as those for rvalues: the others keep a dangling reference, do not deduce
or are ambiguous (PROJECT.json, findings).

Most of the lines of the repository are of a kind a model says nothing about: a
test framework (`examples/catch.hpp`, four lines of ten), examples, benchmarks,
vendored libraries, and conversions of text and bytes, whose definitions would be
as long as the code. The modules cover the classes with state that several calls,
threads or processes share, and the lazy evaluation of queries.

What we met on the way, found no place for in a model, and leave to the reader of
the code: `put()` of the expiry cache with a time point less than a millisecond
away means the default duration (expiry_cache.hpp:68), and `set_expiry()` counts
from the last access (137); the dispatcher of a throttled signal does not sleep
when its queue is empty, so single emissions are not limited (signal_slot.hpp:1426);
the constructor of `thread_pool_lite` leaves started workers behind when another
cannot be started (thread_pool.hpp:84); the adapter behind
`take` reads its parent where it ends (relinx.hpp:393), `then_by` of a third level
sorts across neighbours that differ in the first (2981), `average()` of nothing
throws through `noexcept` (1300); `co_cycle` of an
empty source does not return (co_relinx.hpp:466).

## The plan

Done: `PairedPtr`, `Signal`, `AsyncDelivery`, `ThrottledSignal`, `QueuedSignal`,
`TaskPool`, `ThreadPool`, `ExpiryCache`, `BridgedSignal`, `TimerSignal` and their
composition, `IoService`, `TcpClient`, `NamedMutex`, `TopologicalSorter`, `Pipelines`,
`Relinx`, `CoRelinx`, `Query`; proofs of every safety property that the runs check,
but for the queries.

Next:

1. `io_service` with several sockets and its shutdown, and `tcp_server`.
2. The parser of `http_request_parser`, fed in parts, and the routing of
   `http_resource_manager`.
