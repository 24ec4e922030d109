# A TLA+ verification project for coreinit-nx

coreinit-nx reimplements the Wii U's `coreinit` (threads, synchronisation, heaps, alarms,
file system and run-time hooks of Cafe OS) for a native Switch program, on top of libnx.
Guest code calls the Cafe OS functions. A guest structure (`OSMutex`, `OSSemaphore`, ...)
carries no state here: its address is a key, and a *host object* made on its first use holds
the libnx primitives that implement it.

The modules in this directory are translated from `src/source/*.cpp` and the internal
headers. They are checked by TLC on small instances, and the safety of nearly all of them is
also proved with TLAPS for every value of their constants (section 4). libnx is not part of the
repository; it is modelled by what the sources rely on:

- `mutexLock` blocks while another thread holds the lock;
- `condvarWait` gives the lock up and sleeps in one step, and takes the lock again, among
  whoever else wants it, after a wake-up;
- a wake-up reaches the threads that sleep at that moment;
- `threadCreate`, `threadStart`, `threadWaitForExit` and `threadClose` act on one kernel thread.

## 1. Inventory

### Components modelled

| Component | State | Operations | What is hard | What makes it correct |
|---|---|---|---|---|
| Handle table (`internal/handle_table.hpp`) | map from address to host object, `m_lock` | `get` (creates on first use), `erase` | racing first uses; an object published before its `init` | one host per address, ready when returned, none leaked; never blocks |
| Mutex, condition (`mutex.cpp`, `cond.cpp`, `internal/mutex_internal.hpp`) | libnx lock, and a depth `count` outside it | init, lock, try-lock, unlock, wait, signal | `count` has no protection of its own; a wait puts a whole depth aside | a recursive monitor; every woken waiter returns at its depth |
| Message queue (`messagequeue.cpp`) | ring, head, count, two conditions | init, send, receive, peek, system queue | one wake-up per slot, barging, wrap-around, priority | a bounded queue; no wake-up lost |
| Semaphore (`semaphore.cpp`) | count, one condition | init, signal, wait, try-wait | signals wake everybody for one permit | a permit is taken once; nobody sleeps over one |
| Event (`event.cpp`) | signalled, mode, one condition | init, signal, signal all, reset, wait, timed wait | auto-reset against barging waits, resets, deadlines | nobody sleeps over a signal; timed waits return |
| Frame heap (`memfrmheap.cpp`) | head, tail, end, recorded states | create, destroy, allocate, free, record and restore states, adjust | stale states; both ends meeting; alignment | no byte handed out twice or outside |
| Expanded heap (`memexpheap.cpp`) | list of blocks, mode; three base heaps | create, destroy, allocate, free, set mode; base heap built lazily, or replaced | splitting at both ends, remainders, coalescing; no lock anywhere | blocks tile the region; live ranges are disjoint |
| Default heap (`memdefaultheap.cpp`) | pointers that forward to the MEM2 base heap | allocate, free | the first call builds the heap; the heap is replaced while blocks are out | a block is nobody else's until it is freed |
| Alarm (`alarm.cpp`) | alarm map, scheduler thread and its flags | create, set, cancel (one, by tag), scheduler loop, shutdown | callbacks outside the lock, unprotected lazy start, restarts | nothing slept past, called twice or lost |
| File system (`filesystem.cpp`) | slots of files and directories, positions, sessions of clients, mappings | open, close, read, write, seek, tell, stat, shutdown; change directory, last error, map, mount | slots are found without the lock while the vectors grow; the client map is written without it | a handle names its stream and a file goes on where it was left; a client has its own directory and error |
| GHS hooks (`ghs.cpp`), partly | flock pool with its mutex | flock create and destroy, mutexes made in the default heap (modelled); errno and locking (one call each) | a destroy takes no lock | a flock has one owner |
| Drivers (`driver.cpp`) | table of drivers with save areas | register, deregister, copy to and from the save area, shutdown | callbacks outside the lock; slots are reused | every driver is told once that it is over, and has a save area of its own |
| Locked cache (`lockedcache.cpp`) | blocks, bytes allocated, the lock and its flag | allocate, free | a 32-bit sum in the test of the budget; a lock that the first call makes | the budget is kept and counted exactly |
| Dynamic loader (`dynload.cpp`) | one counted slot per library | acquire, release, find export | find-export tests and searches without the lock | a library's handle names it for as long as it is held |
| Spin lock (`spinlock.cpp`) | one libnx lock each | acquire, try, timed try, release | the timed try polls | a timed try returns |
| Time (`time.cpp`), partly | none | ticks to calendar and back (modelled); the base time (not) | leap years, centuries, division towards zero, times before 2000 | agreement with the calendar, and the way back |
| Thread (`thread.cpp`), partly | `HostThread` fields, the kernel thread | create, resume, suspend, join, detach, exit, cancel; priority, affinity, stack size | all fields unprotected; re-creation on the same address; a window of priorities taken from the caller | a join answers for the life it joined; a resumed thread starts; priorities keep their order |

### Components not modelled

| Component | State and operations | Why, or when |
|---|---|---|
| Base time and clock (`internal/time_internal.hpp`, `systeminfo.cpp`) | the base time, set once or by `__OSSetAbsoluteSystemTime` | one store, one sum |
| 64-bit atomics (`atomic64.cpp`) | none | one compiler builtin per call |
| Cache, memory (`cache.cpp`, `memory.cpp`) | none | memset, memmove and cache instructions |
| Debug, user configuration, MCP, miscellaneous | none but a counter of handles that nobody looks up | formatting and constant answers |
| Symbol registry's table, `tools/rpx-imports` | constant data, of which `DynLoad` knows the set of libraries; an offline parser | no state; not part of the running library |

### How they interact

Every synchronisation object and heap starts each call with `HandleTable::get`, which is
the only thing they share. `cond.cpp` uses the host mutex of `mutex.cpp`: the two are one
module, `MutexCond`. Message queue, semaphore, event, spin lock and alarm each use libnx
primitives directly, not one another. An alarm callback runs on the scheduler thread and may
call back into the alarm functions. A thread blocked in one object can do nothing to another,
which `GuestSync` composes for the semaphore and the event; the handle table and the spin lock
are parts of the same instance, one of which a behaviour uses. The default heap and the mutexes of
the GHS hooks are blocks of the MEM2 base heap, which is an expanded heap (`BaseHeap` knows
of it only that a block it hands out was free). The file system's two halves, the handles
(`FileTable`) and the sessions (`FileClient`), meet in opening, where a path is translated before
a slot is taken, and in `FSShutdown`; neither reads what the other keeps. Flocks, drivers, the locked cache, the loader and the
calendar share neither state nor lock with anything else; `Services` holds all of these side by
side. In the modules above the handle table, `get` is taken to be the atomic map that
`HandleTable` shows it to be.

## 2. Modules and the code

| Module | Models | Correspondence |
|---|---|---|
| `HandleMap` | what `get` and `erase` promise | an atomic map whose answers are stable |
| `HandleTable` | `handle_table.hpp` | one action per statement between `mutexLock` and `mutexUnlock`; `lock` is `m_lock`, `map` is `m_map`, `object` the life of each host object |
| `RecursiveMonitor` | what `OSMutex` and `OSCondition` promise | acquire, release, park, signal, resume |
| `MutexCond` | `mutex.cpp`, `cond.cpp` | one action per libnx call and per access to `count`; `depth` is the guest's own balance of locks and unlocks, a history variable |
| `BoundedQueue` | what `OSMessageQueue` promises | a sequence with a size |
| `MessageQueue` | `messagequeue.cpp` | one action per section under the lock; `ring`, `head`, `count` as in `HostQueue` |
| `Semaphore`, `Event`, `SpinLock`, `GuestSync` | `semaphore.cpp`, `event.cpp`, `spinlock.cpp`, and the composition | one action per section under the lock, and per turn of the polling loop; `floor`, `owed`, `unwoken` are history variables; `overdue` and `late` say that a deadline has passed |
| `FrmHeap` | `memfrmheap.cpp` | one action per call, sequential; `blocks` and `kept` remember what the guest still owns, `limit` the region's end (history variables) |
| `RegionAllocator` | what a heap promises | disjoint ranges of a region |
| `ExpHeap` | `memexpheap.cpp` but the base heaps | one action per call, sequential |
| `Heaps` | a frame heap or an expanded heap | the instance that is checked |
| `BaseHeap` | base heaps, `memdefaultheap.cpp`, `__ghs_mtx_init`, `__ghs_mtx_dst` | a call is the test of `g_baseHeap`, the building of a heap and the call on it; `owned` is the guest's (history), `unspoilt` says that no two calls have been on one heap at once |
| `Alarm` | `alarm.cpp` | one action per section under `g_lock`, one per access to `g_started` and `g_thread` in `ensureThread` and in the shutdown, one per callback; `current` and `verdict` are history variables |
| `FileTable` | handles of `filesystem.cpp` | opening and closing one action each; any other call a script of finding the slot and one action per call of the C library; `stale` marks a slot's address that a growing vector has left; `grants`, `cursor` are history variables |
| `FileClient` | clients, sessions, mappings of `filesystem.cpp` | a call translates its path, with or without the lock, then records its status without it; an insertion into the map is two actions; `own`, `settled` are history variables |
| `FlockPool` | flocks of `ghs.cpp` | one action per access to `g_flockInUse` and `g_freeFlockIdx` |
| `Driver` | `driver.cpp` | one action per section under the lock, and the `onDone` of a shutdown on its own; `ends`, `standing`, `saved` are history variables |
| `LockedCache` | `lockedcache.cpp` | the test of `g_inited`, `mutexInit`, `mutexLock`, the test of the budget and the change are actions; sums modulo `Word` |
| `DynLoad` | `dynload.cpp` | one action per section under the lock, two for find-export, which has none; `held` is the guest's (history) |
| `Calendar` | `time.cpp` | both conversions, of days and of ticks, beside a calendar that goes on day by day |
| `Services` | the eight above, `FlockPool` among them | a behaviour uses one of them, chosen at the start, as they share nothing |
| `GuestThread` | lives of threads in `thread.cpp` | one action per access to a field that another thread may change in between; `h` is the `HostThread` |
| `ThreadAttributes` | what `thread.cpp` gives the host | one action per creation and per setter; `asked`, with who asked, is a history variable |

`MutexCondProofs`, `GuestSyncProofs`, `MessageQueueProofs`, `FrmHeapProofs`, `HeapsProofs`,
`AlarmProofs`, `GuestThreadProofs` and `ServicesProofs` each extend the module they are named for with its
theorems; `GuestThreadProofs` holds those about `ThreadAttributes` too. Each `MCx` module is the instance of `x` that TLC checks, with the `.cfg` file of the same
name. Beside several actions there is a *mutated* form (`Mutation of ...` in the comment):
the action with a plausible mistake put in. It is no part of the specification. Put in place of
the action, it makes the property it is meant for fail under the same configuration, which shows
that the property and the bounds are able to notice such a mistake.

### Decisions that shape the models

- **Grain.** Where all accesses to an object are under its lock (queue, semaphore, event,
  alarms), a section under the lock is one step and a `condvarWait` ends it. Where the code
  leaves state unprotected (`HostMutex.count`, `g_started`, `g_stop`, all of `HostThread`), every
  access is a step. The handle table keeps the steps under its lock apart, so that what the lock
  protects is a result.
- **Heaps are sequential** in `Heaps`, as the code has no lock in them. `BaseHeap` has two threads on
  the default heap, which the guest cannot lock.
- **Undefined behaviour ends a behaviour.** Where the code uses a freed slot (`FileTable`), changes a map that
  another thread reads (`FileClient`) or changes a heap from two threads (`BaseHeap`), anything may
  follow. The models record that it happened (`intact`, `sound`, `unspoilt`) and go no further, so
  the properties hold up to it. All three do happen: section 5.
- **Time** is relative. In `Alarm` it is the number of ticks left until an alarm is due, and in `Event`
  only whether a deadline has passed.
- **What the guest may do.** Anything the headers allow, including unlocking a mutex it does
  not own and freeing what is not a block. It is assumed not to wait on a condition without the
  mutex, not to use a heap after destroying it other than to create it again, and, for
  `GuestThread`, to join from one thread at a time, to create an `OSThread` again only after a
  join or, when detached, after its deallocator, and to have no other call on it in progress
  then. `coreinitNxAlarmShutdown` is not called while another guest thread is setting an alarm, nor
  `FSShutdown` while any other call on a file is in progress; handles are void after it. The
  pool of flocks is initialised before the guest's threads run, as the C library uses it first, and
  in `services` one thread alone makes the first call on the locked cache (`Primed`). No two threads
  make calls for one `FSClient` at once, a spin lock is released by the thread that has it, and a
  library is released once for each time it was acquired. A directory that a client changes to is absolute.
- Re-initialising an object under sleeping threads wakes nobody. The liveness-like invariants of
  queue, semaphore and event exclude that case by a history variable (`disturbed`, `unwoken`)
  and hold up to it; the action itself is in the model. The hazard is listed without a property, as are the
  three races that end a behaviour, and the second initialisation of the system queue, whose lost message
  `BoundedQueue` allows because it may be reset at any moment.

## 3. What the runs check

| Run | Instance | Shows |
|---|---|---|
| `mutex_cond` | 3 threads, 1 mutex, 1 condition, `MaxDepth` 2 | `MutualExclusion`; `DepthExact`: `count` equals the guest's own balance; `CountOnlyByOwner`; `ImplementsMonitor`: refines `RecursiveMonitor`; `SignalledReturns` |
| `message_queue` | 3 threads, 2 messages, `MaxSize` 3 | `WakeupsCover`: as long as a receiver sleeps, each message has a woken receiver on its way, likewise for room and senders. `ImplementsQueue`: refines `BoundedQueue`. `NobodySleepsOn` |
| `guest_sync` | 3 threads, `MaxCount` 2; 2 threads, 2 keys and 3 hosts on the table | `NoLeakNoRawHost`: no raw host is published, none is leaked. `IsAtomicMap`: the table refines `HandleMap`. `CallsReturn`: every `get` and `erase` ends. `TypeOK`, in which the semaphore's count is never below the floor of its initialisation: no permit is taken twice. `NoSleepOverPermit`: nobody sleeps over a permit that no woken thread is coming for; `NoSleepOverSignal`: the same for an event. `TimedWaitReturns`: of an event and of a spin lock |
| `heaps` | frame heap: region 7, two requests, three alignments, two tags, `MaxStates` 2; expanded heap: region 27, three requests, four alignments | `NoOverlap`, `InsideRegion`; `AllocatableExact`, `ExpAllocatableExact`: the size reported is the largest granted. `Tiles`: the blocks tile the region with no two free neighbours; `HeadersKept`; `ImplementsAllocator`: refines `RegionAllocator` |
| `alarm` | 1 guest thread and callbacks, 2 alarms, 2 schedulers, `MaxDelay` 1, `MaxSets` 2 | `SleepsLightly`: a scheduler never sleeps past what it is there for. `OneShotOnce`. `ArmedFires`: an alarm set with the scheduler on is called or replaced. `ShutdownReturns`. Both unless a shutdown waits for a thread that was never started (`Stranded`, section 5) |
| `guest_thread` | 2 controllers, `MaxLives` 2, `MaxSuspend` 2 | `JoinAnswersOwn`: a join answers the result of the life it joined. `SoleUser`: two lives never run in one `HostThread`. `ResumedStarts` |
| `services` | 2 streams of 2 items, 2 threads; 2 clients, 2 mappings; 3 threads, 3 flocks; 2 drivers, 2 slots, `MaxRegistrations` 4; `Word` 16, `CacheSize` 4, `HostMemory` 10; 2 base heaps and one of the guest; 3 library names, of which 2 registered, `MaxHeld` 2; 2 × 146097 days with 5 instants each | `HeldStaysGood`: a handle names its stream, a flock has one owner, a save area, a block and a module stay their holder's. `CursorsKept`: a file goes on where the last call on its handle left it. `SessionsKept`: a client has the directory and error of its own calls, and its files stay where they were mapped to first. `EndsOnce`: each driver is told once that it is over. `BudgetKept`. `DatesRight`, `RoundTrip`: conversions agree with the calendar, and the way back loses less than a microsecond |
| `event_signal_all` | as `guest_sync` | violated, see Findings |
| `heaps_adjust` | as `heaps`, one region for the frame heap | violated, see Findings |
| `alarm_cancel` | 1 guest thread, 1 alarm, 1 scheduler | violated, see Findings |
| `locked_cache_first_use` | as in `services`, 2 threads, `Primed` false | violated, see Findings |
| `thread_priority` | 3 threads, 5 priorities, the source's own `0x2C` and `0x3F` | violated, see Findings |

Deadlock checking is off where the system really may stop: guests that all wait for a
signal nobody will send, bounded counters that are used up, threads that have ended.

### Bounds, and why they are enough

- **Three threads** for locks and conditions give two waiters and a third that barges between
  a wake-up and the woken thread's lock. More threads repeat these roles.
- **`MaxDepth` 2** is the least depth at which saving, clearing and restoring a depth can go wrong.
- **`MaxSize` 3** gives rings of 1, 2 and 3 slots: full and empty coincide in head position,
  the head wraps, and a high-priority send goes below slot 0.
- **`MaxCount` 2** has more permits than one and, with three threads, more waiters than permits.
- **Heaps**: the regions are sized so that padding at either end, an exact fit, a fit that fails
  by one byte, and (expanded heap) remainders just below and above the smallest split all occur;
  a second region is too small for a heap.
- **`MaxStates` 2** allows a state to be restored past another, by tag or not.
- **`MaxDelay` 1, `MaxSets` 2**: an alarm set for now against one set for later, each
  one-shot or periodic, set again once or two of them, before, in and after a callback.
- **`MaxLives` 2** is one re-creation; **`MaxSuspend` 2** tells one suspension from two.
- **Services**: two streams take, free and retake slots in both vectors, which grow from one slot to
  two under a call on another thread; two items tell the start, the middle and the end of a file. Two
  clients and two threads put an insertion into the map inside another client's call; a path is a sequence of
  pieces of text, and the directories and prefixes `/vol/a` and `/vol/ab` overlap as the code's comparison of raw
  text has it, so that the order of the mappings matters. Three
  threads and three flocks put a destroy by one thread, and another's, into any step of a third
  one's search. Two slots and four registrations let a driver register behind and ahead of the
  sweep of a shutdown, and a second shutdown follow. `Word` 16 lets the sum of the locked cache
  wrap; a size for which it does is one the host cannot supply (`ServicesAssumption`). Two regions let
  the base heap be replaced and built again. 146097 days
  are the whole period of 400 years, from 1970 and from the year -30 through 0; a day of eight seconds of
  seven ticks or four microseconds keeps both fractions that do not divide one another, its instants being
  the first and last tick of the day and of its first second and one amid.
- **Thread priorities**: 0 and 31, one below, and two between, of which a child's falls between.

The counters these bound are 32 bits wide in the code, and no program drives them to their
ends: a semaphore's count would take 2^31 signals.

### Fairness, and why the code justifies it

- *Inside a call* a thread keeps running: weak fairness of the steps that need no lock,
  as the kernel schedules every runnable thread.
- *A contended lock*: strong fairness in `HandleTable` and `MutexCond`, because the kernel hands
  a contended libnx Mutex to threads of equal priority in turn. Elsewhere a section under the
  lock is one step, always possible while the lock is free, and weak fairness is enough.
- `MutexCond`'s guest (in `MCMutexCond` only) unwinds each depth it keeps coming back to: that
  is the assumption without which a woken waiter may wait for ever, and it is the program's duty.
- Time passes: weak fairness of `Tick`, of `PassDeadline` and of a spin lock's `Expire`; the sleep of a polling
  thread ends.
- Nothing is assumed of the calls a guest makes, except in `MutexCond`. A callback of an alarm
  returns, as every scheduler step is weakly fair.
- Controllers of a thread finish a resume, and a join whose thread has ended; no other
  fairness is asked of the guest.

## 4. What is proved

All proofs are for any sets of threads, mutexes and so on, and any value of the bounds; the
assumptions named are the only ones made, and TLC evaluates them on every run.

**`MutexCondProofs`**, from `MutexCondAssumption` (the null values are outside their sets and
`MaxDepth` is positive). `MutualExclusion` is not inductive: whether a thread holds the lock
depends on where in its call it is. `IInv` adds three facts to `TypeOK`: `CallsConsistent`
(a thread in a call has the mutex and condition that the call needs), `HoldsItsMutex` (the places
at which a thread is the owner are the owner's places) and `Balance` (the guest's balance, `count` and the
depth put aside agree at every place). `Invariance` has one step per action.
From it follow `Typing`, `MutexExcludes`, `CountIsExact`, `OwnerAloneWritesCount` (an action
property: every step that changes `count[m]` is the owner's) and `Refinement` (each step of
`MutexCond` is a step of `RecursiveMonitor` or changes nothing there).

**`GuestSyncProofs`**, from `GuestSyncAssumption` (null values outside, `MaxCount` a natural number).
For the handle table, `TableInv` adds to `NoLeakNoRawHost` that exactly the owner of `m_lock` is
between its lock and its unlock, and `FoundUnderLock`, what that owner has found so far: at `emplace` the
address is still unbound and the object initialised, at `unlock` the answer is what is bound. It
gives `TableSafe`, and `TableIsAtomicMap`: the table implements `HandleMap`, where a call takes
effect while it holds the lock, so that the answers are mapped by `Answered` a step ahead. For
semaphore and event the properties are inductive once the steps of each part are shown not to
move the sleepers of the others; they give `PermitsWake` and `SignalsWake`, with
the exception of `unwoken` that they state. `TypeCorrect` is the type invariant of all parts, and with it
that a count is never below the floor of its initialisation.

**`MessageQueueProofs`**, from `MessageQueueAssumption` (finitely many threads, as wake-ups are counted).
`IInv` is `TypeOK`, `WakeupsCover` and `ParcelsInHand` (a thread inside a send has a message).
Each step moves at most one thread into or out of the sets of sleepers and of woken
threads, and lemmas on cardinalities say by how much each changes. `WakeupsEnough` and `TypeCorrect`
follow, and `RingIsQueue`: the ring, read off from its head modulo its size, implements
`BoundedQueue`. It rests on `Wrap` and `HeadMoves`, how an index that runs over either end of the ring
comes back.

**`FrmHeapProofs`**, from `FrmHeapAssumption`. The `IInv` is `TypeOK`, `NoOverlap`,
`InsideRegion` and, while the heap is live: `EndsSound` (what the guest owns lies below `head`
or above `tail`, and these do not cross), `StatesSound` (the same for every recorded state, for the
blocks that were there when it was taken) and `StatesNested` (a later state keeps all
that an earlier one keeps). Without the last two, restoring a state is not safe. From it follow
`Typing`, `BlocksAreDisjoint`, `BlocksAreInside` and `AllocatableIsExact`; the last rests on lemmas about
rounding an address up and down to an alignment, which hold for positive alignments that
are no power of two as well. `FrameHeapAlone` in `HeapsProofs` carries them over to the composition.

**`HeapsProofs`**, from `HeapsAssumption`. The one bound in it that is not mere typing is `BlockHeader` at
least 3: the code's header has `0x14` bytes, and rounding to 4 may cost 3, which a block's header has
to make up for. The inductive invariant `BlocksSound` says that the blocks
tile the region with no two free neighbours and that every used one keeps its header. The hard case is a free:
`coalesce` is a loop over the list, here a recursive function, and `CoalesceIs` says of its result
that it tiles the same range, keeps the used blocks and has no two free neighbours. As
the provers have no induction rule, it is shown by taking the least number for which it fails (`LeastOf`,
`Inductive`). `EndsBefore` says that a block ends where a later one starts or before. The theorems are
`BlocksStaySound`, `RegionTiled`, `PayloadsKeepOff`,
`HeapIsAllocator` (the list implements `RegionAllocator`: what is handed out was free, and is disjoint from what is
out) and `ExpAllocatableIsExact`.

**`AlarmProofs`**, from `AlarmAssumption`. `IInv` is `SleepsLightly` (with `TypeOK`),
`OneShotOnce` and `DueKnown`: what a scheduler has collected was set, and two collected settings of
one alarm with one number are the same. The number of a setting is what tells an alarm that was set
again from the one that was collected. `NeverSleepsPast` needs that a set which finds the
scheduler asleep wakes it; it and `OneShotCalledOnce` hold for any number of schedulers, also where a racing start
has made two.

**`GuestThreadProofs`**, from `GuestThreadAssumption` (both bounds positive). The fields of
`HostThread` have no lock; what carries the proofs is `LivesInOrder` (earlier lives have left their
trampoline, later ones do not exist), `FieldsOfLife` (the fields are of the present life until
it has left), `CollectedEnded` (a join has collected from an ended life) and `CallsInOrder` (what the guest keeps
to, section 2). They give `TypeCorrect`, `JoinRight` and `OneUser`.

The same module proves what is left of the order of priorities that finding 5 refutes, for any number of
threads, any process priority up to the lowest and any requests (`PrioritiesAreSound`). `Mapped` is the
inductive invariant: each created thread has the priority that `mapPriority` makes of its request and of the
priority its creator still has. `InWindowOrdered` says that the mapping is monotone in both: raising the
creator's end of the window by `d` takes at most `31 * d` from the product, which passes through the division
by 31. `OrderKept` follows: of two threads, the one asked to be no less urgent, by a creator no less
urgent, is never the less urgent one, which covers all threads that the main thread creates. `WindowKept` says that
no thread is more urgent than its creator or below the lowest priority. No run checks these two properties.
`svcGetThreadPriority` on the caller's own handle is taken not to fail, as in the model.

**`ServicesProofs`**, from `ServicesAssumption`: finitely many threads; bounds are natural numbers;
the cache and what the host can supply are less than a word; null values are outside; paths are sequences of
pieces of text, and no mapping's prefix is a file the guest opens. `ServicesInv` is one inductive invariant
per part, each of which the other parts leave alone:

| Invariant | Beyond types it says | For |
|---|---|---|
| `FlockInv` | exactly the owner of the pool is inside it; what it is about to take is free; no flock has two owners | `HandedOutStaysGood` |
| `DriverInv` | slots hold different registrations; those in slots that the sweep has passed came after it began; none is lost or told twice | `DriversToldOnce`, `HandedOutStaysGood` |
| `CacheInv` | at most one thread between lock and unlock; what it tested still fits; `allocated` is the number of bytes out | `BudgetHolds` |
| `HeapInv` | a block on its way to be freed is nobody's | `HandedOutStaysGood` |
| `LoadInv` | a slot's count is the number of references out; the slot that a search looks at is held | `HandedOutStaysGood` |
| `FileInv` | a handle's slot has its stream, different handles different streams; a call on a file, with the steps it has left, ends where its cursor says | `CursorsRight`, `HandedOutStaysGood` |
| `CalendarInv` | both conversions agree with the calendar kept by hand | `DatesAreRight`, `TimesRoundTrip` |
| `ClientInv` | between calls a client's session is the one its own calls made; a directory once mapped stays mapped to the same place | `SessionsOwn` |

The calendar rests on one decomposition: a day number is day `d` of year `y` of four, `q` of 25 of these,
`c` of the 4 centuries of a period that begins in March, and only a leap year has a day 365 (`DayIs`).
`CivilIs` says that the code's divisions find that place, although the leap days they take off are
not exact; then the next day is the day after (`NextDay`) and the conversions are inverse (`WayBack`). The
way there and back of a time is proved from `ClockAssumption` (no unit is 0) for any length of a
day and any rate of the timer, the code's own among them; `FloorIs` is the one lemma on C's division that it needs.

`ModulesKept`, in `HeldStaysGood`, is stated with the references held. An earlier statement compared names alone, and
the attempt to prove it showed it false with two registered libraries: a slot that is free keeps
the name it had. The run has two registered libraries for that reason.

**Only model-checked**: liveness, that is `SignalledReturns`, `NobodySleepsOn`, `CallsReturn`, `TimedWaitReturns`, `ResumedStarts`,
`ArmedFires` and `ShutdownReturns`. Fairness and ENABLED are out of the prover's reach. Every other property
of a passing run is proved.

## 5. Findings

1. `OSSignalEventAll` on an auto-reset event releases nobody (`event.cpp:69`, run
   `event_signal_all`): the signal is cleared under the same lock that set it, and each woken thread tests it again.
   The comment above it says all waiting threads are woken and the event is then reset.
2. `MEMAdjustFrmHeap` followed by restoring a state recorded before it allocates beyond the
   new end of the heap (`memfrmheap.cpp:185`, run `heaps_adjust`).
3. A periodic alarm that the scheduler has already collected is called although `OSCancelAlarm`
   answered that it was armed (`alarm.cpp:74`, run `alarm_cancel`). The README says cancelled
   alarms never fire.

4. Two threads that use the locked cache first at the same time both initialise its lock
   (`lockedcache.cpp:32`, run `locked_cache_first_use`): both test the budget before either has counted
   its block. The README says the budget is enforced. The other `ensureInit`s have the same form.
5. A thread created by a created thread is mapped into the window below its creator's priority, not
   the process's (`thread.cpp:71`, run `thread_priority`), so one that was asked to be more urgent than
   another runs below it. The README says relative ordering is preserved.
   `OrderKept` (section 4) is what does hold.

Seen while modelling, with no run of their own:

- An open that grows the vector leaves a read on another thread with a freed slot (`filesystem.cpp:252`,
  `UseFreed`); errors are recorded in the client map, and paths of `FSMakeDir`, `FSRemove` and `FSRename`
  translated, without the lock (`filesystem.cpp:63`, `sound` becomes false); two threads on the default heap
  change one block list at once, and two first calls build two heaps (`memexpheap.cpp:293`).
- `ensureThread` writes `g_thread` before the new thread is started (`alarm.cpp:96`). When two starts race, the
  first has set `g_started` and the second's `threadStart` then fails, `g_thread` is a thread that never
  runs, and `coreinitNxAlarmShutdown` waits for it for ever (`Stranded`). The thread it closes may also be
  another than the one it waited for: one that a callback has started since (`Close`).
- A volume mapped as `/vol/a` takes the paths of `/vol/ab` too, as prefixes are compared without regard to
  where a name ends (`filesystem.cpp:92`).
- The last error of a client is left as it was by reads, `FSMakeDir` and a successful `FSOpenDir`.
- A relative `FSChangeDir` replaces the directory instead of going on from it (`filesystem.cpp:336`).
- Blocks of a base heap that was replaced are ignored when freed, and stay in use.
- Mappings that `FSMount` adds are never replaced and outlive `FSShutdown`; the first one that fits wins.
- `OSCreateThread` on a cancelled `OSThread` leaves the request standing (`thread.cpp:120`).
- `OSIsThreadTerminated` answers 1 for a thread created and not yet resumed, and 0 for one that has
  ended and was not joined (`thread.cpp:330`).
- A calendar time converted from ticks and back may be a microsecond and a tick less.
- `timeout * 32000` in `event.cpp:96` wraps for timeouts that mean for ever.

## 6. Not modelled, and plan

Left out of the modelled components: thread names and thread-specific
slots (nothing here depends on them); alarm tags and user data, and `OSWaitAlarm`, which
polls; save areas and files as bytes (their contents are one value); how the host decides whether a
file exists; DMA copies. The components of the second table above have no state that two calls could
disagree about. The lazy initialisation is modelled where it bites, in `LockedCache`; elsewhere it
is taken as done. Widths of the timeouts' arithmetic are not modelled, as no model has a clock.

Order of what follows, by importance:

1. **Timeouts with their width**, for `OSWaitEventWithTimeout` and the timed spin lock.
2. **The thread's cancellation across lives**, once the repository says what it should be.
