# MemoryLeakDetector: models, checks and proofs

TLA+ models of the leak detector in this repository, the TLC runs that check
them on small instances, and proofs that TLAPS checks for every value of the
constants.

## 1. The system

The analyzer answers one question about a program: which blocks did it hold
when it ended? It has two modes with one engine. In *link-time mode*
(`MemoryAnalyzerCore`) a program is linked with replacements of `operator new`
and `delete`. In *injection mode* (`MemoryAnalyzer`) a library is put into an
unmodified program and replaces the C allocation functions.

| Component | State | Operations | Talks to |
|---|---|---|---|
| `EventQueue` | queue, `stopped`, mutex, condition variable | `push`, `waitAndPop`, `stop` | pushed to by every program thread, popped by the tracker thread |
| `TrackerThread` | the worker thread | `start`, `stop` (stop the queue, join), `run` | pops the queue, calls `Tracker` |
| `Tracker` | map from address to size and stack trace | `onAllocate`, `onDeallocate`, `getLeaks`, `reportLeaks` | called by the tracker thread, and by `shutdown` once that has ended |
| `Runtime` (Core) | `initialized`, `shutdownComplete`, `initOnce` | `initialize`, `shutdown` | static initialiser, `atexit`, `NewDelete` |
| `NewDelete` (Core) | none | `operator new`/`delete` in all variants | `PlatformMemory`, `Runtime`, `EventQueue` |
| `InterceptorGuard`, `TrackingGuard` | thread-local depth, thread-local flag | construct, destruct, test | everything that may allocate inside the analyzer |
| `Session` (injection) | as `Runtime` | `ensureInitialized`, `shutdown` | hooks, `atexit` or `ExitProcess` |
| `MallocHooks`, `NewDeleteHooks` (Linux) | none | `malloc`, `free`, `calloc`, `realloc`, `operator new`/`delete` | `RealAllocator`, `Session`, `EventQueue` |
| `RealAllocator` (Linux) | resolved function pointers, bootstrap buffer and offset, per-thread flag | `malloc`, `free`, `calloc`, `realloc`, `alignedAlloc` | `dlsym`, which may call `calloc` |
| `InterposeHooks` (macOS) | pthread key | as the Linux hooks, and the aligned functions | libSystem |
| `AllocHooks` (Windows) | patch table, patch lock, import tables of all modules | `install`, the hooks, `patchAllModules` after each `LoadLibrary` | loader, `Session` |
| `Launcher` (Windows) | handles, suspended process | quote the command line, create, inject, resume, wait | target process |
| `SymbolResolver` | initialised flag under a mutex | `resolve` (pipe, fork, exec, read, wait) | `addr2line`, `atos`, `dbghelp` |
| `Logging` | one log file | `stream` | `Tracker`'s output in injection mode |

**What is hard.** Program threads announce what they did through a queue, with
no lock around the allocator and the queue, so the order of announcements is
the order of allocations only by the order of two calls in each hook. A
background thread applies them later. Initialisation happens on the first
allocation of any thread and may be raced by others. Shutdown runs while other
threads still allocate. And the analyzer itself allocates, through the
functions it replaces. There is no persistence and no network: nothing is
recovered after a crash, and no message is lost or duplicated.

What makes each component correct:

| Component | Correct if |
|---|---|
| `EventQueue` | no wake-up is lost, events come out in the order they went in, `stop` drains before it ends, nothing goes in afterwards |
| `TrackerThread` | started once, joined before the map is read, ends when it is stopped although it pushes events of its own |
| `Tracker` | the map is what the events amount to; the report is a function of the map |
| `Runtime`, `Session` | one initialisation among racing first calls; one report; nothing comes back to life after it |
| operators and hooks | in the order of the queue, the events describe the heap, while other threads reuse addresses |
| guards | the analyzer announces none of its own allocations, and never waits for a lock it holds |
| `RealAllocator` | the lookup does not recurse, bootstrap blocks do not overlap, and the C library gets back what it handed out and nothing else |
| `AllocHooks` | a module that `LoadLibrary` has returned is hooked, and no allocation is hooked twice |
| `Launcher` | arguments arrive as given; a failed injection leaves no suspended process |
| `SymbolResolver` | each path closes its descriptors and reaps its child |

## 2. The modules

| Module | Models | Kind |
|---|---|---|
| `EventChannel` | what `EventQueue` promises: a FIFO channel that can be closed | abstract specification |
| `EventQueue` | `EventQueue.cpp` and the loop around `waitAndPop`, at the grain of mutex and condition variable | implements `EventChannel` |
| `SyncTracker` | what the pipeline promises: each event takes effect on the map at once, and the map is printed when tracking is over | abstract specification |
| `Tracking` | link-time mode: `NewDelete.cpp`, `Runtime.cpp`, `TrackerThread.cpp`, the map of `Tracker.cpp`; the queue is `EventChannel` | composition, implements `SyncTracker` |
| `InjectionTracking` | injection mode: the hooks of Linux, macOS and Windows with `realloc`, `NewDeleteHooks.cpp`, `Session.cpp`; the rest is `Tracking` | extends `Tracking` |
| `LeakReport` | `Tracker::reportLeaks`: groups, order, totals | one algorithm, against a definition of its result |
| `Reentrancy` | the guards, and the key of `InterposeHooks.cpp`, on the call stacks of all threads | composition, blocks and map left out |
| `Bootstrap` | `RealAllocator.cpp`, on the call stacks of several threads | component |
| `IatPatching` | `Windows/AllocHooks.cpp`: install, the `LoadLibrary` hooks, import table passes | component |
| `CommandLine` | `appendQuoted` of `Launcher.cpp`, and the parser of the target's C runtime | one algorithm, against its inverse |
| `Launcher` | `Windows/Launcher.cpp` with each call that may fail, and `DllMain` | component, extends `CommandLine` |
| `SymbolResolver` | `SymbolResolver::resolve`: pipe, fork, tool, read, wait; other threads that fork | component |
| `Lifetime` | static objects, exit handlers and both `shutdown`s, with the pipeline as `SyncTracker` promises it | composition, uses `SymbolResolver` |
| `Process` | a process from its launch to its end | composes `Launcher`, `Lifetime` and `SymbolResolver` |
| `EventQueueProofs`, `TrackingProofs`, `InjectionTrackingProofs`, `IatPatchingProofs`, `BootstrapProofs`, `ReentrancyProofs`, `LeakReportProofs` | theorems about the modules they are named after | proofs |
| `ProcessProofs` | theorems about `Process`, that is `Launcher`, `SymbolResolver` and `Lifetime` together | proofs |
| `MC...` | model values for the runs | instances |

Every module that models code begins its actions with a section *Mutants*:
variants of definitions with one plausible bug each. They are no part of the
specification. Each property is known to be violated once one of them takes
the place of the original, so no property holds only because the model is too
small for it.

### State and actions against the code

**`EventQueue`.** `queue`, `stopped` are the members; `mutex` has an owner,
`waiting` is the condition variable's wait set. `push` is `PushLock`, then
`PushAccept` or `PushRefuse`, then `PushNotify`, which the code does after
releasing the mutex. `waitAndPop` is `PopLock`, then `PopTake`, `PopClosed`, or
`PopNotReady` and `PopBlock`; wake-ups may be spurious. `stop` is `StopLock`,
`StopSet`, `StopNotify`. The worker pushes too, because the code does (below).

**`Tracking`.** `heap` is the allocator; `pc` and `event` are each thread's
place and `AllocationEvent`; `allocations`, `initialized`, `shutdownComplete`,
`initOnce` are the variables of that name. A step ends wherever another thread
can see the state: allocator, atomics, `once_flag`, queue, join. `New` and
`Delete` are all variants of the operators. `IsInitialized` to `Push` are
`trackAllocation`/`trackDeallocation` with `ensureInitialized` and
`Runtime::initialize` in line. `TakeEvent`, `Handle`, `LeaveLoop` are
`TrackerThread::run`, `CallShutdown` to `Complete` are `Runtime::shutdown`.
The stack trace of an event is one heap block that the tracker thread frees
after the handler, through the replaced `operator delete`, as the code does.
Three things are not in the code: `by` in an event tells who caused it,
`announced` is the map the accepted events amount to, and `allowed` fixes, when
tracking is switched off, what the report may say of each address.

**`InjectionTracking`.** `next` holds the allocation a `realloc` has still to
announce after its deallocation. `realloc` has four outcomes: in place, moved,
freed because the size is 0, and failed, which changes nothing and is no step.
`silent` is history: addresses that `realloc(p, 0)` freed. `Operator` is
`NewDeleteHooks.cpp`: `malloc` and `free` with a size. `Preloaded`,
`Interposed`, `CrtHook` and `HeapHook` are the hooks each platform has; they
announce in the same order and differ in what `realloc(p, 0)` may do.

**`LeakReport`.** The map is a set of disjoint blocks in an address space of
`AddressSpace` bytes, and sums are taken modulo that, as `size_t` arithmetic
is. `Sum` counts the bytes of the address space that lie in some blocks, which is
the sum of their sizes because blocks are disjoint (`SumOfOneMore` in
`LeakReportProofs`). `Meet` is one turn of the first loop, in any order, since a hash table
promises none; `PrintGroup` prints a group that no other one is `Before`.

**`Reentrancy`.** Each thread is a stack of calls. `Nested` says where the
analyzer allocates or frees while it works: inside `call_once`, capturing a
stack trace, inside the queue's critical sections, in the handlers, in the
report, and when an event goes out of scope. Such a call goes through the
replaced operators again, and `depth` and `disabled` decide what it does there.
`darwin` says that the process runs on macOS. There each call first comes to
`SetKey` or `Reenter`, and the first use of a guard on a thread is
`AllocateStorage`, a hooked `malloc` inside that use, and then `StoreStorage`.

**`Bootstrap`.** Again each thread is a stack of calls; `resolved` are the
stored function pointers, `resolving` is the thread-local flag, `offset` the
atomic. `at` is a call's place: "dlsym_again" is a lookup whose `dlsym` has
made its allocation. Sizes and offsets are numbers modulo `Word`, as `size_t` is:
`BootstrapCalloc` reduces the product of count and size, the offset and the sum
it tests, and `wrapped` is history that one of them went round. A place in the
buffer is its offset plus one, and heap addresses lie above all that an offset
can name, so that a pointer outside the buffer is told from a block of the heap.
`held` and `dlBuffer` are the pointers the program and `dlsym` have, which they
free or reallocate on any thread. `dlsym` and the C library's allocator are
external: `dlsym` may call `calloc` on a thread where it has not been used yet,
and may fail to find a function; the allocator may fail, and its `realloc` may
also leave, move or free the block.

**`IatPatching`.** `slots` says what each import slot holds; `list` is the
loader's module list. `patchAllModules` is `Acquire`, then module by module
`SkipSelf` or `Classify`, `PatchSlot` per slot, `Patched`, then `End`. The
loader is external: it lists a module (and its dependencies) first and binds
its slots one at a time under its own lock, which the walk does not take. What
a module brings with it is listed in any order (`Orders`).
`due` is history: modules whose `LoadLibrary` has returned. `refused` are slots
for which `VirtualProtect` failed.

**`CommandLine`.** A string is a sequence of kinds of characters: backslash,
quote, blank and everything else. `Line` is what `wmain` passes to
`CreateProcessW`; `Parsed`, which is external, is how a C runtime reads it.

**`Launcher`.** `launcher` is the place in `wmain` and `injectDll`, one step per
system call, each of which may fail. `path` is "garbage" if `GetFullPathNameW`
has left the array unwritten, which it does for a path that does not fit.
`LoadLibrary` is the remote thread; the address it returns is cut modulo
`Dword`. `Resume` may leave the target suspended, for nobody looks at what
`ResumeThread` returns. The target is external: it may be killed while it is
suspended.

**`SymbolResolver`.** `fds` is the process's descriptor table, `child.fds` that
of the forked child; `pipe` counts pieces of output that are not read yet, the
first piece being the function's name. `resolve` is `MakePipe`, `Fork`,
`CloseWrite`, `Read`s, `ReadEnds`, `CloseRead`, `Reap`, `Parse`, or one of the
failures; `Redirect`, `Unsetenv`, `Exec` are the child. `bystander` is a child
that another thread of the program forked meanwhile: it holds the same ends of
the pipe (one such child at a time). `locked` says that the environment's lock
was held at the fork. `ReadInterrupted`, `ReapInterrupted` and `ReapedElsewhere`
are the waits that fail: for a signal, or because the child was reaped by another
thread or, where `SIGCHLD` is ignored, by the system.
`faults` is history. On Windows `resolve` is one step, `ResolveInProcess`.

**`Lifetime`.** `handlers` is the stack that `exit()` unwinds: destructors of
the program's static objects in the order in which their constructors
returned, the analyzer's own statics in the order in which `doInitialize` first
uses them, and `shutdown`. `Eager` objects allocate in their constructor,
`Lazy` ones later; both free in their destructor. A tracked call is `Test`,
then `Push`, or first `call_once`: `AfterOnce`, or `doInitialize`, one step for
each thing another thread can come between, that is `EnterOnce`,
`ConstructStatic` for each static (its destructor is registered when it is
constructed), `Start` of the worker, `Register` of `shutdown` with `atexit`, and
`Publish` (`initialized = true`). Another call waits for that in `call_once`, but
`exit()` on the main thread does not. `IfInitialized` to `Complete` are
`Runtime::shutdown` and `Session::shutdown`. In mode "atexit" `shutdown` is a
handler; in mode "ExitProcess" any thread can come to it, and
`RealExitProcess` ends the others. Using a static that was destroyed (`Uses`) may
abort the process or not. `raced` is history: "push" is a push on a destroyed
queue, "overlap" two threads in `shutdown` at once, "lateStart" a session begun
while another thread is ending the process: `exit()` destroys a static of the
analyzer, comes to the end or tests `initialized` while `doInitialize` runs, or a
call enters it while a thread is between the end of `shutdown` and
`ExitProcess`.

**`Process`.** In mode "ExitProcess" the program runs once the launcher has
resumed it and `ProcessEnds` is what the launcher waits for; in mode "atexit"
it runs from the start. A thread that reports comes to `Symbolize`, which
hands one frame to `SymbolResolver`.

## 3. The runs

| Run | What it asks | Bounds |
|---|---|---|
| `event_queue` | No lost wake-up, drained at exit, `stop` ends the worker, implements `EventChannel`, which delivers | 3 events, 2 pushers and the worker, 2 stoppers |
| `tracking` | Queue order against heap, map against queue, no correct free blamed, exact report, map not shared, shutdown final, implements `SyncTracker`; a shutdown comes to its report, every call returns | 2 program threads, 2 addresses, 2 sizes, `MaxQueue` 1; 292,422 states |
| `tracker_is_silent` | *violated*: README's guards against the tracker's own events | as `tracking` |
| `injection` | No false leak, each wrong entry has its correction under way, session shuts down once | as `tracking`, with `realloc` and the hooks of all platforms; 1.7 million states |
| `realloc_race` | *violated*: everything outstanding is printed | as `injection` |
| `realloc_to_zero` | *violated*: the map holds what is allocated | as `injection` |
| `leak_report` | The report is one function of the leaks; the total is exact | up to 3 leaks, 8 bytes of address space, 2 traces; 84,696 states |
| `iat_patching` | What `LoadLibrary` returned is patched, one hook per allocation, `LoadLibrary` returns | 2 threads, 2 loadable modules, 1 refusal; 128,403 states |
| `heap_hooks` | *violated*: only modules with a static CRT get heap hooks | the same, 1 thread, no refusal |
| `bootstrap` | Bounded nesting, one request per thread, disjoint blocks, the C library gets its own back once | 2 threads that end and begin anew, a buffer of 3, `size_t` modulo 8, requests of 0, 2 and 9, 2 blocks served, 1 held, 1 heap block; 1,230,348 states |
| `reentrancy` | Counter, flag and key match the stack, no self-deadlock, silence, the first use of a guard ends, the tracker catches up | 2 program threads, 3 calls of the program (2 on macOS), stacks of 4 calls; 123,081 states |
| `process_end` | Exit handlers in the right order, a report unless threads raced, no descriptor, child, handle or suspended target left, arguments arrive, hooks before the program, exit ends | 2 threads, 1 eager and 1 lazy object, 1 frame, 3 descriptors, 2 pieces of output, 806 initial states (argument lists); 527,031 states |

**Why the bounds are enough for the cases that matter.** *Queue:* with two
pushers and the worker's own pushes, a notification can be lost to the other
pusher's event, to a spurious wake-up and to `stop`, and two stoppers meet.
*Pipeline:* the hazards are about one address that changes hands while an
event about it is under way, so two threads, a second address for the stack
trace or the target of `realloc`, and two sizes to tell blocks apart are what a
counterexample needs. `MaxQueue` makes the program wait before it begins a
call; the code's queue has no limit. Calls that are under way and the tracker
thread's own pushes are not held back by it, so that with `MaxQueue` 1 three
events can be queued, and one can be overtaken by another about the same
address; the safety properties of `tracking` are proved for every `MaxQueue`
besides. *Report:* three leaks give a group
of two beside a group of one with the same number of bytes, and a space of
eight bytes is small enough that an overflow would show. *Import tables:* the
modules are a program, the shared CRT (a system module), the analyzer, a
library that uses both the shared CRT and the heap, and one with a CRT of its
own; this is one of each class that `isStaticCrtCarrier` tells apart, less the
debug CRT (see limits below). *Bootstrap:* the buffer is smaller than what two
failing lookups ask for, so requests at, across and past its end occur, and with
`size_t` modulo 8 a request of 9 goes round at once and others do after requests
that did not fit; stacks are cut at 4 calls and the property says that 3
suffice. *Re-entry:* three
calls let two threads race for initialisation and a third call come during
shutdown; on macOS, where there are more steps, two calls still do one or the
other; the guards keep stacks at 3 calls or fewer, which is proved (`NestingEnds`), so 4
is enough to see an unguarded one grow and cuts nothing off. *Process:* the hazards are about one object against the handler
(eager or lazy, before or after it), one other thread that uses memory, exits
or forks, and one frame; three descriptors are what standard output and a pipe
need, and two pieces tell a whole answer from a cut one. Arguments of up to
four characters contain each run of backslashes up to three before a quote, a
blank, another character and the end; pairs show that an argument does not run
into the next. `Base` holds one address whose low bits are not 0 and one
whose low bits are, `Dword` being 4.

**Deadlock** is checked except where the modelled program may come to its end:
`leak_report` stops with the last line, `reentrancy` when the program has made
its calls, `process_end` with the process. In the others, some thread may
always begin a new call or the finished state has a step of its own.

**Fairness.** `EventQueue` and `Tracking` assume that a thread inside a call
runs on, that the tracker thread runs on and that a shutdown that has begun
runs on: the operating system's scheduler gives that to every ready thread.
Nothing is assumed about the program: it need not allocate, free, load or exit.
`Reentrancy` assumes the same; the mutex needs no strong fairness there because
the calls, and with them the contenders, are finitely many. `IatPatching` has
strong fairness for the loader's lock and for `patchLock`, which other threads
may take again and again: a lock that hands out turns in some order gives it.
`Process` assumes that threads inside a call run on, and so do the forked
child, the tool, the loader thread and the launcher. It assumes nothing of
signals, of what the program does, or of other threads' children; the latter
and the lock of the environment are hypotheses of `ExitEnds`, and with either
left out TLC finds an exit that never ends. `InjectionTracking`, `LeakReport`,
`Bootstrap` state safety only and have no fairness.

## 4. What is proved

Theorems hold for any sets of threads, addresses, sizes and events and any
bound on the queue. They rest on the named assumptions about the constants,
which TLC evaluates on each instance: the tracker thread is not one of the
program's threads and the main thread is (`ThreadAssumption`), and the markers
for "no block", "no event", "no report", "no thread" are none of the things
they stand beside (`ValueAssumption`, `EventAssumption`, `ReportAssumption`).
For `IatPatching` they are that a module brings and imports finitely many others
and finitely many functions, and that the CRTs lie in the Windows directory
(`IatAssumption`, `CrtAssumption`); for `Bootstrap`, that heap addresses lie above
what an offset can name, that `dlsym` asks for something, and that there are
finitely many threads, whose requests together are less than a `size_t` holds
(`BootstrapAssumption`); for `Reentrancy`, that the tracker thread is none
of the program's and the main thread is (`ReentrancyAssumption`); for `Process`,
that there are finitely many descriptors, three at least, with standard output
among them (`DescriptorAssumption`), that `addr2line` answers something
(`PiecesAssumption`), that module addresses are above 0 and arguments are
sequences of characters (`LauncherAssumption`), and that an object of the program is none of the analyzer's own and is of one
kind (`LifetimeAssumption`); for `LeakReport` only that there is an address
space (`SpaceAssumption`).

**`EventQueueProofs`.** `TypeCorrect`: the mutex is owned by exactly the thread
in a critical section. `WakeupsAreNotLost` strengthens `NoLostWakeup` by
`ParkedUnready`: a worker about to block has just found the predicate false
while it held the mutex, and nobody changes the queue without the mutex.
`WorkerLeavesDrainedQueue` follows because the worker exits only on an empty
stopped queue and a stopped queue accepts nothing. `MonitorImplementsChannel`:
each critical section is one step of `EventChannel`, everything else a stutter.
`Tracking` may therefore use the channel.

**`TrackingProofs`.** The argument in the order in which one needs it:

1. `TypeCorrect`.
2. `LifeCycle`: `LifeInv` is `InitInv` (the `once_flag` lets one thread in; the
   tracker thread is unborn until then) and `ShutdownInv` (the main thread's
   place in `shutdown` determines `initialized`, `stopped`, whether the tracker
   thread has left, and the report).
3. `MapLagsByQueue`: the map plus the events still queued is `announced`.
   `ReportIsComplete` follows: when the tracker thread has left, the queue is
   empty, so the report is `announced`. So does `PipelineIsSynchronous`, the
   refinement of `SyncTracker` with `tracked <- announced` and
   `closed <- stopped` (its step is the lemma `SyncStep`, which the injected
   library uses again); and `MapIsNotShared` follows from `LifeInv`.
4. `CallsOwnTheirBlocks`: `OwnInv` says that two calls never hold the same
   address and that the tracker thread's own block is nobody else's. It is what
   lets the order of two calls in each operator (obtain, then announce;
   announce, then free) stand in for a lock: without it `QueueOrderMatchesHeap`
   is not inductive. `EventsFollowTheHeap` holds while tracking is not
   `Latched`.
5. At the moment of `Latch`, step 4 gives that `announced` is `allowed`
   (`LatchAllows`); afterwards the only calls that still reach the queue are
   those that were under way then (`MapStaysAllowed`, `AllowedInv`). With 3 this
   is `LeakReportIsExact`.
6. `FreesMeetTheirEntries`: when a free of the program is pushed, `announced` has
   the block, and when one of the tracker thread's own is, it has nothing at that
   address (`FreeInv`); what the free will meet is then settled by the event
   before it about the same address, or by the map (`KnownInv`). For the
   program's frees this is `CorrectProgramsAreNotBlamed`. For the tracker's own
   it is `OwnEventsDoNoHarm`: by the time such an event is handled the address
   may be a block of the program, but the event is still met before that
   block's allocation is, so no entry is erased. Events join the queue
   while others leave it, so the invariant speaks of every place in it.
7. `NothingRevivesThePipeline`: once `shutdownComplete` is set no thread is on
   its way to `start`, and a push meets a stopped queue (`NoNewPush` says where
   pushes can still come from).

**`IatPatchingProofs`.** `TypeCorrect` says who holds the loader's and the
patcher's lock. A slot is `Settled` if it holds a hook, was refused, or is a
heap slot of a module without a static CRT. `EveryLoadedModuleIsPatched` needs
three things: until `install` nothing happens (`StartInv`); what a thread loads
is listed and bound before its pass begins, and slots that are bound and hooked
stay so (`Loading`, `NothingIsUndone`); and behind a pass's place every slot of
its modules is settled (`Passing`, `Patching`). The delicate part is the
verdict on the heap: it is reached from slots that another thread's pass may
have hooked already, so `Patching` says that where it leaves the heap slots of
a static CRT out, they are hooked. `OneHookPerAllocation` rests on `SystemInv`:
a later pass may take a user of the shared CRT for the owner of a static one
(`heap_hooks`), but never a module in the Windows directory, and with
`CrtAssumption` the heap calls under the CRT's own `malloc` are all there.

**`BootstrapProofs`.** The fourteen actions are a few kinds of steps for the
stacks (`StepKinds`), and lemmas about sequences say what each kind does to a
stack. `Nested` is the invariant that matters: every call but the innermost is
a lookup that has made its allocation, every call but the outermost is the
`calloc` of a `dlsym`, at most one looks up `calloc`, and `resolvingCalloc` is
set for that one. `LookupDoesNotRecurse` follows at once: of four calls, the
second and third would both look up `calloc`. `DlsymAsksOncePerThread` counts
the lookups that have made their request (`Asked`): the offset is at most
`DlSize` for each, a served request adds one of them, and none is taken back
before the pointer is stored. For `BlocksDoNotOverlap` every block ends at or
below the offset; the offset keeps growing with requests that do not fit, which
wastes the rest, until it goes round (`wrapped`). That it never does while
`calloc` can be found is the count of `DlsymAsksOncePerThread` again: only
`dlsym`'s requests come to the buffer then, and all of them together do not go
round. `RealFreesItsOwn` needs to know who holds each pointer: `Owned` says
that whatever the program, `dlsym` or a call under way holds is a block of the C
library that it has not had back, a place in the buffer or a loose pointer
(`IsLoose`), and that no block of the C library has two holders. A `realloc` of a
block of the buffer that becomes a `malloc`, and `dlsym`'s buffer, which comes
from either allocator and is freed at the end of its thread, are what makes it
long. That a call past its first step has been tested (`AllChecked`) is a lemma
of it.

**`InjectionTrackingProofs`.** `TrackingProofs` states the steps of the pipeline
as lemmas about what they leave alone (`Quiet`, `SameCalls`), so that the
injected library uses them again: each of its steps is one of the pipeline's,
one of a hook (`HookStep`), or `SessionLatch` (`InjectionSteps`). The life cycle,
the lag of the map behind the queue and the completeness of the report carry
over (`SessionLifeCycle`, `InjectedMapLagsByQueue`, `SessionReportIsComplete`),
and so does the refinement: `SessionIsSynchronous`, by which every malloc, free
and realloc of the injected library is a step of `SyncTracker` or none.
What does not carry over is the order of queue and heap: `realloc` announces a
deallocation late (`realloc_race`). In its place:

1. `HooksOwnTheirBlocks`: `HooksInv` says that a call has its block to itself
   *from the moment realloc has moved it on*, and that what it still has to
   announce is true of the heap. The address it has left belongs to nobody, and
   that is the window.
2. `StaleEntriesAreCorrected`: an entry of `announced` that is not true of the
   heap has its correction under way (`Unannounced`), or `realloc(p, 0)` made it.
   Each of the five hook steps disturbs the entries of one or two addresses,
   and leaves behind an event in hand for each.
3. At `SessionLatch` this puts every entry into `allowed`; afterwards pushes can
   only come from the calls that were under way (`MapStaysListed`), and with the
   complete report this is `NoBlockIsBlamed`.

`SessionStaysDown` follows from `LifeInv` as `NothingRevivesThePipeline` does.

The runs show two properties of the repository's words violated by `realloc`.
Three theorems say that there is nothing more to it:

4. `SilentFreesAloneAreKept`: where `realloc(p, 0)` has left nothing behind
   (`silent = {}`), `MapHoldsOnlyAllocated` holds. It follows from 2 and the lag of
   the map behind the queue.
5. `MovesAloneLoseBlocks`: take any set of addresses from which no `realloc`
   moves a block. At these the report is exact, whatever is moved elsewhere or
   moved to them. Then no late announcement is about such an address (`InTurn`),
   so a block in use there is in `announced` or its allocation is on its way
   (`ThereInv`), the converse of 2; and after `SessionLatch` no call takes a
   block that must be reported out of the map (`KeptInv`). For the false leaks
   it rests on `NoBlockIsBlamed`.
6. `ReportIsExactWithoutMoves` is 5 for all addresses: without moves,
   `PrintsEverythingOutstanding` and `ReportExact` hold of injection mode too.

These have a hypothesis about the behaviour, `[][~MovesFrom(A)]`; a program that
never grows a block, or whose blocks grow in place, satisfies it. What
`realloc(p, 0)` freed in silence remains the exception that `allowed` makes of
it.

**`ReentrancyProofs`.** `TypeOK` of `Reentrancy` counts guards over whole stacks
and is not inductive: nothing in it bounds a stack. `Inv` says *which* stacks
there are: `Outer`, `Middle` and `Inner` are the three calls a stack can have,
and `Held` gives the guards of each. With stacks of at most three calls the
count is a sum of three numbers, and the counter, the flag, the key, the mutex
and the `once_flag` are functions of the places (`GuardInv`). Each action comes
down to one of a few kinds of stack step (`Alters`: a call goes on, returns, or
makes another). From `Inv` follow `GuardsAreBalanced`, `NoThreadBlocksItself`,
`AnalyzerIsSilent`, `GuardStorageIsFound`, and `NestingEnds`, by which the run's
`MaxDepth` is no restriction.

**`ProcessProofs`.** The three parts share a few variables only, so there are
three invariants, and a lemma for each that says which steps of the whole are
steps of the part, all others leaving it alone (`LauncherPart`, `ResolverPart`,
`LifetimePart`).

- *Launcher.* `LauncherInv`: what the launcher takes for a success is one, or
  the target is dead. The truncated address and the exit code of a killed
  loader thread are what makes this less than obvious. `TargetsAreHooked`,
  `LauncherCleansUp`.
- *Command line.* `QuotingIsUndone`: the parser reads from the line the arguments
  it was made of, for any number of them and of any length. The parser is a
  recursive function; that there is one, and that it goes on from a prefix of
  the line as its step says (`Reading`), is proved with the least position
  where it would not. Then one goes through the line: `Within` says what the
  parser has when it has read an argument up to a character, with the
  backslashes it holds back against those that `appendQuoted` has doubled, and
  `Between` what it has between two arguments. The delicate case is a run of
  backslashes: whether it runs into a quote decides about doubling, and the
  parser knows only at its end. `TargetsGetTheirArguments` is this for each
  target that is created, with `LauncherAssumption` and the launcher's steps.
- *Resolver.* `FdInv` says who holds which end of the pipe, `CountInv` that what
  was written is in the pipe or has been read, `DrainedInv` that the end of file
  came when all was written. With `ChildInv` they give `ResolverCleansUp` and
  `ResolverAnswers`, for any number of descriptors and pieces.
- *Lifetime.* `HandlersInv`: the handlers are distinct, `shutdown` lies above all
  of the analyzer's own statics, and none of those that `doInitialize` has still
  to construct (`Ahead`) is there. `OwnersInv`: what an object acquired in
  its constructor is in the tracker's map only while the object is registered
  above `shutdown`, or is about to be, or is being destroyed in a call that will
  be tracked. `OnceInv` and
  `RaceInv` say where threads are when tracking is off, that two in `shutdown` at
  once are recorded, and that a thread about to end the process has reported or
  was overtaken. `PendingInv`: from `Register` on (`Armed`) `shutdown` is still to
  come exactly as long as it has to report, unless "lateStart" is recorded; and
  once that is, the program's own static objects are no longer in the map.
  `AliveInv`: the statics constructed so far can be used. From these follow
  `StaticOwnersAreNotBlamed`, `EndsWithReport`, and, as an action property,
  `NewCallsFindTheQueue`: while `initialized` holds, `shutdown` is still to come,
  so the queue below it is alive. The exceptions are those of the properties, and
  `StaticOwnersAreNotBlamed` has none.

**`LeakReportProofs`.** `ReportInv` says what the loops have made of the leaks
met so far. `GroupOf` is the group a leak should have, and `MeetGroups` that one
turn of the first loop, whichever leak it meets, makes of the right groups the
right groups. `TotalIsExact` is inductive with `SpaceInv`: disjoint blocks lie in
the address space, so their bytes are fewer than `AddressSpace` (`SumFits`), and
neither the total nor `size * count` wraps (`BytesInv`). `PrintedInv` is the second
loop: the lines printed are those of the groups that are gone, each before the
next and before all that are left; two groups never have the same
representative (`GroupsDiffer`), so the comparator leaves no choice. In the end
this is `ReportIsDeterministic`, for any number of leaks; `TotalNeverWraps`.

**Only model-checked.** Liveness (`StopEndsWorker`, `ChannelDelivers`,
`ShutdownReports`, `CallsReturn`, `LoadReturns`, `TrackerCatchesUp`,
`ExitEnds`), which needs fairness and ENABLED and is beyond the prover. Every
other property of the runs that TLC finds to hold is stated by a theorem.

## 5. Where the code and its words disagree

- **`tracker_is_silent`** The event popped in `TrackerThread::run` is destroyed
  at the end of the loop body (`TrackerThread.cpp:58`), under neither guard.
  Freeing its stack trace goes through the replaced `operator delete`, which
  pushes a `Deallocate` event; the tracker then meets a block it does not know
  and prints `[FREE?]`. `README.md:30` of the repository says the guards prevent
  this. The runs `tracking` and `reentrancy` show that no entry is damaged and
  that the tracker does not feed itself for ever: deallocations carry no trace.
  `OwnEventsDoNoHarm` proves that none of these events ever finds an entry to
  erase.
- **`realloc_race`** `realloc` announces the old block's deallocation after the
  block is gone (`MallocHooks.cpp:93`). If another thread gets the address and
  announces it in between, the late deallocation erases the entry of a live
  block, and a real leak is missing from the report. The opposite error does
  not happen: `NoFalseLeak` holds, but for the next case. Nor are other
  addresses concerned: `MovesAloneLoseBlocks`.
- **`realloc_to_zero`** Where `realloc(p, 0)` frees `p` and returns null, as in
  glibc, nothing is announced (`MallocHooks.cpp:92`) and `p` is reported. Where that
  has not happened the map holds what it should: `SilentFreesAloneAreKept`.
- **`heap_hooks`** `isStaticCrtCarrier` compares import slots with the real
  functions only (`AllocHooks.cpp:401`). On the second pass a module's CRT
  slots hold hooks, so a module that uses the shared CRT and the heap looks
  like one with a static CRT, and its heap calls are hooked, contrary to
  `AllocHooks.cpp:25-27`. `AnnouncedOnce` still holds for the modules of the
  run, because system modules are left out.

Limits seen while modelling, without a run:

- The Windows patch table is filled once, at injection, from the CRTs loaded by
  then (`AllocHooks.cpp:241`). If a later library brings the debug CRT, its
  functions are never hooked, although the header comment
  (`AllocHooks.cpp:13-14`) and `README.md:68` speak of modules loaded later
  without that exception. The constants of `MCIatPatching` include such a
  library, `debug`; the runs do not load it.
- The bootstrap buffer places a block where the last one ended
  (`RealAllocator.cpp:45`): after a request of odd size, blocks are not aligned.
- **`calloc` that cannot be found.** Then line 98 serves every `calloc` of the
  program from the bootstrap buffer, for good, although the comment
  (`RealAllocator.cpp:22-32`) has it used only while `calloc` is being looked up. The product of
  count and size (lines 91 and 98), the offset and the sum tested (lines 40 and
  42) are `size_t` and go round: after `calloc(1, SIZE_MAX)`, which fails, the next
  request passes the test and gets memory that begins before the buffer; and a
  product that goes round gets a block smaller than was asked for. A request of
  size 0 at the very end of the buffer gets the address just past it, which
  `isInternalBootstrapPointer` does not recognise. `Bootstrap` has all three;
  `ServedBlocksAreDisjoint` and `RealGetsItsOwn` except them (`wrapped`,
  `IsLoose`) and say that each takes a `calloc` that is missing. In the model
  such pointers are no addresses of the heap; in the code they may be.
- **`ResumeThread` fails** (`Launcher.cpp:145`): nobody looks, the target stays
  suspended, and the launcher waits for it until somebody kills it.
- **A late push.** `NoNewCallTouchesDestroyed` is about calls that test
  `initialized` now. One that tested it before `shutdown` and is overtaken by
  all of it and by the destructors pushes to a destroyed queue. `Lifetime`
  records that as "push" in `raced`; `NewDelete.cpp:34-45` says that such an
  event is dropped, which holds only if the test comes late enough.
- **Two threads in `ExitProcess`.** `Session.h:22-27` says that it is "safe to
  call even if" tracking never began and that only the first call does
  anything. With two callers at once both may pass the test, and join the same
  thread; or the second finds `initialized` false and ends the process before
  the first has reported ("overlap" in `raced`). One that comes to `ExitProcess`
  while nothing is tracked yet, and is followed by another thread's first
  allocation, ends the process with the tracker thread unjoined ("lateStart").
- **`exit()` overtakes `doInitialize`.** If a thread allocates for the first time
  while the main thread is in `exit()`, or just before, the destructors of the
  statics it has constructed so far may run under its hands (`Session.cpp:52-57`);
  or `shutdown`, already registered, finds `initialized` false and returns
  (`Session.cpp:64`, `:75`), after which the destructor of the `TrackerThread`
  ends the process with `std::terminate`, or the process ends without a report;
  or the call is told, once `initialized` is set, that the analyzer is there, and
  pushes to a destroyed queue. `Runtime.cpp:69-83` has the same order, but in
  link-time mode the main thread's static initialiser has been through
  `call_once` before `main`. All of these are "lateStart" in `raced`, and
  `ReportUnlessRaced` and `NoNewCallTouchesDestroyed` except them;
  `StaticOwnersAreFreed` does not.
- **Objects that allocate only later.** `StaticOwnersAreFreed` holds for objects
  that allocate in their constructor. One that is constructed before tracking
  begins and allocates later is destroyed after the report and is in it,
  although it frees what it has; on Linux `init_priority` prevents that in
  link-time mode, on macOS and in injection mode nothing does.
- **Standard output closed.** If the program was started so, `pipe` may hand out
  descriptor 1, and the child closes it after `dup2` (`SymbolResolver.cpp:215`):
  no frame is resolved then.
- **Signals.** A handler without `SA_RESTART` can cut `read` or `waitpid` short:
  the answer may then be half of one, or the child stays a zombie. If `SIGCHLD` is
  ignored, or another thread of the program waits for any child, `waitpid` finds
  none: its status keeps the 0 it was given (`SymbolResolver.cpp:257-260`), and what
  a failed tool wrote is taken for an answer ("reaped" in `faults`).
- **The tracker thread on macOS.** Its first use of a guard is in `waitAndPop`
  (`EventQueue.cpp:42` by way of `InterceptorGuard.cpp:8`), outside any hook, so
  the storage allocated for it is announced like a block of the program, against
  `InterposeHooks.cpp:15-21`.

## 6. What is not modelled, and why

- **`PlatformStackTrace::capture` and `format`**, text of the log lines, symbols:
  calls of the platform and formatting, no state.
- **`Logging`**: opens one file. **Samples, tests, build files**: read, not
  modelled.
- **A forked copy of a tracked program** that does not run another one: it has
  the hooks and a copy of the session, but no tracker thread; what `join` of a
  thread that is not there does is left open by POSIX. The models follow one
  process.
- **The end of a thread on macOS**, when the storage of its thread_locals is
  freed, through the hook.
- **Failed allocations** in `operator new` and the hooks: they announce nothing
  and leave the state as it was.
- **Programs that free wrongly** (twice, or what they do not own): the tracker
  only prints a line for them; the models' programs free what they hold.
- **More than one frame**: each call of `resolve` begins and ends with the same
  descriptors (`ResolveLeavesNoTrace`), so the next one is as the first, except
  that an interrupted wait leaves a zombie behind.

## 7. Plan

The modules, runs and theorems that were planned are there. What remains open
is the agreement of `Lifetime` with the steps of `Tracking` that it abbreviates:
both are translated from the same lines, and `Lifetime` takes the pipeline as
`SyncTracker` promises it, which `PipelineIsSynchronous` justifies, but that its
own steps refine those of `Tracking` is neither checked nor proved. Liveness
stays with TLC.

The number of runs is kept small: questions about one model are asked in one
run.
