------------------------------ MODULE Tracking ------------------------------
(***************************************************************************)
(* The tracking pipeline of a program linked with MemoryAnalyzerCore: the  *)
(* replaced operator new and delete (NewDelete.cpp) on the program's       *)
(* threads, the self-initialising Runtime (Runtime.cpp), the tracker       *)
(* thread (TrackerThread.cpp) with the Tracker's map (Tracker.cpp), and    *)
(* the shutdown that prints the leak report.                               *)
(*                                                                         *)
(* The event queue between them is the channel of EventChannel.tla, which  *)
(* EventQueue.tla implements.  A step ends wherever the code touches state *)
(* that another thread can touch too: the allocator, one of the atomics,   *)
(* the once_flag, the queue.                                               *)
(***************************************************************************)
EXTENDS Naturals, Sequences, FiniteSets

CONSTANTS
  Program,   \* the program's threads
  Main,      \* the one that runs static initialisers and exit handlers
  Tracker,   \* the thread of TrackerThread
  Addr,      \* addresses the allocator hands out
  Size,      \* block sizes
  None,      \* no block, no entry in the map, or a size the caller left out
  Internal,  \* a block the analyzer allocated for itself
  NoEvent,   \* no event in hand
  NoReport,  \* no report has been printed
  MaxQueue   \* bound: the program waits while this many events are queued

ASSUME ThreadAssumption == Main \in Program /\ Tracker \notin Program

ASSUME ValueAssumption ==
  /\ None \notin Addr \cup Size
  /\ Internal \notin Size \cup {None}
  /\ MaxQueue \in Nat

\* What the map can hold for an address.
Entry == Size \cup {None}

\* AllocationEvent without its stack trace.  "by" is not in the code: it tells
\* the events of the program from those the tracker thread causes itself.
Event == [type : {"Allocate", "Deallocate"}, address : Addr, size : Entry,
          by : {"program", "tracker"}]

ASSUME EventAssumption == NoEvent \notin Event

ASSUME ReportAssumption == NoReport \notin [Addr -> Entry]

Threads == Program \cup {Tracker}

VARIABLES
  heap,              \* each address: size of the block there, Internal, None
  pc,                \* where each thread is
  event,             \* the event each thread is building or handling
  trace,             \* the block that holds the popped event's stack trace
  queue, stopped,    \* the event queue
  allocations,       \* Tracker::allocations
  initialized,       \* Runtime::initialized
  shutdownComplete,  \* Runtime::shutdownComplete
  initOnce,          \* the once_flag of Runtime::initialize
  report,            \* the leak report, once printed
  announced,         \* history: the map the accepted events amount to
  allowed            \* history: what the report may say of each address

queueVars == <<queue, stopped, announced>>
lifeVars == <<initialized, shutdownComplete, initOnce>>
reportVars == <<report, allowed>>
vars == <<heap, pc, event, trace, queueVars, allocations, lifeVars, reportVars>>

Ch == INSTANCE EventChannel

\* In a call of trackAllocation or trackDeallocation, the event not yet pushed.
\* "track", "latched": the two loads of ensureInitialized.  "enter": the load
\* in Runtime::initialize.  "once": call_once.  "start", "publish": in its
\* body.  "recheck": ensureInitialized's return value.  "push": the push.
Tracking == {"track", "latched", "enter", "once", "start", "publish",
             "recheck", "push"}

\* "real": about to give a block back to the allocator.
\* "shutdown" to "complete": the steps of Runtime::shutdown, in their order.
\* "unborn", "wait", "handle", "exited": the tracker thread.
PC == Tracking \cup
      {"idle", "real", "shutdown", "latch", "stop", "join", "report",
       "complete", "unborn", "wait", "handle", "exited"}

Init ==
  /\ heap = [a \in Addr |-> None]
  /\ pc = [t \in Threads |-> IF t = Tracker THEN "unborn" ELSE "idle"]
  /\ event = [t \in Threads |-> NoEvent]
  /\ trace = None
  /\ Ch!Init
  /\ allocations = [a \in Addr |-> None]
  /\ initialized = FALSE
  /\ shutdownComplete = FALSE
  /\ initOnce = "fresh"
  /\ report = NoReport
  /\ announced = [a \in Addr |-> None]
  /\ allowed = [a \in Addr |-> {}]

Goto(t, place) == pc' = [pc EXCEPT ![t] = place]

Has(t, a) == event[t] # NoEvent /\ event[t].address = a

\* What an event makes of the map entry of its address.
Effect(e) == IF e.type = "Allocate" THEN e.size ELSE None

\* The program frees a block once, and only after the call that allocated it
\* has returned.
MayFree(a) == heap[a] \in Size /\ \A t \in Program : ~Has(t, a)

\* The end of trackAllocation or trackDeallocation: operator new returns, and
\* operator delete goes on to free the block.
Return(t) ==
  IF event[t] # NoEvent /\ event[t].type = "Deallocate"
  THEN Goto(t, "real") /\ UNCHANGED event
  ELSE Goto(t, "idle") /\ event' = [event EXCEPT ![t] = NoEvent]

\* A tracking call for a is under way, its event not yet in the queue.
Undecided(a) == \E t \in Threads : pc[t] \in Tracking /\ Has(t, a)

\* A delete of a is under way, its event already in the queue.
Freed(a) == \E t \in Threads : pc[t] = "real" /\ Has(t, a)

\* The block the program has at a, once the calls under way are let finish.
Live(a) == IF heap[a] \in Size /\ ~Freed(a) THEN heap[a] ELSE None

-----------------------------------------------------------------------------
(* Mutants: actions below with one plausible bug each.  They are no part   *)
(* of the specification; they show which property notices the bug.         *)

\* operator delete frees the block before it queues the event.
DeleteFreesFirst(t, a, s) ==
  /\ pc[t] = "idle"
  /\ Len(queue) < MaxQueue
  /\ MayFree(a)
  /\ s \in {None, heap[a]}
  /\ heap' = [heap EXCEPT ![a] = None]
  /\ event' = [event EXCEPT ![t] = [type |-> "Deallocate", address |-> a,
                                    size |-> s, by |-> "program"]]
  /\ Goto(t, "track")
  /\ UNCHANGED <<trace, queueVars, allocations, lifeVars, reportVars>>

\* The body of call_once ends without completing the once_flag.
PublishWithoutDone(t) ==
  /\ pc[t] = "publish"
  /\ initialized' = TRUE
  /\ Goto(t, "recheck")
  /\ UNCHANGED <<heap, event, trace, queueVars, allocations, shutdownComplete,
                 initOnce, reportVars>>

\* A queue of one place that drops what does not fit.
PushDropsWhenFull(t) ==
  /\ pc[t] = "push"
  /\ LET full == stopped \/ queue # <<>>
     IN  /\ IF full THEN UNCHANGED <<queue, stopped>> ELSE Ch!Push(event[t])
         /\ announced' = IF full THEN announced
                         ELSE [announced EXCEPT ![event[t].address] =
                                                  Effect(event[t])]
  /\ Return(t)
  /\ UNCHANGED <<heap, trace, allocations, lifeVars, reportVars>>

\* push() without its check of the stopped flag.
PushWhenStopped(t) ==
  /\ pc[t] = "push"
  /\ queue' = Append(queue, event[t])
  /\ announced' = [announced EXCEPT ![event[t].address] = Effect(event[t])]
  /\ Return(t)
  /\ UNCHANGED <<heap, trace, stopped, allocations, lifeVars, reportVars>>

\* onDeallocate does not erase the entry.
HandleKeepsEntry ==
  /\ pc[Tracker] = "handle"
  /\ allocations' = IF event[Tracker].type = "Deallocate" THEN allocations
                    ELSE [allocations EXCEPT ![event[Tracker].address] =
                                               Effect(event[Tracker])]
  /\ Goto(Tracker, "wait")
  /\ event' = [event EXCEPT ![Tracker] = NoEvent]
  /\ heap' = [a \in Addr |-> IF a = trace THEN None ELSE heap[a]]
  /\ trace' = None
  /\ UNCHANGED <<queueVars, lifeVars, reportVars>>

\* waitAndPop returns nullopt as soon as the queue is stopped.
LeaveUndrained ==
  /\ pc[Tracker] = "wait"
  /\ stopped
  /\ Goto(Tracker, "exited")
  /\ UNCHANGED <<heap, event, trace, queueVars, allocations, lifeVars,
                 reportVars>>

\* shutdown() does not reset initialized.
LatchStaysInitialized ==
  /\ pc[Main] = "latch"
  /\ allowed' = [a \in Addr |-> IF Undecided(a) THEN {Live(a), None}
                                ELSE {Live(a)}]
  /\ Goto(Main, "stop")
  /\ UNCHANGED <<heap, event, trace, queueVars, allocations, lifeVars, report>>

\* TrackerThread::stop joins a thread it has not asked to stop.
StopForgotten ==
  /\ pc[Main] = "stop"
  /\ Goto(Main, "join")
  /\ UNCHANGED <<heap, event, trace, queueVars, allocations, lifeVars,
                 reportVars>>

\* TrackerThread::stop does not join.
JoinForgotten ==
  /\ pc[Main] = "join"
  /\ Goto(Main, "report")
  /\ UNCHANGED <<heap, event, trace, queueVars, allocations, lifeVars,
                 reportVars>>

-----------------------------------------------------------------------------
(* operator new and operator delete                                        *)

\* PlatformMemory::allocate succeeds; trackAllocation starts.
New(t, a, s) ==
  /\ pc[t] = "idle"
  /\ Len(queue) < MaxQueue
  /\ heap[a] = None
  /\ heap' = [heap EXCEPT ![a] = s]
  /\ event' = [event EXCEPT ![t] = [type |-> "Allocate", address |-> a,
                                    size |-> s, by |-> "program"]]
  /\ Goto(t, "track")
  /\ UNCHANGED <<trace, queueVars, allocations, lifeVars, reportVars>>

\* trackDeallocation starts, before the block is given back.  An unsized
\* delete passes 0, a sized one the size of the block.
Delete(t, a, s) ==
  /\ pc[t] = "idle"
  /\ Len(queue) < MaxQueue
  /\ MayFree(a)
  /\ s \in {None, heap[a]}
  /\ event' = [event EXCEPT ![t] = [type |-> "Deallocate", address |-> a,
                                    size |-> s, by |-> "program"]]
  /\ Goto(t, "track")
  /\ UNCHANGED <<heap, trace, queueVars, allocations, lifeVars, reportVars>>

\* Runtime::initialize() called for its own sake: by RuntimeInitializer, at
\* whatever point of the static initialisation it comes, or by the program.
CallInitialize(t) ==
  /\ pc[t] = "idle"
  /\ Goto(t, "enter")
  /\ UNCHANGED <<heap, event, trace, queueVars, allocations, lifeVars,
                 reportVars>>

\* PlatformMemory::deallocate.  The tracker thread frees the stack trace of the
\* event it has handled and asks for the next one.
RealFree(t) ==
  /\ pc[t] = "real"
  /\ heap' = [heap EXCEPT ![event[t].address] = None]
  /\ event' = [event EXCEPT ![t] = NoEvent]
  /\ IF t = Tracker
     THEN Goto(t, "wait") /\ trace' = None
     ELSE Goto(t, "idle") /\ UNCHANGED trace
  /\ UNCHANGED <<queueVars, allocations, lifeVars, reportVars>>

-----------------------------------------------------------------------------
(* ensureInitialized() and Runtime::initialize()                           *)

IsInitialized(t) ==
  /\ pc[t] = "track"
  /\ Goto(t, IF initialized THEN "push" ELSE "latched")
  /\ UNCHANGED <<heap, event, trace, queueVars, allocations, lifeVars,
                 reportVars>>

IsShutdownComplete(t) ==
  /\ pc[t] = "latched"
  /\ IF shutdownComplete
     THEN Return(t)
     ELSE Goto(t, "enter") /\ UNCHANGED event
  /\ UNCHANGED <<heap, trace, queueVars, allocations, lifeVars, reportVars>>

Initialize(t) ==
  /\ pc[t] = "enter"
  /\ Goto(t, IF shutdownComplete THEN "recheck" ELSE "once")
  /\ UNCHANGED <<heap, event, trace, queueVars, allocations, lifeVars,
                 reportVars>>

\* call_once: one thread runs the body, the others wait for it.
CallOnce(t) ==
  /\ pc[t] = "once"
  /\ \/ /\ initOnce = "fresh"
        /\ initOnce' = "running"
        /\ Goto(t, "start")
     \/ /\ initOnce = "done"
        /\ Goto(t, "recheck")
        /\ UNCHANGED initOnce
  /\ UNCHANGED <<heap, event, trace, queueVars, allocations, initialized,
                 shutdownComplete, reportVars>>

\* TrackerThread::start.
StartTracker(t) ==
  /\ pc[t] = "start"
  /\ pc' = [pc EXCEPT ![t] = "publish", ![Tracker] = "wait"]
  /\ UNCHANGED <<heap, event, trace, queueVars, allocations, lifeVars,
                 reportVars>>

\* initialized = true, and call_once returns.
Publish(t) ==
  /\ pc[t] = "publish"
  /\ initialized' = TRUE
  /\ initOnce' = "done"
  /\ Goto(t, "recheck")
  /\ UNCHANGED <<heap, event, trace, queueVars, allocations, shutdownComplete,
                 reportVars>>

\* Without an event this is initialize() returning to its caller.
Recheck(t) ==
  /\ pc[t] = "recheck"
  /\ IF initialized /\ event[t] # NoEvent
     THEN Goto(t, "push") /\ UNCHANGED event
     ELSE Return(t)
  /\ UNCHANGED <<heap, trace, queueVars, allocations, lifeVars, reportVars>>

\* EventQueue::push, which drops the event if the queue is stopped.
Push(t) ==
  /\ pc[t] = "push"
  /\ Ch!Push(event[t])
  /\ announced' = IF stopped THEN announced
                  ELSE [announced EXCEPT ![event[t].address] = Effect(event[t])]
  /\ Return(t)
  /\ UNCHANGED <<heap, trace, allocations, lifeVars, reportVars>>

Call(t) ==
  \/ IsInitialized(t) \/ IsShutdownComplete(t) \/ Initialize(t)
  \/ CallOnce(t) \/ StartTracker(t) \/ Publish(t) \/ Recheck(t)
  \/ Push(t) \/ RealFree(t)

-----------------------------------------------------------------------------
(* TrackerThread::run                                                      *)

\* waitAndPop returns an event.  The copy of a non-empty stack trace is a heap
\* block, allocated under waitAndPop's InterceptorGuard and so not tracked.
TakeEvent ==
  /\ pc[Tracker] = "wait"
  /\ Ch!Take
  /\ event' = [event EXCEPT ![Tracker] = Head(queue)]
  /\ Goto(Tracker, "handle")
  /\ \/ UNCHANGED <<heap, trace>>
     \/ /\ Head(queue).type = "Allocate"
        /\ \E b \in Addr :
             /\ heap[b] = None
             /\ heap' = [heap EXCEPT ![b] = Internal]
             /\ trace' = b
  /\ UNCHANGED <<announced, allocations, lifeVars, reportVars>>

\* Tracker::onAllocate or onDeallocate, and then the end of the loop body: the
\* event is destroyed outside both guards, so that freeing its stack trace goes
\* through the replaced operator delete like a free of the program.
Handle ==
  /\ pc[Tracker] = "handle"
  /\ allocations' = [allocations EXCEPT ![event[Tracker].address] =
                                          Effect(event[Tracker])]
  /\ IF trace = None
     THEN /\ Goto(Tracker, "wait")
          /\ event' = [event EXCEPT ![Tracker] = NoEvent]
     ELSE /\ Goto(Tracker, "track")
          /\ event' = [event EXCEPT ![Tracker] =
                         [type |-> "Deallocate", address |-> trace,
                          size |-> None, by |-> "tracker"]]
  /\ UNCHANGED <<heap, trace, queueVars, lifeVars, reportVars>>

\* waitAndPop returns nullopt.
LeaveLoop ==
  /\ pc[Tracker] = "wait"
  /\ Ch!Closed
  /\ Goto(Tracker, "exited")
  /\ UNCHANGED <<heap, event, trace, queueVars, allocations, lifeVars,
                 reportVars>>

TrackerStep == TakeEvent \/ Handle \/ LeaveLoop

-----------------------------------------------------------------------------
(* Runtime::shutdown                                                       *)

\* Called by exit(), through atexit; the program may also call it itself.
CallShutdown ==
  /\ pc[Main] = "idle"
  /\ Goto(Main, "shutdown")
  /\ UNCHANGED <<heap, event, trace, queueVars, allocations, lifeVars,
                 reportVars>>

IfInitialized ==
  /\ pc[Main] = "shutdown"
  /\ Goto(Main, IF initialized THEN "latch" ELSE "idle")
  /\ UNCHANGED <<heap, event, trace, queueVars, allocations, lifeVars,
                 reportVars>>

\* From here on new calls are not tracked.  A call that is under way may still
\* be, so for its address the report may go either way.
Latch ==
  /\ pc[Main] = "latch"
  /\ initialized' = FALSE
  /\ allowed' = [a \in Addr |-> IF Undecided(a) THEN {Live(a), None}
                                ELSE {Live(a)}]
  /\ Goto(Main, "stop")
  /\ UNCHANGED <<heap, event, trace, queueVars, allocations, shutdownComplete,
                 initOnce, report>>

StopQueue ==
  /\ pc[Main] = "stop"
  /\ Ch!Stop
  /\ Goto(Main, "join")
  /\ UNCHANGED <<heap, event, trace, announced, allocations, lifeVars,
                 reportVars>>

Join ==
  /\ pc[Main] = "join"
  /\ pc[Tracker] = "exited"
  /\ Goto(Main, "report")
  /\ UNCHANGED <<heap, event, trace, queueVars, allocations, lifeVars,
                 reportVars>>

\* Tracker::reportLeaks: everything in the map.
ReportLeaks ==
  /\ pc[Main] = "report"
  /\ report' = allocations
  /\ Goto(Main, "complete")
  /\ UNCHANGED <<heap, event, trace, queueVars, allocations, lifeVars, allowed>>

Complete ==
  /\ pc[Main] = "complete"
  /\ shutdownComplete' = TRUE
  /\ Goto(Main, "idle")
  /\ UNCHANGED <<heap, event, trace, queueVars, allocations, initialized,
                 initOnce, reportVars>>

Shutdown == IfInitialized \/ Latch \/ StopQueue \/ Join \/ ReportLeaks \/ Complete

-----------------------------------------------------------------------------
(* The specification                                                       *)

Next ==
  \/ \E t \in Program, a \in Addr, s \in Size : New(t, a, s)
  \/ \E t \in Program, a \in Addr, s \in Entry : Delete(t, a, s)
  \/ \E t \in Program : CallInitialize(t)
  \/ \E t \in Threads : Call(t)
  \/ TrackerStep
  \/ CallShutdown
  \/ Shutdown

\* A thread that is inside a call runs on, and the tracker thread keeps running.
\* Nothing makes the program allocate, free or exit.
Fairness ==
  /\ \A t \in Threads : WF_vars(Call(t))
  /\ WF_vars(TrackerStep)
  /\ WF_vars(Shutdown)

Spec == Init /\ [][Next]_vars /\ Fairness

-----------------------------------------------------------------------------
(* Properties                                                              *)

\* The shape of the state: who can be where, and with what in hand.
TypeOK ==
  /\ heap \in [Addr -> Size \cup {None, Internal}]
  /\ pc \in [Threads -> PC]
  /\ \A t \in Program : pc[t] \notin {"unborn", "wait", "handle", "exited"}
  /\ \A t \in Threads \ {Main} :
       pc[t] \notin {"shutdown", "latch", "stop", "join", "report", "complete"}
  /\ event \in [Threads -> Event \cup {NoEvent}]
  /\ \A t \in Threads : pc[t] \in {"track", "latched", "push", "real", "handle"}
                         => event[t] # NoEvent
  /\ trace \in Addr \cup {None}
  /\ queue \in Seq(Event)
  /\ stopped \in BOOLEAN
  /\ allocations \in [Addr -> Entry]
  /\ initialized \in BOOLEAN
  /\ shutdownComplete \in BOOLEAN
  /\ initOnce \in {"fresh", "running", "done"}
  /\ report \in [Addr -> Entry] \cup {NoReport}
  /\ announced \in [Addr -> Entry]
  /\ allowed \in [Addr -> SUBSET Entry]

\* An allocation of a is under way and not yet in the queue.
Announcing(a) ==
  \E t \in Program : /\ pc[t] \in Tracking
                     /\ Has(t, a)
                     /\ event[t].type = "Allocate"

\* As long as tracking is on, the events in the order in which the queue took
\* them describe the heap, although threads race from the allocator to the
\* queue and addresses are reused: the delete is queued before its block is
\* freed, the new after its block is obtained (NewDelete.cpp:106-134).
QueueOrderMatchesHeap ==
  (initialized \/ initOnce # "done") =>
    \A a \in Addr : announced[a] = IF Announcing(a) THEN None ELSE Live(a)

\* Positions of the queue that hold an event about a.
About(a) == {i \in 1 .. Len(queue) : queue[i].address = a}

\* The map lags behind the queue by exactly the events not handled yet: the
\* last event about an address, if there is one, says what the map will hold
\* (TrackerThread.cpp:28-58, Tracker.cpp:37, 88).
MapCatchesUp ==
  \A a \in Addr :
    /\ \A i \in About(a) :
         (\A j \in About(a) : j <= i) => announced[a] = Effect(queue[i])
    /\ About(a) = {} =>
         announced[a] = IF pc[Tracker] = "handle" /\ Has(Tracker, a)
                        THEN Effect(event[Tracker])
                        ELSE allocations[a]

\* A program that frees correctly is never blamed: the tracker finds the entry
\* of each block it frees, with the right size, so it prints no "[FREE?]" and
\* no "[SIZE MISMATCH]" for it (Tracker.cpp:59-79).
CorrectFreesAreKnown ==
  pc[Tracker] = "handle" =>
    LET e == event[Tracker]
    IN  e.by = "program" /\ e.type = "Deallocate" =>
          /\ allocations[e.address] # None
          /\ e.size \in {None, allocations[e.address]}

\* The leak report is exact: it lists, with its size, every block the program
\* held when tracking was switched off, and nothing else; only for a call that
\* was under way at that moment may it go either way (README.md:27,
\* Runtime.cpp:86-94, Tracker.cpp:91-106).
ReportExact == report # NoReport => \A a \in Addr : report[a] \in allowed[a]

\* The map is read by the main thread without a lock, so only once the tracker
\* thread is gone (Tracker.h:37-39), and the std::thread is started only while
\* it does not exist: starting it twice would end the process.
TrackerThreadOwnsMap ==
  /\ pc[Main] \in {"report", "complete"} => pc[Tracker] = "exited"
  /\ \A t \in Threads : pc[t] = "start" => pc[Tracker] = "unborn"

\* Once shutdown has completed nothing revives the pipeline, whatever the
\* destructors that run later allocate and free (Runtime.cpp:98-107).
ShutdownIsFinal ==
  [][shutdownComplete =>
       UNCHANGED <<queueVars, allocations, lifeVars, reportVars, pc[Tracker]>>]_vars

\* The shutdown of an initialised tracker comes to its report: no event, lock
\* or thread it waits for is stuck (Runtime.cpp:93-94).
ShutdownReports == (pc[Main] = "latch") ~> (report # NoReport /\ shutdownComplete)

\* No call of operator new or delete hangs, not even those that find another
\* thread inside call_once or the queue stopped.
CallsReturn ==
  \A t \in Program : (pc[t] \in Tracking) ~> (pc[t] = "idle")

\* The tracker the pipeline implements: its map is what the accepted events
\* amount to, and it is closed when the queue is.
Sync == INSTANCE SyncTracker WITH tracked <- announced, closed <- stopped

\* Handing events to another thread is not observable: the pipeline behaves
\* like a tracker that records each accepted event at once and prints its map
\* once, after the last of them (TrackerThread.cpp:18-59, Runtime.cpp:93-94).
BehavesSynchronously == Sync!Spec

\* The tracker thread causes no events of its own: "guards so the tracker's own
\* allocations [...] don't recursively re-trigger tracking" (README.md:30).
TrackerIsSilent == \A i \in 1 .. Len(queue) : queue[i].by = "program"

=============================================================================
