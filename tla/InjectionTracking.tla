-------------------------- MODULE InjectionTracking --------------------------
(***************************************************************************)
(* The pipeline of Tracking.tla as the preloaded library runs it in an     *)
(* unmodified program: the C allocation functions are replaced             *)
(* (MemoryAnalyzer/Linux/MallocHooks.cpp, macOS/InterposeHooks.cpp,        *)
(* Windows/AllocHooks.cpp), realloc among them, and Session takes the      *)
(* place of Runtime (MemoryAnalyzer/Session.cpp): it has no static         *)
(* initialiser and looks at shutdownComplete once.                         *)
(*                                                                         *)
(* realloc is the one hook that lets go of an address before it announces  *)
(* that, and the one that announces two things.                            *)
(***************************************************************************)
EXTENDS Tracking

VARIABLES
  next,   \* the allocation a realloc announces after the deallocation
  silent  \* history: addresses freed by realloc(p, 0) and not used since

injectionVars == <<vars, next, silent>>

InjectionInit ==
  /\ Init
  /\ next = [t \in Threads |-> NoEvent]
  /\ silent = {}

AllocateEvent(a, s) ==
  [type |-> "Allocate", address |-> a, size |-> s, by |-> "program"]

DeallocateEvent(a, s) ==
  [type |-> "Deallocate", address |-> a, size |-> s, by |-> "program"]

\* While a realloc has a second event pending, its first one is about an address
\* it no longer owns; what it owns is the new block.
Owns(t, a) == IF next[t] = NoEvent THEN Has(t, a) ELSE next[t].address = a

\* No call on the block is under way, so the program may free or resize it.
AtRest(a) == heap[a] \in Size /\ \A t \in Program : ~Owns(t, a)

\* The block the program has at a, once the calls under way are let finish.
InUse(a) ==
  IF heap[a] \in Size /\ ~\E t \in Program : pc[t] = "real" /\ Owns(t, a) /\ Has(t, a)
  THEN heap[a] ELSE None

\* A call under way has yet to announce a change at a.
Unannounced(a) == Undecided(a) \/ \E t \in Program : next[t] # NoEvent /\ Owns(t, a)

-----------------------------------------------------------------------------
(* Mutants: actions below with one plausible bug each.                     *)

\* realloc announces the new block and forgets the old one.
ReallocMoveForgetsOld(t, a, b, s) ==
  /\ pc[t] = "idle" /\ Len(queue) < MaxQueue
  /\ AtRest(a) /\ heap[b] = None
  /\ heap' = [heap EXCEPT ![a] = None, ![b] = s]
  /\ event' = [event EXCEPT ![t] = AllocateEvent(b, s)]
  /\ Goto(t, "track")
  /\ UNCHANGED <<trace, queueVars, allocations, lifeVars, reportVars, next, silent>>

\* realloc in place announces nothing, the address being known.
ReallocInPlaceSilently(t, a, s) ==
  /\ pc[t] = "idle" /\ Len(queue) < MaxQueue
  /\ AtRest(a)
  /\ heap' = [heap EXCEPT ![a] = s]
  /\ UNCHANGED <<pc, event, trace, queueVars, allocations, lifeVars,
                 reportVars, next, silent>>

\* shutdown() does not reset initialized.
SessionLatchStaysInitialized ==
  /\ pc[Main] = "latch"
  /\ allowed' = [a \in Addr |-> IF Unannounced(a) \/ a \in silent
                                THEN {InUse(a), announced[a], None}
                                ELSE {InUse(a)}]
  /\ Goto(Main, "stop")
  /\ UNCHANGED <<heap, event, trace, queueVars, allocations, lifeVars, report,
                 next, silent>>

-----------------------------------------------------------------------------
(* The hooks                                                               *)

\* malloc and calloc: allocate, then announce.
Malloc(t, a, s) ==
  /\ New(t, a, s)
  /\ silent' = silent \ {a}
  /\ UNCHANGED next

\* free: announce, then free.  s is the size the caller gives, or None.
Free(t, a, s) ==
  /\ pc[t] = "idle" /\ Len(queue) < MaxQueue
  /\ AtRest(a)
  /\ event' = [event EXCEPT ![t] = DeallocateEvent(a, s)]
  /\ Goto(t, "track")
  /\ UNCHANGED <<heap, trace, queueVars, allocations, lifeVars, reportVars, next, silent>>

\* operator new and delete in all variants: as malloc and free, but a sized
\* delete gives the size.
Operator(t, a, s) == Malloc(t, a, s) \/ (s = heap[a] /\ Free(t, a, s))

\* realloc to another address: when it returns the old block is gone already,
\* and only then are both changes announced.
ReallocMove(t, a, b, s) ==
  /\ pc[t] = "idle" /\ Len(queue) < MaxQueue
  /\ AtRest(a) /\ heap[b] = None
  /\ heap' = [heap EXCEPT ![a] = None, ![b] = s]
  /\ event' = [event EXCEPT ![t] = DeallocateEvent(a, None)]
  /\ next' = [next EXCEPT ![t] = AllocateEvent(b, s)]
  /\ silent' = silent \ {b}
  /\ Goto(t, "track")
  /\ UNCHANGED <<trace, queueVars, allocations, lifeVars, reportVars>>

\* realloc in place: the block is announced again with its new size.
ReallocInPlace(t, a, s) ==
  /\ pc[t] = "idle" /\ Len(queue) < MaxQueue
  /\ AtRest(a)
  /\ heap' = [heap EXCEPT ![a] = s]
  /\ event' = [event EXCEPT ![t] = AllocateEvent(a, s)]
  /\ Goto(t, "track")
  /\ UNCHANGED <<trace, queueVars, allocations, lifeVars, reportVars, next, silent>>

\* realloc(p, 0) where that frees, as in glibc: newPtr is null, so nothing is
\* announced.  Where it does not, it is a ReallocInPlace or a ReallocMove.
ReallocToZero(t, a) ==
  /\ pc[t] = "idle"
  /\ AtRest(a)
  /\ heap' = [heap EXCEPT ![a] = None]
  /\ silent' = silent \cup {a}
  /\ UNCHANGED <<pc, event, trace, queueVars, allocations, lifeVars,
                 reportVars, next>>

\* trackDeallocation has returned inside realloc: trackAllocation is next.
ReallocAnnounceNew(t) ==
  /\ pc[t] = "real"
  /\ next[t] # NoEvent
  /\ event' = [event EXCEPT ![t] = next[t]]
  /\ next' = [next EXCEPT ![t] = NoEvent]
  /\ Goto(t, "track")
  /\ UNCHANGED <<heap, trace, queueVars, allocations, lifeVars, reportVars,
                 silent>>

\* RealAllocator::free, at the end of free().
FreeForReal(t) ==
  /\ next[t] = NoEvent
  /\ RealFree(t)
  /\ UNCHANGED <<next, silent>>

\* Session::ensureInitialized after it found initialized false.
SessionIsShutdownComplete(t) ==
  /\ pc[t] = "latched"
  /\ IF shutdownComplete
     THEN Return(t)
     ELSE Goto(t, "once") /\ UNCHANGED event
  /\ UNCHANGED <<heap, trace, queueVars, allocations, lifeVars, reportVars,
                 next, silent>>

\* The steps Session shares with Runtime.
SharedCall(t) ==
  /\ \/ IsInitialized(t) \/ CallOnce(t) \/ StartTracker(t) \/ Publish(t)
     \/ Recheck(t) \/ Push(t)
  /\ UNCHANGED <<next, silent>>

InjectedCall(t) ==
  \/ SharedCall(t) \/ SessionIsShutdownComplete(t)
  \/ ReallocAnnounceNew(t) \/ FreeForReal(t)

-----------------------------------------------------------------------------
(* Session::shutdown                                                       *)

\* As Latch of Tracking.tla.  A call under way on an address may or may not be
\* recorded, so the report may also keep what the map holds already; and it
\* does keep a block that realloc(p, 0) freed.
SessionLatch ==
  /\ pc[Main] = "latch"
  /\ initialized' = FALSE
  /\ allowed' = [a \in Addr |-> IF Unannounced(a) \/ a \in silent
                                THEN {InUse(a), announced[a], None}
                                ELSE {InUse(a)}]
  /\ Goto(Main, "stop")
  /\ UNCHANGED <<heap, event, trace, queueVars, allocations, shutdownComplete,
                 initOnce, report, next, silent>>

SessionShutdown ==
  \/ SessionLatch
  \/ /\ IfInitialized \/ StopQueue \/ Join \/ ReportLeaks \/ Complete
     /\ UNCHANGED <<next, silent>>

-----------------------------------------------------------------------------
(* The platforms                                                           *)

\* A realloc that returns a block.
Realloc(t, a) ==
  \E s \in Size : \/ ReallocInPlace(t, a, s)
                 \/ \E b \in Addr : ReallocMove(t, a, b, s)

\* Linux, where the C++ operators are replaced as well.
Preloaded(t, a) ==
  \/ \E s \in Size : Malloc(t, a, s) \/ Operator(t, a, s)
  \/ Free(t, a, None)
  \/ Realloc(t, a) \/ ReallocToZero(t, a)

\* macOS; its realloc returns a block for size 0 too.
Interposed(t, a) ==
  \/ \E s \in Size : Malloc(t, a, s)
  \/ Free(t, a, None)
  \/ Realloc(t, a)

\* The functions of the C runtime of Windows, plain, aligned and debug ones.
CrtHook(t, a) ==
  \/ \E s \in Size : Malloc(t, a, s)
  \/ Free(t, a, None)
  \/ Realloc(t, a) \/ ReallocToZero(t, a)

\* HeapAlloc, HeapFree and HeapReAlloc, for a module with a C runtime of its own.
HeapHook(t, a) ==
  \/ \E s \in Size : Malloc(t, a, s)
  \/ Free(t, a, None)
  \/ Realloc(t, a)

-----------------------------------------------------------------------------
(* The specification                                                       *)

\* A process has the hooks of one platform; those of Linux do all that the
\* others do.

InjectionNext ==
  \/ \E t \in Program, a \in Addr :
       Preloaded(t, a) \/ Interposed(t, a) \/ CrtHook(t, a) \/ HeapHook(t, a)
  \/ \E t \in Threads : InjectedCall(t)
  \/ TrackerStep /\ UNCHANGED <<next, silent>>
  \/ CallShutdown /\ UNCHANGED <<next, silent>>
  \/ SessionShutdown

InjectionSpec == InjectionInit /\ [][InjectionNext]_injectionVars

-----------------------------------------------------------------------------
(* Properties                                                              *)

\* No false leak: whatever realloc does to the order of the announcements, the
\* report names no block that was gone when tracking was switched off, except
\* one that realloc(p, 0) freed, and no size that a block no longer had
\* (MallocHooks.cpp:87-98, Tracker.cpp:37).
NoFalseLeak ==
  report # NoReport =>
    \A a \in Addr : report[a] # None => report[a] \in allowed[a]

\* The reason: while tracking is on, an entry about a block that is gone or has
\* changed has its correction under way.
EntriesAreLiveOrCorrected ==
  (initialized \/ initOnce # "done") =>
    \A a \in Addr : \/ announced[a] \in {InUse(a), None}
                     \/ Unannounced(a)
                     \/ a \in silent

\* "keeps a map of everything currently allocated" (README.md:27): when no call
\* is under way and every event is handled, the map holds no block that is gone.
MapHoldsOnlyAllocated ==
  (initialized /\ queue = <<>> /\ pc[Tracker] = "wait") =>
    \A a \in Addr : allocations[a] \in {InUse(a), None} \/ Unannounced(a)

\* "keeps a map of everything currently allocated; at shutdown, reportLeaks()
\* prints everything still outstanding" (README.md:27): no block the program
\* held, with no call on it under way, is missing from the report.
PrintsEverythingOutstanding ==
  report # NoReport =>
    \A a \in Addr : None \notin allowed[a] => report[a] # None

\* A session that shut down stays down: "only the first call after a successful
\* initialization does anything" (Session.h:25-27), and no call of a hook
\* restarts it (Session.cpp:87-91).
SessionShutsDownOnce ==
  [][pc[Main] = "shutdown" /\ shutdownComplete =>
       pc'[Main] # "latch" /\ ~initialized']_injectionVars

==============================================================================
