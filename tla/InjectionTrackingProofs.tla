----------------------- MODULE InjectionTrackingProofs -----------------------
(***************************************************************************)
(* The safety properties of InjectionTracking, proved for any number of    *)
(* program threads, any addresses and sizes, and any bound on the queue.   *)
(* Most of its steps are steps of Tracking, so most of the work is done by *)
(* the lemmas of TrackingProofs; what is left is what the hooks do         *)
(* differently: realloc, and the once-only check of Session.               *)
(***************************************************************************)
EXTENDS InjectionTracking, TrackingProofs

-----------------------------------------------------------------------------
(* The inductive invariant, in named parts                                 *)

\* The pipeline's variables have their types, and only the program reallocates.
InjectionTypeOK ==
  /\ TypeOK
  /\ next \in [Threads -> Event \cup {NoEvent}]
  /\ next[Tracker] = NoEvent
  /\ silent \subseteq Addr

\* The block a call under way owns is there and is nobody else's, and what the
\* call will announce about it is true of it.
BlockInv ==
  /\ \A t \in Program, a \in Addr : Owns(t, a) => heap[a] \in Size
  /\ \A t, u \in Program, a \in Addr : Owns(t, a) /\ Owns(u, a) => t = u
  /\ \A t \in Program :
       next[t] = NoEvent /\ event[t] # NoEvent /\ event[t].type = "Allocate" =>
         event[t].size = heap[event[t].address]
  /\ \A t \in Program :
       next[t] # NoEvent => next[t].size = heap[next[t].address]

\* A realloc that has moved its block is announcing that the old one is gone.
MoveInv ==
  \A t \in Program :
    next[t] # NoEvent => /\ InCall(t)
                         /\ event[t].type = "Deallocate"
                         /\ next[t].type = "Allocate"
                         /\ next[t].address # event[t].address

\* The tracker thread's own call frees the stack trace it holds.
TraceInv ==
  /\ InCall(Tracker) => /\ event[Tracker].type = "Deallocate"
                        /\ event[Tracker].address = trace
  /\ pc[Tracker] \in {"unborn", "wait", "exited"} => trace = None
  /\ pc[Tracker] # "idle"
  /\ trace # None => heap[trace] = Internal

HooksInv ==
  /\ HandsInv
  /\ BlockInv
  /\ MoveInv
  /\ TraceInv
  /\ \A t \in Threads : pc[t] = "real" => event[t].type = "Deallocate"

\* Once tracking is off, an entry of the map is one the report may list, and so
\* is what the calls that still reach the queue push.
ListedInv ==
  Latched =>
    /\ \A a \in Addr : announced[a] \in allowed[a] \cup {None}
    /\ \A t \in Threads :
         pc[t] = "push" =>
           Effect(event[t]) \in allowed[event[t].address] \cup {None}

-----------------------------------------------------------------------------
(* The steps                                                               *)

\* The steps of the hooks that the pipeline of Tracking does not have.
HookStep ==
  \/ \E t \in Program, a \in Addr, s \in Entry : Free(t, a, s)
  \/ \E t \in Program, a, b \in Addr, s \in Size : ReallocMove(t, a, b, s)
  \/ \E t \in Program, a \in Addr, s \in Size : ReallocInPlace(t, a, s)
  \/ \E t \in Program, a \in Addr : ReallocToZero(t, a)
  \/ \E t \in Threads : ReallocAnnounceNew(t) \/ SessionIsShutdownComplete(t)

\* The other steps, which are those of Tracking.
SharedStep ==
  \/ \E t \in Program, a \in Addr, s \in Size : Malloc(t, a, s)
  \/ \E t \in Threads : SharedCall(t) \/ FreeForReal(t)
  \/ /\ \/ TrackerStep \/ CallShutdown \/ IfInitialized \/ StopQueue \/ Join
        \/ ReportLeaks \/ Complete
     /\ UNCHANGED <<next, silent>>
  \/ UNCHANGED injectionVars

LEMMA InjectionSteps ==
  ASSUME [InjectionNext]_injectionVars
  PROVE  SharedStep \/ HookStep \/ SessionLatch
<1>1. ASSUME NEW t \in Program, NEW a \in Addr,
             \/ Preloaded(t, a) \/ Interposed(t, a)
             \/ CrtHook(t, a) \/ HeapHook(t, a)
      PROVE  SharedStep \/ HookStep
  <2>1. ASSUME Realloc(t, a) PROVE HookStep
    BY <2>1 DEF Realloc, HookStep
  <2>2. ASSUME Free(t, a, None) PROVE HookStep
    BY <2>2 DEF HookStep, Entry
  <2>3. ASSUME NEW s \in Size, Free(t, a, s) PROVE HookStep
    BY <2>3 DEF HookStep, Entry
  <2>4. ASSUME ReallocToZero(t, a) PROVE HookStep
    BY <2>4 DEF HookStep
  <2>5. ASSUME NEW s \in Size, Malloc(t, a, s) PROVE SharedStep
    BY <2>5 DEF SharedStep
  <2> QED
    BY <1>1, <2>1, <2>2, <2>3, <2>4, <2>5
       DEF Preloaded, Interposed, CrtHook, HeapHook, Operator
<1>2. ASSUME NEW t \in Threads, InjectedCall(t)
      PROVE  SharedStep \/ HookStep
  BY <1>2 DEF InjectedCall, SharedStep, HookStep
<1> QED
  BY <1>1, <1>2 DEF InjectionNext, SharedStep, SessionShutdown

\* What the lemmas of TrackingProofs say of a step holds of a shared one.
LEMMA SharedStepIsNext == SharedStep => [Next]_vars
BY DEF SharedStep, Malloc, SharedCall, FreeForReal, Next, Call, Shutdown,
       injectionVars

-----------------------------------------------------------------------------
(* Type correctness                                                        *)

\* The events the hooks build have the shape of events.
LEMMA HookEvents ==
  ASSUME NEW a \in Addr, NEW s \in Entry
  PROVE  /\ AllocateEvent(a, s) \in Event /\ AllocateEvent(a, s) # NoEvent
         /\ DeallocateEvent(a, s) \in Event /\ DeallocateEvent(a, s) # NoEvent
BY EventAssumption DEF AllocateEvent, DeallocateEvent, Event

\* A call of a hook begins with an event in hand.
LEMMA BeginType ==
  ASSUME TypeOK, NEW t \in Program, NEW e \in Event,
         pc' = [pc EXCEPT ![t] = "track"], event' = [event EXCEPT ![t] = e],
         heap' \in [Addr -> Size \cup {None, Internal}],
         UNCHANGED <<trace, queueVars, allocations, lifeVars, reportVars>>
  PROVE  TypeOK'
BY ThreadFacts, EventAssumption
   DEF TypeOK, PC, Tracking, queueVars, lifeVars, reportVars

LEMMA HookStepType ==
  ASSUME InjectionTypeOK, HookStep
  PROVE  InjectionTypeOK'
<1> USE ThreadFacts, HookEvents DEF InjectionTypeOK
<1>1. ASSUME NEW t \in Program, NEW a \in Addr, NEW s \in Entry, Free(t, a, s)
      PROVE  InjectionTypeOK'
  BY <1>1, BeginType DEF Free, Goto, TypeOK
<1>2. ASSUME NEW t \in Program, NEW a \in Addr, NEW b \in Addr, NEW s \in Size,
             ReallocMove(t, a, b, s)
      PROVE  InjectionTypeOK'
  <2>1. /\ DeallocateEvent(a, None) \in Event /\ AllocateEvent(b, s) \in Event
        /\ heap' \in [Addr -> Size \cup {None, Internal}]
    BY <1>2 DEF ReallocMove, TypeOK, Entry
  <2> QED
    BY <1>2, <2>1, BeginType DEF ReallocMove, Goto
<1>3. ASSUME NEW t \in Program, NEW a \in Addr, NEW s \in Size,
             ReallocInPlace(t, a, s)
      PROVE  InjectionTypeOK'
  <2>1. /\ AllocateEvent(a, s) \in Event
        /\ heap' \in [Addr -> Size \cup {None, Internal}]
    BY <1>3 DEF ReallocInPlace, TypeOK, Entry
  <2> QED
    BY <1>3, <2>1, BeginType DEF ReallocInPlace, Goto
<1>4. ASSUME NEW t \in Program, NEW a \in Addr, ReallocToZero(t, a)
      PROVE  InjectionTypeOK'
  BY <1>4 DEF ReallocToZero, TypeOK, queueVars, lifeVars, reportVars
<1>5. ASSUME NEW t \in Threads, ReallocAnnounceNew(t)
      PROVE  InjectionTypeOK'
  <2>1. t \in Program /\ next[t] \in Event
    BY <1>5 DEF ReallocAnnounceNew
  <2> QED
    BY <1>5, <2>1, BeginType, EventAssumption
       DEF ReallocAnnounceNew, Goto, TypeOK
<1>6. ASSUME NEW t \in Threads, SessionIsShutdownComplete(t)
      PROVE  InjectionTypeOK'
  <2>1. CASE shutdownComplete
    BY <1>6, <2>1, ReturnType
       DEF SessionIsShutdownComplete, TypeOK, Tracking, queueVars, lifeVars,
           reportVars
  <2>2. CASE ~shutdownComplete
    <3>1. /\ pc[t] = "latched" /\ pc' = [pc EXCEPT ![t] = "once"]
          /\ UNCHANGED <<event, heap, trace, queueVars, allocations, lifeVars,
                        reportVars, next, silent>>
      BY <1>6, <2>2 DEF SessionIsShutdownComplete, Goto
    <3> QED
      BY <3>1
         DEF TypeOK, PC, Tracking, queueVars, lifeVars, reportVars
  <2> QED
    BY <2>1, <2>2
<1> QED
  BY <1>1, <1>2, <1>3, <1>4, <1>5, <1>6 DEF HookStep

\* Every variable of the injected pipeline keeps its type, and each thread is
\* only where the hooks can take it, with an event in hand wherever it uses one.
THEOREM InjectionTypeCorrect == InjectionSpec => []InjectionTypeOK
<1>1. InjectionInit => InjectionTypeOK
  BY InitTypeOK, ThreadFacts DEF InjectionInit, InjectionTypeOK
<1>2. InjectionTypeOK /\ [InjectionNext]_injectionVars => InjectionTypeOK'
  <2> SUFFICES ASSUME InjectionTypeOK, [InjectionNext]_injectionVars
               PROVE  InjectionTypeOK'
    OBVIOUS
  <2>1. CASE SharedStep
    <3>1. next' = next /\ silent' \subseteq silent
      BY <2>1 DEF SharedStep, Malloc, SharedCall, FreeForReal, injectionVars
    <3>2. TypeOK'
      BY <2>1, SharedStepIsNext, TypeStep DEF InjectionTypeOK
    <3> QED
      BY <3>1, <3>2 DEF InjectionTypeOK
  <2>2. CASE HookStep
    BY <2>2, HookStepType
  <2>3. CASE SessionLatch
    <3>1. \A a \in Addr : InUse(a) \in Entry /\ announced[a] \in Entry
      BY DEF InUse, InjectionTypeOK, TypeOK, Entry
    <3>2. allowed' \in [Addr -> SUBSET Entry]
      BY <2>3, <3>1 DEF SessionLatch, Entry
    <3> QED
      BY <2>3, <3>2, ThreadFacts
         DEF SessionLatch, InjectionTypeOK, TypeOK, Goto, PC, Tracking, queueVars
  <2> QED
    BY <2>1, <2>2, <2>3, InjectionSteps
<1> QED
  BY <1>1, <1>2, PTL DEF InjectionSpec

-----------------------------------------------------------------------------
(* Initialisation, shutdown, map and report, as in TrackingProofs          *)

\* A hook's own step is that of one thread inside a call, or changes only a
\* block; in either case it does not touch the pipeline.
LEMMA HookStepIsLocal ==
  ASSUME InjectionTypeOK, HookStep
  PROVE  /\ UNCHANGED <<queueVars, allocations, lifeVars, reportVars, trace>>
         /\ \/ UNCHANGED <<pc, event>>
            \/ \E t \in Threads :
                 /\ pc[t] \in {"idle", "real", "latched"}
                 /\ pc' = [pc EXCEPT ![t] = pc'[t]]
                 /\ pc'[t] \in {"idle", "real", "once", "track"}
                 /\ event' = [event EXCEPT ![t] = event'[t]]
<1> USE ThreadFacts DEF InjectionTypeOK, TypeOK
<1>1. ASSUME NEW t \in Program, NEW a \in Addr, NEW s \in Entry, Free(t, a, s)
      PROVE  /\ UNCHANGED <<queueVars, allocations, lifeVars, reportVars, trace>>
             /\ pc[t] = "idle" /\ pc' = [pc EXCEPT ![t] = "track"]
             /\ event' = [event EXCEPT ![t] = event'[t]]
  BY <1>1 DEF Free, Goto
<1>2. ASSUME NEW t \in Program, NEW a \in Addr, NEW b \in Addr, NEW s \in Size,
             ReallocMove(t, a, b, s) \/ ReallocInPlace(t, a, s)
      PROVE  /\ UNCHANGED <<queueVars, allocations, lifeVars, reportVars, trace>>
             /\ pc[t] = "idle" /\ pc' = [pc EXCEPT ![t] = "track"]
             /\ event' = [event EXCEPT ![t] = event'[t]]
  BY <1>2 DEF ReallocMove, ReallocInPlace, Goto
<1>3. ASSUME NEW t \in Program, NEW a \in Addr, ReallocToZero(t, a)
      PROVE  UNCHANGED <<pc, event, queueVars, allocations, lifeVars,
                         reportVars, trace>>
  BY <1>3 DEF ReallocToZero
<1>4. ASSUME NEW t \in Threads, ReallocAnnounceNew(t)
      PROVE  /\ UNCHANGED <<queueVars, allocations, lifeVars, reportVars, trace>>
             /\ pc[t] = "real" /\ pc' = [pc EXCEPT ![t] = "track"]
             /\ event' = [event EXCEPT ![t] = event'[t]]
  BY <1>4 DEF ReallocAnnounceNew, Goto
<1>5. ASSUME NEW t \in Threads, SessionIsShutdownComplete(t)
      PROVE  /\ UNCHANGED <<queueVars, allocations, lifeVars, reportVars, trace>>
             /\ pc[t] = "latched" /\ pc' = [pc EXCEPT ![t] = pc'[t]]
             /\ pc'[t] \in {"idle", "real", "once"}
             /\ event' = [event EXCEPT ![t] = event'[t]]
  BY <1>5, ReturnMoves DEF SessionIsShutdownComplete, Goto
<1>6. CASE \E t \in Program, a \in Addr : ReallocToZero(t, a)
  BY <1>3, <1>6
<1>7. CASE \E t \in Program, a, b \in Addr, s \in Size :
             ReallocMove(t, a, b, s) \/ ReallocInPlace(t, a, s)
  BY <1>2, <1>7
<1>8. CASE \E t \in Program, a \in Addr, s \in Entry : Free(t, a, s)
  BY <1>1, <1>8
<1>9. CASE \E t \in Threads : ReallocAnnounceNew(t) \/ SessionIsShutdownComplete(t)
  BY <1>4, <1>5, <1>9
<1> QED
  BY <1>6, <1>7, <1>8, <1>9 DEF HookStep

LEMMA HookStepIsQuiet ==
  ASSUME InjectionTypeOK, HookStep
  PROVE  Quiet
BY HookStepIsLocal, ThreadFacts
   DEF Quiet, InjectionTypeOK, TypeOK, queueVars

\* Switching tracking off changes nothing but that, and what the report may say.
LEMMA SessionLatchMoves ==
  ASSUME TypeOK, SessionLatch
  PROVE  /\ pc[Main] = "latch" /\ pc' = [pc EXCEPT ![Main] = "stop"]
         /\ initialized' = FALSE
         /\ UNCHANGED <<heap, event, trace, queueVars, allocations,
                        shutdownComplete, initOnce, report, next, silent>>
         /\ Quiet
BY ThreadFacts DEF SessionLatch, Goto, Quiet, TypeOK, queueVars

\* The session's worker is started once, before anything can be pushed; the main
\* thread prints the report when that worker has left a drained, stopped queue,
\* and only then (Session.cpp:44-105).
THEOREM SessionLifeCycle == InjectionSpec => []LifeInv
<1>1. InjectionInit => LifeInv
  BY ThreadFacts
     DEF InjectionInit, Init, Ch!Init, LifeInv, InitInv, ShutdownInv, Latched
<1>2. InjectionTypeOK /\ LifeInv /\ [InjectionNext]_injectionVars => LifeInv'
  <2> SUFFICES ASSUME InjectionTypeOK, LifeInv, [InjectionNext]_injectionVars
               PROVE  LifeInv'
    OBVIOUS
  <2> USE ThreadFacts
  <2>1. CASE SharedStep
    BY <2>1, SharedStepIsNext, LifeStep DEF InjectionTypeOK
  <2>2. CASE HookStep
    <3>1. UNCHANGED <<queue, stopped, lifeVars, report>>
      BY <2>2, HookStepIsLocal DEF queueVars, reportVars
    <3>2. CASE UNCHANGED <<pc, event>>
      BY <3>1, <3>2
         DEF LifeInv, InitInv, ShutdownInv, Latched, lifeVars
    <3>3. ASSUME NEW t \in Threads,
                 pc[t] \in {"idle", "real", "latched"},
                 pc' = [pc EXCEPT ![t] = pc'[t]],
                 pc'[t] \in {"idle", "real", "once", "track"}
          PROVE  LifeInv'
      BY <3>1, <3>3, PlainMove DEF InjectionTypeOK
    <3> QED
      BY <2>2, <3>2, <3>3, HookStepIsLocal
  <2>3. CASE SessionLatch
    <3>1. /\ pc[Main] = "latch" /\ pc'[Main] = "stop"
          /\ \A u \in Threads : u # Main => pc'[u] = pc[u]
          /\ initialized' = FALSE
          /\ UNCHANGED <<queue, stopped, shutdownComplete, initOnce, report>>
      BY <2>3, SessionLatchMoves DEF InjectionTypeOK, TypeOK, queueVars
    <3>2. InitInv'
      BY <3>1 DEF LifeInv, InitInv
    <3>3. ShutdownInv'
      BY <3>1 DEF LifeInv, InitInv, ShutdownInv, Latched
    <3> QED
      BY <3>2, <3>3 DEF LifeInv
  <2> QED
    BY <2>1, <2>2, <2>3, InjectionSteps
<1> QED
  BY <1>1, <1>2, InjectionTypeCorrect, PTL DEF InjectionSpec

\* Queued events are applied in order: the map the accepted events amount to is
\* the tracker's map brought up to date with the queue.
THEOREM InjectedMapLagsByQueue == InjectionSpec => []MapCatchesUp
<1>1. InjectionInit => MapCatchesUp
  BY ThreadFacts DEF InjectionInit, Init, Ch!Init, MapCatchesUp, About
<1>2. /\ InjectionTypeOK /\ LifeInv /\ MapCatchesUp
      /\ [InjectionNext]_injectionVars
      => MapCatchesUp'
  <2> SUFFICES ASSUME InjectionTypeOK, LifeInv, MapCatchesUp,
                      [InjectionNext]_injectionVars
               PROVE  MapCatchesUp'
    OBVIOUS
  <2>1. CASE SharedStep
    BY <2>1, SharedStepIsNext, MapStep DEF InjectionTypeOK
  <2>2. CASE HookStep
    BY <2>2, HookStepIsQuiet, QuietMap
  <2>3. CASE SessionLatch
    BY <2>3, SessionLatchMoves, QuietMap DEF InjectionTypeOK
  <2> QED
    BY <2>1, <2>2, <2>3, InjectionSteps
<1> QED
  BY <1>1, <1>2, InjectionTypeCorrect, SessionLifeCycle, PTL DEF InjectionSpec

\* The session's report lists the map that all accepted events amount to: none
\* is still on its way when it is printed, and none is accepted later
\* (Session.cpp:73-92).
THEOREM SessionReportIsComplete == InjectionSpec => []ReportInv
<1>1. InjectionInit => ReportInv
  BY DEF InjectionInit, Init, ReportInv
<1>2. /\ InjectionTypeOK /\ LifeInv /\ MapCatchesUp /\ ReportInv
      /\ [InjectionNext]_injectionVars
      => ReportInv'
  <2> SUFFICES ASSUME InjectionTypeOK, LifeInv, MapCatchesUp, ReportInv,
                      [InjectionNext]_injectionVars
               PROVE  ReportInv'
    OBVIOUS
  <2>1. CASE SharedStep
    BY <2>1, SharedStepIsNext, ReportStep DEF InjectionTypeOK
  <2>2. CASE HookStep
    BY <2>2, HookStepIsLocal DEF ReportInv, queueVars, reportVars
  <2>3. CASE SessionLatch
    BY <2>3, SessionLatchMoves DEF InjectionTypeOK, ReportInv, queueVars
  <2> QED
    BY <2>1, <2>2, <2>3, InjectionSteps
<1> QED
  BY <1>1, <1>2, InjectionTypeCorrect, SessionLifeCycle, InjectedMapLagsByQueue,
     PTL DEF InjectionSpec

\* The hooks of an unmodified program and its session implement the same tracker
\* as Runtime does, one that records each event at once.
THEOREM SessionIsSynchronous == InjectionSpec => BehavesSynchronously
<1>1. InjectionInit => Sync!Init
  BY DEF InjectionInit, Init, Ch!Init, Sync!Init
<1>2. /\ InjectionTypeOK /\ LifeInv /\ MapCatchesUp
      /\ [InjectionNext]_injectionVars
      => [Sync!Next]_Sync!vars
  <2> SUFFICES ASSUME InjectionTypeOK, LifeInv, MapCatchesUp,
                      [InjectionNext]_injectionVars
               PROVE  [Sync!Next]_Sync!vars
    OBVIOUS
  <2>1. CASE SharedStep
    BY <2>1, SharedStepIsNext, SyncStep DEF InjectionTypeOK
  <2>2. CASE HookStep
    BY <2>2, HookStepIsLocal DEF queueVars, reportVars, Sync!vars
  <2>3. CASE SessionLatch
    BY <2>3, SessionLatchMoves DEF InjectionTypeOK, queueVars, Sync!vars
  <2> QED
    BY <2>1, <2>2, <2>3, InjectionSteps
<1> QED
  BY <1>1, <1>2, InjectionTypeCorrect, SessionLifeCycle, InjectedMapLagsByQueue,
     PTL DEF InjectionSpec, BehavesSynchronously, Sync!Spec

\* A session that shut down stays down: its shutdown does nothing a second time,
\* and no hook starts it again (Session.h:25-27, Session.cpp:94-105).
THEOREM SessionStaysDown == InjectionSpec => SessionShutsDownOnce
<1>1. InjectionTypeOK /\ LifeInv /\ [InjectionNext]_injectionVars =>
        (pc[Main] = "shutdown" /\ shutdownComplete =>
           pc'[Main] # "latch" /\ ~initialized')
  <2> SUFFICES ASSUME InjectionTypeOK, LifeInv, [InjectionNext]_injectionVars,
                      pc[Main] = "shutdown", shutdownComplete
               PROVE  pc'[Main] # "latch" /\ ~initialized'
    OBVIOUS
  <2>1. Latched /\ pc[Main] # "latch"
    BY DEF LifeInv, ShutdownInv
  <2>2. CASE SharedStep
    <3>1. Latched'
      BY <2>1, <2>2, SharedStepIsNext, LatchedForGood DEF InjectionTypeOK
    <3>2. LifeInv'
      BY <2>2, SharedStepIsNext, LifeStep DEF InjectionTypeOK
    <3> QED
      BY <3>1, <3>2 DEF LifeInv, ShutdownInv, Latched
  <2>3. CASE HookStep
    <3>1. pc'[Main] # "latch"
      BY <2>1, <2>3, HookStepIsLocal, ThreadFacts DEF InjectionTypeOK, TypeOK
    <3>2. initialized' = initialized
      BY <2>3, HookStepIsLocal DEF lifeVars
    <3> QED
      BY <2>1, <3>1, <3>2 DEF Latched
  <2>4. CASE SessionLatch
    BY <2>1, <2>4 DEF SessionLatch
  <2> QED
    BY <2>2, <2>3, <2>4, InjectionSteps
<1> QED
  BY <1>1, InjectionTypeCorrect, SessionLifeCycle, PTL
     DEF InjectionSpec, SessionShutsDownOnce

-----------------------------------------------------------------------------
(* The heap and the calls under way                                        *)

\* The steps that begin or end a call or change a block, and the others.
LEMMA BlockSteps ==
  ASSUME InjectionTypeOK, LifeInv, HandsInv, [InjectionNext]_injectionVars
  PROVE  \/ SameCalls /\ UNCHANGED <<next, silent>>
         \/ \E t \in Program, a \in Addr, s \in Size : Malloc(t, a, s)
         \/ \E t \in Program, a \in Addr, s \in Entry : Free(t, a, s)
         \/ \E t \in Program, a, b \in Addr, s \in Size : ReallocMove(t, a, b, s)
         \/ \E t \in Program, a \in Addr, s \in Size : ReallocInPlace(t, a, s)
         \/ \E t \in Program, a \in Addr : ReallocToZero(t, a)
         \/ \E t \in Threads : ReallocAnnounceNew(t)
         \/ \E t \in Threads : Ends(t) /\ UNCHANGED <<next, silent>>
         \/ \E t \in Threads : FreeForReal(t)
         \/ (TakeEvent \/ Handle) /\ UNCHANGED <<next, silent>>
<1> USE ThreadFacts DEF InjectionTypeOK
<1>1. CASE SessionLatch
  <2>1. /\ UNCHANGED <<heap, event, trace, announced, next, silent>>
        /\ pc[Main] = "latch" /\ pc'[Main] = "stop"
        /\ \A u \in Threads : u # Main => pc'[u] = pc[u]
    BY <1>1, SessionLatchMoves DEF TypeOK, queueVars
  <2> QED
    BY <2>1 DEF SameCalls, Tracking
<1>2. ASSUME NEW t \in Threads, SessionIsShutdownComplete(t)
      PROVE  /\ SameCalls \/ Ends(t)
             /\ UNCHANGED <<next, silent>>
  <2>1. CASE shutdownComplete
    BY <1>2, <2>1
       DEF SessionIsShutdownComplete, Ends, Tracking, TypeOK, queueVars,
           LifeInv, ShutdownInv
  <2>2. CASE ~shutdownComplete
    BY <1>2, <2>2
       DEF SessionIsShutdownComplete, SameCalls, Goto, Tracking, TypeOK,
           queueVars
  <2> QED
    BY <2>1, <2>2
<1>3. ASSUME NEW t \in Threads, SharedCall(t)
      PROVE  /\ SameCalls \/ Ends(t)
             /\ UNCHANGED <<next, silent>>
  <2>1. Call(t) /\ UNCHANGED <<next, silent>>
    BY <1>3 DEF SharedCall, Call
  <2>2. ~RealFree(t)
    BY <1>3
       DEF SharedCall, RealFree, IsInitialized, CallOnce, StartTracker, Publish,
           Recheck, Push
  <2> QED
    BY <2>1, <2>2, CallSteps
<1>4. CASE /\ \/ CallShutdown \/ IfInitialized \/ StopQueue \/ Join
              \/ ReportLeaks \/ Complete
           /\ UNCHANGED <<next, silent>>
  BY <1>4, ShutdownSteps DEF Shutdown
<1>5. CASE LeaveLoop /\ UNCHANGED <<next, silent>>
  BY <1>5 DEF LeaveLoop, SameCalls, Goto, Tracking, TypeOK, queueVars
<1>6. CASE UNCHANGED injectionVars
  BY <1>6 DEF injectionVars, vars, SameCalls, queueVars
<1>7. CASE SharedStep
  BY <1>3, <1>4, <1>5, <1>6, <1>7 DEF SharedStep, TrackerStep
<1>8. CASE HookStep
  BY <1>2, <1>8 DEF HookStep
<1> QED
  BY <1>1, <1>7, <1>8, InjectionSteps

\* A thread outside a call has nothing in hand and announces nothing.
LEMMA IdleHasNothing ==
  ASSUME HooksInv, NEW t \in Program, pc[t] = "idle"
  PROVE  event[t] = NoEvent /\ next[t] = NoEvent
BY DEF HooksInv, HandsInv, MoveInv, InCall, Tracking

\* No call under way owns the block at a.
Unowned(a) == \A u \in Program : ~Owns(u, a)

\* Besides the block at a only one that nobody owned changes.
OthersStay(a) ==
  \A b \in Addr : \/ heap'[b] = heap[b]
                  \/ b = a
                  \/ heap[b] \in Size /\ Unowned(b)

\* A call that begins has its block, and the rest, as before, to itself.
LEMMA Begins ==
  ASSUME InjectionTypeOK, HooksInv, NEW t \in Program, pc[t] = "idle",
         NEW e \in Event, NEW f \in Event \cup {NoEvent}, NEW a \in Addr,
         pc' = [pc EXCEPT ![t] = "track"],
         event' = [event EXCEPT ![t] = e], next' = [next EXCEPT ![t] = f],
         a = IF f = NoEvent THEN e.address ELSE f.address,
         Unowned(a),
         heap'[a] \in Size,
         e.type = "Allocate" => f = NoEvent /\ e.size = heap'[a],
         f # NoEvent => /\ f.type = "Allocate" /\ f.size = heap'[a]
                        /\ f.address # e.address,
         OthersStay(a),
         heap[a] # Internal,
         UNCHANGED trace
  PROVE  HooksInv'
<1> USE ThreadFacts, ValueAssumption, EventAssumption
<1>1. /\ pc'[t] = "track" /\ \A u \in Threads : u # t => pc'[u] = pc[u]
      /\ event'[t] = e /\ \A u \in Threads : u # t => event'[u] = event[u]
      /\ next'[t] = f /\ \A u \in Threads : u # t => next'[u] = next[u]
      /\ e # NoEvent
      /\ event[t] = NoEvent /\ next[t] = NoEvent
  BY IdleHasNothing DEF InjectionTypeOK, TypeOK
<1>2. /\ \A b \in Addr : Owns(t, b)' <=> b = a
      /\ \A u \in Program, b \in Addr : u # t => (Owns(u, b)' <=> Owns(u, b))
  BY <1>1 DEF Owns, Has
<1>3. \A u \in Program, b \in Addr : u # t /\ Owns(u, b) => heap'[b] = heap[b]
  BY DEF OthersStay, Unowned
<1>4. HandsInv'
  BY <1>1 DEF HooksInv, HandsInv, InCall, Tracking
<1>5. BlockInv'
  <2>1. \A u \in Program, b \in Addr : Owns(u, b)' => heap'[b] \in Size
    BY <1>2, <1>3 DEF HooksInv, BlockInv
  <2>2. \A u, w \in Program, b \in Addr : Owns(u, b)' /\ Owns(w, b)' => u = w
    BY <1>2 DEF HooksInv, BlockInv, Unowned
  <2>3. ASSUME NEW u \in Program, u # t, event[u] # NoEvent, next[u] = NoEvent
        PROVE  heap'[event[u].address] = heap[event[u].address]
    BY <1>3, <2>3 DEF Owns, Has, InjectionTypeOK, TypeOK, Event
  <2>4. ASSUME NEW u \in Program, u # t, next[u] # NoEvent
        PROVE  heap'[next[u].address] = heap[next[u].address]
    BY <1>3, <2>4 DEF Owns, InjectionTypeOK, Event
  <2> QED
    BY <1>1, <2>1, <2>2, <2>3, <2>4 DEF HooksInv, BlockInv
<1>6. MoveInv'
  BY <1>1 DEF HooksInv, MoveInv, InCall, Tracking, Event
<1>7. TraceInv'
  <2>1. trace # None => heap'[trace] = heap[trace]
    BY DEF HooksInv, TraceInv, InjectionTypeOK, TypeOK, OthersStay
  <2> QED
    BY <1>1, <2>1 DEF HooksInv, TraceInv, InCall
<1>8. \A u \in Threads : pc'[u] = "real" => event'[u].type = "Deallocate"
  BY <1>1 DEF HooksInv
<1> QED
  BY <1>4, <1>5, <1>6, <1>7, <1>8 DEF HooksInv

\* Ownership only depends on what a thread has in hand.
LEMMA SameHands ==
  ASSUME NEW u, event'[u] = event[u], next'[u] = next[u], NEW b
  PROVE  Owns(u, b)' <=> Owns(u, b)
BY DEF Owns, Has

\* Blocks that nobody owns and that hold no stack trace may come and go.
LEMMA BlockChanges ==
  ASSUME InjectionTypeOK, HooksInv, UNCHANGED <<event, next>>,
         \A u \in Program, b \in Addr : Owns(u, b) => heap'[b] = heap[b]
  PROVE  BlockInv'
<1>1. \A u \in Program, b \in Addr : Owns(u, b)' <=> Owns(u, b)
  BY SameHands
<1>2. ASSUME NEW u \in Program, event[u] # NoEvent, next[u] = NoEvent
      PROVE  heap'[event[u].address] = heap[event[u].address]
  BY <1>2, ThreadFacts DEF Owns, Has, InjectionTypeOK, TypeOK, Event
<1>3. ASSUME NEW u \in Program, next[u] # NoEvent
      PROVE  heap'[next[u].address] = heap[next[u].address]
  BY <1>3, ThreadFacts DEF Owns, InjectionTypeOK, Event
<1> QED
  BY <1>1, <1>2, <1>3 DEF HooksInv, BlockInv

\* Every call under way has its block to itself, from the moment realloc has
\* moved it on: no other call owns it, it is there until the call frees it, and
\* what will be announced of it is true (MallocHooks.cpp:67-98).
THEOREM HooksOwnTheirBlocks == InjectionSpec => []HooksInv
<1>1. InjectionInit => HooksInv
  BY ThreadFacts
     DEF InjectionInit, Init, HooksInv, HandsInv, BlockInv, MoveInv, TraceInv,
         InCall, Owns, Has, Tracking
<1>2. InjectionTypeOK /\ LifeInv /\ HooksInv /\ [InjectionNext]_injectionVars
      => HooksInv'
  <2> SUFFICES ASSUME InjectionTypeOK, LifeInv, HooksInv,
                      [InjectionNext]_injectionVars
               PROVE  HooksInv'
    OBVIOUS
  <2> USE ThreadFacts, ValueAssumption
  <2>1. CASE SameCalls /\ UNCHANGED <<next, silent>>
    <3>1. BlockInv'
      BY <2>1, BlockChanges DEF SameCalls
    <3>2. HandsInv' /\ TraceInv'
      BY <2>1 DEF SameCalls, HooksInv, HandsInv, TraceInv, InCall
    <3>3. MoveInv'
      BY <2>1 DEF SameCalls, HooksInv, MoveInv, InCall
    <3> QED
      BY <2>1, <3>1, <3>2, <3>3 DEF SameCalls, HooksInv
  <2>2. ASSUME NEW t \in Program, NEW a \in Addr, NEW s \in Size,
               Malloc(t, a, s)
        PROVE  HooksInv'
    <3>1. AllocateEvent(a, s) \in Event
      BY HookEvents DEF Entry
    <3>2. /\ pc[t] = "idle" /\ heap[a] = None
          /\ heap' = [heap EXCEPT ![a] = s]
          /\ event' = [event EXCEPT ![t] = AllocateEvent(a, s)]
          /\ pc' = [pc EXCEPT ![t] = "track"]
          /\ next' = next /\ trace' = trace
      BY <2>2 DEF Malloc, New, Goto, AllocateEvent
    <3>3. next' = [next EXCEPT ![t] = NoEvent]
      BY <3>2, IdleHasNothing DEF InjectionTypeOK
    <3>4. Unowned(a)
      BY <3>2 DEF HooksInv, BlockInv, Unowned
    <3>5. heap'[a] = s /\ \A b \in Addr : b # a => heap'[b] = heap[b]
      BY <3>2 DEF InjectionTypeOK, TypeOK
    <3>6. AllocateEvent(a, s).address = a /\ AllocateEvent(a, s).size = s
      BY DEF AllocateEvent
    <3>7. heap[a] # Internal /\ heap'[a] \in Size /\ OthersStay(a)
      BY <3>2, <3>5 DEF OthersStay
    <3> DEFINE e == AllocateEvent(a, s)
    <3>8. /\ e \in Event /\ e.address = a /\ e.size = heap'[a]
          /\ event' = [event EXCEPT ![t] = e]
      BY <3>1, <3>2, <3>5, <3>6
    <3> HIDE DEF e
    <3>9. a = IF NoEvent = NoEvent THEN e.address ELSE NoEvent.address
      BY <3>8
    <3> QED
      BY <3>2, <3>3, <3>4, <3>7, <3>8, <3>9, Begins
  <2>3. ASSUME NEW t \in Program, NEW a \in Addr, NEW s \in Entry, Free(t, a, s)
        PROVE  HooksInv'
    <3>1. DeallocateEvent(a, s) \in Event
      BY HookEvents
    <3>2. /\ pc[t] = "idle" /\ heap[a] \in Size
          /\ heap' = heap /\ \A u \in Program : ~Owns(u, a)
          /\ event' = [event EXCEPT ![t] = DeallocateEvent(a, s)]
          /\ pc' = [pc EXCEPT ![t] = "track"]
          /\ next' = next /\ trace' = trace
      BY <2>3 DEF Free, AtRest, Goto
    <3>3. next' = [next EXCEPT ![t] = NoEvent]
      BY <3>2, IdleHasNothing DEF InjectionTypeOK
    <3>4. /\ DeallocateEvent(a, s).address = a
          /\ DeallocateEvent(a, s).type = "Deallocate"
      BY DEF DeallocateEvent
    <3>5. Unowned(a) /\ OthersStay(a)
      BY <3>2 DEF Unowned, OthersStay
    <3> QED
      BY <3>1, <3>2, <3>3, <3>4, <3>5, Begins
  <2>4. ASSUME NEW t \in Program, NEW a \in Addr, NEW b \in Addr, NEW s \in Size,
               ReallocMove(t, a, b, s)
        PROVE  HooksInv'
    <3>1. /\ DeallocateEvent(a, None) \in Event
          /\ AllocateEvent(b, s) \in Event /\ AllocateEvent(b, s) # NoEvent
      BY HookEvents DEF Entry
    <3>2. /\ pc[t] = "idle" /\ heap[a] \in Size /\ heap[b] = None
          /\ \A u \in Program : ~Owns(u, a)
          /\ heap' = [heap EXCEPT ![a] = None, ![b] = s]
          /\ event' = [event EXCEPT ![t] = DeallocateEvent(a, None)]
          /\ next' = [next EXCEPT ![t] = AllocateEvent(b, s)]
          /\ pc' = [pc EXCEPT ![t] = "track"]
          /\ trace' = trace
      BY <2>4 DEF ReallocMove, AtRest, Goto
    <3>3. Unowned(b)
      BY <3>2 DEF HooksInv, BlockInv, Unowned
    <3>4. heap'[b] = s /\ OthersStay(b)
      BY <3>2 DEF InjectionTypeOK, TypeOK, OthersStay, Unowned
    <3>5. /\ DeallocateEvent(a, None).address = a
          /\ DeallocateEvent(a, None).type = "Deallocate"
          /\ AllocateEvent(b, s).address = b /\ AllocateEvent(b, s).size = s
          /\ AllocateEvent(b, s).type = "Allocate"
          /\ a # b
      BY <3>2 DEF DeallocateEvent, AllocateEvent
    <3> QED
      BY <3>1, <3>2, <3>3, <3>4, <3>5, Begins
  <2>5. ASSUME NEW t \in Program, NEW a \in Addr, NEW s \in Size,
               ReallocInPlace(t, a, s)
        PROVE  HooksInv'
    <3>1. AllocateEvent(a, s) \in Event
      BY HookEvents DEF Entry
    <3>2. /\ pc[t] = "idle" /\ heap[a] \in Size
          /\ \A u \in Program : ~Owns(u, a)
          /\ heap' = [heap EXCEPT ![a] = s]
          /\ event' = [event EXCEPT ![t] = AllocateEvent(a, s)]
          /\ pc' = [pc EXCEPT ![t] = "track"]
          /\ next' = next /\ trace' = trace
      BY <2>5 DEF ReallocInPlace, AtRest, Goto
    <3>3. next' = [next EXCEPT ![t] = NoEvent]
      BY <3>2, IdleHasNothing DEF InjectionTypeOK
    <3>4. heap'[a] = s /\ Unowned(a) /\ OthersStay(a)
      BY <3>2 DEF InjectionTypeOK, TypeOK, Unowned, OthersStay
    <3>5. AllocateEvent(a, s).address = a /\ AllocateEvent(a, s).size = s
      BY DEF AllocateEvent
    <3> QED
      BY <3>1, <3>2, <3>3, <3>4, <3>5, Begins
  <2>6. ASSUME NEW t \in Program, NEW a \in Addr, ReallocToZero(t, a)
        PROVE  HooksInv'
    <3>1. /\ heap[a] \in Size /\ \A u \in Program : ~Owns(u, a)
          /\ \A b \in Addr : b # a => heap'[b] = heap[b]
          /\ UNCHANGED <<pc, event, next, trace>>
      BY <2>6 DEF ReallocToZero, AtRest, InjectionTypeOK, TypeOK
    <3>2. BlockInv'
      BY <3>1, BlockChanges
    <3>3. trace # None => heap'[trace] = heap[trace]
      BY <3>1 DEF HooksInv, TraceInv, InjectionTypeOK, TypeOK
    <3> QED
      BY <3>1, <3>2, <3>3
         DEF HooksInv, HandsInv, MoveInv, TraceInv, InCall
  <2>7. ASSUME NEW t \in Threads, ReallocAnnounceNew(t)
        PROVE  HooksInv'
    <3>1. /\ t \in Program /\ pc'[t] = "track"
          /\ \A u \in Threads : u # t => pc'[u] = pc[u]
          /\ event'[t] = next[t] /\ next[t] # NoEvent /\ next'[t] = NoEvent
          /\ \A u \in Threads :
               u # t => event'[u] = event[u] /\ next'[u] = next[u]
          /\ UNCHANGED <<heap, trace>>
      BY <2>7 DEF ReallocAnnounceNew, Goto, InjectionTypeOK, TypeOK
    <3>2. \A u \in Program, b \in Addr : Owns(u, b)' <=> Owns(u, b)
      BY <3>1 DEF Owns, Has
    <3>3. BlockInv'
      BY <3>1, <3>2 DEF HooksInv, BlockInv
    <3>4. HandsInv' /\ TraceInv' /\ MoveInv'
      BY <3>1
         DEF HooksInv, HandsInv, TraceInv, MoveInv, InCall, Tracking
    <3> QED
      BY <3>1, <3>3, <3>4 DEF HooksInv
  <2>8. ASSUME NEW t \in Threads, Ends(t), UNCHANGED <<next, silent>>
        PROVE  HooksInv'
    <3>1. /\ pc[t] \in Tracking /\ event[t] # NoEvent
          /\ \/ pc'[t] = "real" /\ event'[t] = event[t]
                /\ event[t].type = "Deallocate"
             \/ pc'[t] = "idle" /\ event'[t] = NoEvent
                /\ event[t].type # "Deallocate"
          /\ \A u \in Threads : u # t => pc'[u] = pc[u] /\ event'[u] = event[u]
          /\ UNCHANGED <<heap, trace, next>>
      BY <2>8, ReturnMoves DEF Ends, InjectionTypeOK, TypeOK
    <3>2. event'[t] = NoEvent => next[t] = NoEvent
      BY <3>1 DEF HooksInv, MoveInv, InjectionTypeOK
    <3>3. \A u \in Program, b \in Addr : Owns(u, b)' => Owns(u, b)
      BY <3>1, <3>2 DEF Owns, Has
    <3>4. BlockInv'
      BY <3>1, <3>3 DEF HooksInv, BlockInv
    <3>5. HandsInv' /\ MoveInv'
      BY <3>1, <3>2
         DEF HooksInv, HandsInv, MoveInv, InCall, Tracking
    <3>6. TraceInv'
      <4>1. t = Tracker => pc'[t] = "real" /\ InCall(t)
        BY <3>1 DEF HooksInv, TraceInv, InCall
      <4> QED
        BY <3>1, <4>1 DEF HooksInv, TraceInv, InCall
    <3> QED
      BY <3>1, <3>4, <3>5, <3>6 DEF HooksInv
  <2>9. ASSUME NEW t \in Threads, FreeForReal(t)
        PROVE  HooksInv'
    <3> DEFINE a == event[t].address
    <3>1. /\ pc[t] = "real" /\ event[t] # NoEvent /\ a \in Addr
          /\ next[t] = NoEvent
          /\ pc'[t] = IF t = Tracker THEN "wait" ELSE "idle"
          /\ event'[t] = NoEvent
          /\ \A u \in Threads : u # t => pc'[u] = pc[u] /\ event'[u] = event[u]
          /\ \A b \in Addr : b # a => heap'[b] = heap[b]
          /\ trace' = IF t = Tracker THEN None ELSE trace
          /\ next' = next
      BY <2>9 DEF FreeForReal, RealFree, Goto, InjectionTypeOK, TypeOK, Event
    <3>2. t \in Program => Owns(t, a)
      BY <3>1 DEF Owns, Has
    <3>3. t = Tracker => a = trace
      BY <3>1 DEF HooksInv, TraceInv, InCall
    <3>4. \A u \in Program : u # t => ~Owns(u, a)
      BY <3>1, <3>2, <3>3 DEF HooksInv, BlockInv, TraceInv
    <3>5. t # Tracker => trace # a
      BY <3>1, <3>2 DEF HooksInv, BlockInv, TraceInv
    <3> HIDE DEF a
    <3>6. /\ \A u \in Program, b \in Addr : u # t => (Owns(u, b)' <=> Owns(u, b))
          /\ \A b \in Addr : ~Owns(t, b)'
      BY <3>1 DEF Owns, Has
    <3>7. BlockInv'
      <4>1. ASSUME NEW u \in Program, u # t, event[u] # NoEvent, next[u] = NoEvent
            PROVE  heap'[event[u].address] = heap[event[u].address]
        BY <3>1, <3>4, <4>1 DEF Owns, Has, InjectionTypeOK, TypeOK, Event
      <4>2. ASSUME NEW u \in Program, u # t, next[u] # NoEvent
            PROVE  heap'[next[u].address] = heap[next[u].address]
        BY <3>1, <3>4, <4>2 DEF Owns, InjectionTypeOK, Event
      <4>3. \A u \in Program, b \in Addr : Owns(u, b)' => heap'[b] \in Size
        BY <3>1, <3>4, <3>6 DEF HooksInv, BlockInv
      <4>4. \A u, w \in Program, b \in Addr : Owns(u, b)' /\ Owns(w, b)' => u = w
        BY <3>6 DEF HooksInv, BlockInv
      <4> QED
        BY <3>1, <4>1, <4>2, <4>3, <4>4 DEF HooksInv, BlockInv
    <3>8. HandsInv' /\ MoveInv'
      BY <3>1 DEF HooksInv, HandsInv, MoveInv, InCall, Tracking
    <3>9. TraceInv'
      BY <3>1, <3>3, <3>5
         DEF HooksInv, TraceInv, InCall, Tracking, InjectionTypeOK, TypeOK
    <3> QED
      BY <3>1, <3>7, <3>8, <3>9 DEF HooksInv
  <2>10. CASE TakeEvent /\ UNCHANGED <<next, silent>>
    <3>1. /\ pc[Tracker] = "wait" /\ pc'[Tracker] = "handle"
          /\ \A u \in Program : pc'[u] = pc[u] /\ event'[u] = event[u]
          /\ \/ UNCHANGED <<heap, trace>>
             \/ \E b \in Addr :
                  /\ heap[b] = None /\ heap'[b] = Internal /\ trace' = b
                  /\ \A c \in Addr : c # b => heap'[c] = heap[c]
          /\ next' = next
      BY <2>10 DEF TakeEvent, Goto, InjectionTypeOK, TypeOK
    <3>2. \A u \in Program, b \in Addr : Owns(u, b) => heap'[b] = heap[b]
      BY <3>1 DEF HooksInv, BlockInv
    <3>3. \A u \in Program, b \in Addr : Owns(u, b)' <=> Owns(u, b)
      BY <3>1 DEF Owns, Has
    <3>4. BlockInv'
      <4>1. ASSUME NEW u \in Program, event[u] # NoEvent, next[u] = NoEvent
            PROVE  heap'[event[u].address] = heap[event[u].address]
        BY <3>2, <4>1 DEF Owns, Has, InjectionTypeOK, TypeOK, Event
      <4>2. ASSUME NEW u \in Program, next[u] # NoEvent
            PROVE  heap'[next[u].address] = heap[next[u].address]
        BY <3>2, <4>2 DEF Owns, InjectionTypeOK, Event
      <4> QED
        BY <3>1, <3>2, <3>3, <4>1, <4>2 DEF HooksInv, BlockInv
    <3>5. HandsInv' /\ MoveInv'
      BY <3>1 DEF HooksInv, HandsInv, MoveInv, InCall, Tracking
    <3>6. TraceInv'
      BY <3>1 DEF HooksInv, TraceInv, InCall, Tracking
    <3> QED
      BY <3>1, <3>4, <3>5, <3>6 DEF HooksInv
  <2>11. CASE Handle /\ UNCHANGED <<next, silent>>
    <3>1. /\ \A u \in Program : pc'[u] = pc[u] /\ event'[u] = event[u]
          /\ \/ trace = None /\ pc'[Tracker] = "wait"
             \/ /\ trace # None
                /\ pc'[Tracker] = "track"
                /\ event'[Tracker] = [type |-> "Deallocate", address |-> trace,
                                      size |-> None, by |-> "tracker"]
                /\ event'[Tracker] # NoEvent
          /\ UNCHANGED <<heap, trace, next>>
      <4>1. trace # None =>
              [type |-> "Deallocate", address |-> trace, size |-> None,
               by |-> "tracker"] # NoEvent
        BY EventAssumption DEF InjectionTypeOK, TypeOK, Event, Entry
      <4> QED
        BY <2>11, <4>1 DEF Handle, Goto, InjectionTypeOK, TypeOK
    <3>2. \A u \in Program, b \in Addr : Owns(u, b)' <=> Owns(u, b)
      BY <3>1 DEF Owns, Has
    <3>3. BlockInv'
      BY <3>1, <3>2 DEF HooksInv, BlockInv
    <3>4. HandsInv' /\ MoveInv'
      BY <3>1 DEF HooksInv, HandsInv, MoveInv, InCall, Tracking
    <3>5. TraceInv'
      BY <3>1 DEF HooksInv, TraceInv, InCall, Tracking
    <3> QED
      BY <3>1, <3>3, <3>4, <3>5 DEF HooksInv
  <2> QED
    BY <2>1, <2>2, <2>3, <2>4, <2>5, <2>6, <2>7, <2>8, <2>9, <2>10, <2>11,
       BlockSteps DEF HooksInv
<1> QED
  BY <1>1, <1>2, InjectionTypeCorrect, SessionLifeCycle, PTL DEF InjectionSpec

-----------------------------------------------------------------------------
(* The map names no block that is gone                                     *)

\* Tracking is switched off by the main thread, for good.
LEMMA SessionLatchedForGood ==
  ASSUME InjectionTypeOK, LifeInv, [InjectionNext]_injectionVars
  PROVE  /\ Latched => Latched'
         /\ Latched' => Latched \/ SessionLatch
         /\ allowed' = allowed \/ SessionLatch
<1>1. CASE SharedStep
  <2>1. allowed' = allowed /\ (initialized => initialized')
    BY <1>1
       DEF SharedStep, Malloc, New, SharedCall, IsInitialized, CallOnce,
           StartTracker, Publish, Recheck, Push, FreeForReal, RealFree,
           TrackerStep, TakeEvent, Handle, LeaveLoop, CallShutdown,
           IfInitialized, StopQueue, Join, ReportLeaks, Complete,
           injectionVars, vars, lifeVars, reportVars
  <2>2. ~Latch
    BY <2>1 DEF Latch, LifeInv, ShutdownInv
  <2> QED
    BY <1>1, <2>1, <2>2, SharedStepIsNext, LatchedForGood DEF InjectionTypeOK
<1>2. CASE HookStep
  BY <1>2, HookStepIsLocal DEF Latched, lifeVars, reportVars
<1>3. CASE SessionLatch
  BY <1>3 DEF SessionLatch, Latched
<1> QED
  BY <1>1, <1>2, <1>3, InjectionSteps

\* What is known of the entry of one address while tracking is on.
EntryIsRight(b) ==
  announced[b] \in {InUse(b), None} \/ Unannounced(b) \/ b \in silent

\* A call that begins for a leaves the entries of other addresses alone.
LEMMA OtherEntries ==
  ASSUME InjectionTypeOK, HooksInv, NEW t \in Program, pc[t] = "idle",
         pc'[t] = "track", event'[t] # NoEvent,
         \A u \in Threads : u # t => pc'[u] = pc[u] /\ event'[u] = event[u]
                                       /\ next'[u] = next[u],
         announced' = announced,
         NEW b \in Addr, heap'[b] = heap[b], EntryIsRight(b),
         b \in silent => b \in silent'
  PROVE  EntryIsRight(b)'
<1> USE ThreadFacts
<1>1. event[t] = NoEvent /\ next[t] = NoEvent
  BY IdleHasNothing
<1>2. InUse(b)' = InUse(b)
  BY <1>1 DEF InUse, Owns, Has
<1>3. Undecided(b) => Undecided(b)'
  BY <1>1 DEF Undecided, Has
<1>4. ASSUME NEW u \in Program, next[u] # NoEvent, Owns(u, b)
      PROVE  Unannounced(b)'
  BY <1>1, <1>4 DEF Unannounced, Owns
<1> QED
  BY <1>2, <1>3, <1>4 DEF EntryIsRight, Unannounced

\* While tracking is on, whatever realloc does to the order of the
\* announcements, an entry about a block that is gone or has changed has its
\* correction under way (MallocHooks.cpp:87-98).
THEOREM StaleEntriesAreCorrected == InjectionSpec => []EntriesAreLiveOrCorrected
<1> DEFINE Entries == ~Latched => \A a \in Addr : EntryIsRight(a)
<1>1. InjectionInit => Entries
  BY DEF InjectionInit, Init, EntryIsRight
<1>2. InjectionTypeOK /\ LifeInv /\ HooksInv /\ Entries
      /\ [InjectionNext]_injectionVars => Entries'
  <2> SUFFICES ASSUME InjectionTypeOK, LifeInv, HooksInv, Entries,
                      [InjectionNext]_injectionVars, ~Latched',
                      NEW b \in Addr
               PROVE  EntryIsRight(b)'
    OBVIOUS
  <2> USE ThreadFacts, ValueAssumption
  <2>0. ~Latched /\ EntryIsRight(b)
    BY SessionLatchedForGood
  <2> HIDE DEF Entries
  <2>1. CASE SameCalls /\ UNCHANGED <<next, silent>>
    <3>1. Undecided(b)' = Undecided(b)
      BY <2>1 DEF SameCalls, Undecided, Has
    <3>2. InUse(b)' = InUse(b)
      BY <2>1 DEF SameCalls, InUse, Owns, Has
    <3>3. Unannounced(b)' = Unannounced(b)
      BY <2>1, <3>1 DEF SameCalls, Unannounced, Owns, Has
    <3> QED
      BY <2>0, <2>1, <3>2, <3>3 DEF SameCalls, EntryIsRight
  <2>2. ASSUME NEW t \in Program, NEW a \in Addr, NEW s \in Size,
               Malloc(t, a, s)
        PROVE  EntryIsRight(b)'
    <3>1. AllocateEvent(a, s) # NoEvent /\ AllocateEvent(a, s).address = a
      BY HookEvents DEF Entry, AllocateEvent
    <3>2. /\ pc[t] = "idle" /\ pc'[t] = "track"
          /\ event'[t] = AllocateEvent(a, s)
          /\ \A u \in Threads : u # t => pc'[u] = pc[u] /\ event'[u] = event[u]
                                           /\ next'[u] = next[u]
          /\ \A c \in Addr : c # a => heap'[c] = heap[c]
          /\ silent' = silent \ {a}
          /\ announced' = announced
      BY <2>2 DEF Malloc, New, Goto, AllocateEvent, InjectionTypeOK, TypeOK,
                  queueVars
    <3>3. CASE b = a
      BY <3>1, <3>2, <3>3
         DEF EntryIsRight, Unannounced, Undecided, Has, Tracking
    <3>4. CASE b # a
      BY <2>0, <3>1, <3>2, <3>4, OtherEntries
    <3> QED
      BY <3>3, <3>4
  <2>3. ASSUME NEW t \in Program, NEW a \in Addr, NEW s \in Entry, Free(t, a, s)
        PROVE  EntryIsRight(b)'
    <3>1. DeallocateEvent(a, s) # NoEvent /\ DeallocateEvent(a, s).address = a
      BY HookEvents DEF DeallocateEvent
    <3>2. /\ pc[t] = "idle" /\ pc'[t] = "track"
          /\ event'[t] = DeallocateEvent(a, s)
          /\ \A u \in Threads : u # t => pc'[u] = pc[u] /\ event'[u] = event[u]
                                           /\ next'[u] = next[u]
          /\ UNCHANGED <<heap, silent, announced>>
      BY <2>3 DEF Free, Goto, InjectionTypeOK, TypeOK, queueVars
    <3> QED
      BY <2>0, <3>1, <3>2, OtherEntries
  <2>4. ASSUME NEW t \in Program, NEW a \in Addr, NEW c \in Addr, NEW s \in Size,
               ReallocMove(t, a, c, s)
        PROVE  EntryIsRight(b)'
    <3>1. /\ DeallocateEvent(a, None) # NoEvent
          /\ DeallocateEvent(a, None).address = a
          /\ AllocateEvent(c, s) # NoEvent /\ AllocateEvent(c, s).address = c
      BY HookEvents DEF DeallocateEvent, AllocateEvent, Entry
    <3>2. /\ pc[t] = "idle" /\ pc'[t] = "track"
          /\ event'[t] = DeallocateEvent(a, None)
          /\ next'[t] = AllocateEvent(c, s)
          /\ \A u \in Threads : u # t => pc'[u] = pc[u] /\ event'[u] = event[u]
                                           /\ next'[u] = next[u]
          /\ \A d \in Addr : d # a /\ d # c => heap'[d] = heap[d]
          /\ silent' = silent \ {c}
          /\ announced' = announced
      BY <2>4 DEF ReallocMove, Goto, InjectionTypeOK, TypeOK, queueVars
    <3>3. CASE b = a
      BY <3>1, <3>2, <3>3
         DEF EntryIsRight, Unannounced, Undecided, Has, Tracking
    <3>4. CASE b = c
      BY <3>1, <3>2, <3>4 DEF EntryIsRight, Unannounced, Owns
    <3>5. CASE b # a /\ b # c
      BY <2>0, <3>1, <3>2, <3>5, OtherEntries
    <3> QED
      BY <3>3, <3>4, <3>5
  <2>5. ASSUME NEW t \in Program, NEW a \in Addr, NEW s \in Size,
               ReallocInPlace(t, a, s)
        PROVE  EntryIsRight(b)'
    <3>1. AllocateEvent(a, s) # NoEvent /\ AllocateEvent(a, s).address = a
      BY HookEvents DEF Entry, AllocateEvent
    <3>2. /\ pc[t] = "idle" /\ pc'[t] = "track"
          /\ event'[t] = AllocateEvent(a, s)
          /\ \A u \in Threads : u # t => pc'[u] = pc[u] /\ event'[u] = event[u]
                                           /\ next'[u] = next[u]
          /\ \A c \in Addr : c # a => heap'[c] = heap[c]
          /\ UNCHANGED <<silent, announced>>
      BY <2>5 DEF ReallocInPlace, Goto, InjectionTypeOK, TypeOK, queueVars
    <3>3. CASE b = a
      BY <3>1, <3>2, <3>3
         DEF EntryIsRight, Unannounced, Undecided, Has, Tracking
    <3>4. CASE b # a
      BY <2>0, <3>1, <3>2, <3>4, OtherEntries
    <3> QED
      BY <3>3, <3>4
  <2>6. ASSUME NEW t \in Program, NEW a \in Addr, ReallocToZero(t, a)
        PROVE  EntryIsRight(b)'
    <3>1. /\ UNCHANGED <<pc, event, next, announced>>
          /\ silent' = silent \cup {a}
          /\ b # a => heap'[b] = heap[b]
      BY <2>6 DEF ReallocToZero, InjectionTypeOK, TypeOK, queueVars
    <3>2. CASE b # a
      <4>1. InUse(b)' = InUse(b) /\ Unannounced(b)' = Unannounced(b)
        BY <3>1, <3>2 DEF InUse, Unannounced, Undecided, Owns, Has
      <4> QED
        BY <2>0, <3>1, <4>1 DEF EntryIsRight
    <3> QED
      BY <3>1, <3>2 DEF EntryIsRight
  <2>7. ASSUME NEW t \in Threads, ReallocAnnounceNew(t)
        PROVE  EntryIsRight(b)'
    <3>1. /\ t \in Program /\ pc[t] = "real" /\ pc'[t] = "track"
          /\ \A u \in Threads :
               u # t => /\ pc'[u] = pc[u]
                        /\ event'[u] = event[u]
                        /\ next'[u] = next[u]
          /\ event'[t] = next[t] /\ next[t] # NoEvent /\ next'[t] = NoEvent
          /\ UNCHANGED <<heap, silent, announced>>
      BY <2>7 DEF ReallocAnnounceNew, Goto, InjectionTypeOK, TypeOK, queueVars
    <3>2. next[t].address # event[t].address
      BY <3>1 DEF HooksInv, MoveInv
    <3>3. InUse(b)' = InUse(b)
      BY <3>1, <3>2 DEF InUse, Owns, Has
    <3>4. Undecided(b) => Undecided(b)'
      BY <3>1 DEF Undecided, Has, Tracking
    <3>5. ASSUME NEW u \in Program, next[u] # NoEvent, Owns(u, b)
          PROVE  Unannounced(b)'
      <4>1. CASE u = t
        BY <3>1, <3>5, <4>1 DEF Unannounced, Undecided, Owns, Has, Tracking
      <4>2. CASE u # t
        BY <3>1, <3>5, <4>2 DEF Unannounced, Owns
      <4> QED
        BY <4>1, <4>2
    <3> QED
      BY <2>0, <3>1, <3>3, <3>4, <3>5 DEF EntryIsRight, Unannounced
  <2>8. ASSUME NEW t \in Threads, Ends(t), UNCHANGED <<next, silent>>
        PROVE  EntryIsRight(b)'
    <3> DEFINE a == event[t].address
    <3>1. /\ pc[t] \in Tracking /\ event[t] # NoEvent
          /\ event[t] \in Event /\ a \in Addr
          /\ \/ pc'[t] = "real" /\ event'[t] = event[t]
                /\ event[t].type = "Deallocate"
             \/ pc'[t] = "idle" /\ event'[t] = NoEvent
                /\ event[t].type = "Allocate"
          /\ \A u \in Threads : u # t => pc'[u] = pc[u] /\ event'[u] = event[u]
          /\ UNCHANGED <<heap, next, silent>>
      BY <2>8, ReturnMoves DEF Ends, InjectionTypeOK, TypeOK, Event
    <3>2. /\ announced'[a] = Effect(event[t])
          /\ \A c \in Addr : c # a => announced'[c] = announced[c]
      BY <2>0, <2>8, <3>1
         DEF Ends, Push, LifeInv, ShutdownInv, InjectionTypeOK, TypeOK
    <3>3. event[t].type = "Allocate" => next[t] = NoEvent
      BY <3>1 DEF HooksInv, MoveInv, InjectionTypeOK
    <3>4. CASE b # a
      <4>1. InUse(b)' = InUse(b)
        BY <3>1, <3>3, <3>4 DEF InUse, Owns, Has
      <4>2. Unannounced(b) => Unannounced(b)'
        <5>1. Undecided(b) => Undecided(b)'
          BY <3>1, <3>4 DEF Undecided, Has
        <5>2. \A u \in Program :
                next[u] # NoEvent /\ Owns(u, b) => Unannounced(b)'
          BY <3>1 DEF Unannounced, Owns
        <5> QED
          BY <5>1, <5>2 DEF Unannounced
      <4> QED
        BY <2>0, <3>1, <3>2, <3>4, <4>1, <4>2 DEF EntryIsRight
    <3>5. CASE b = a /\ event[t].type = "Allocate"
      <4>1. t \in Program
        BY <3>1, <3>5 DEF HooksInv, TraceInv, InCall
      <4>2. Owns(t, b) /\ heap[b] \in Size /\ event[t].size = heap[b]
        BY <3>1, <3>3, <3>5, <4>1 DEF HooksInv, BlockInv, Owns, Has
      <4>3. \A u \in Program : u # t => ~Owns(u, b)
        BY <4>1, <4>2 DEF HooksInv, BlockInv
      <4>4. ~\E u \in Program : pc'[u] = "real" /\ Owns(u, b)' /\ Has(u, b)'
        BY <3>1, <3>5, <4>1, <4>3 DEF Owns, Has
      <4>5. InUse(b)' = heap[b]
        BY <3>1, <4>2, <4>4 DEF InUse
      <4> QED
        BY <3>2, <3>5, <4>2, <4>5 DEF EntryIsRight, Effect
    <3>6. CASE b = a /\ event[t].type # "Allocate"
      BY <3>2, <3>6 DEF EntryIsRight, Effect
    <3> QED
      BY <3>4, <3>5, <3>6
  <2>9. ASSUME NEW t \in Threads, FreeForReal(t)
        PROVE  EntryIsRight(b)'
    <3> DEFINE a == event[t].address
    <3>1. /\ pc[t] = "real" /\ event[t] # NoEvent /\ a \in Addr
          /\ next[t] = NoEvent
          /\ pc'[t] \notin Tracking \cup {"real"}
          /\ event'[t] = NoEvent
          /\ \A u \in Threads : u # t => pc'[u] = pc[u] /\ event'[u] = event[u]
          /\ heap'[a] = None
          /\ \A c \in Addr : c # a => heap'[c] = heap[c]
          /\ UNCHANGED <<announced, next, silent>>
      BY <2>9 DEF FreeForReal, RealFree, Goto, InjectionTypeOK, TypeOK, Event,
                  queueVars, Tracking
    <3>2. Unannounced(b) => Unannounced(b)'
      <4>1. Undecided(b) => Undecided(b)'
        BY <3>1 DEF Undecided, Has, Tracking
      <4>2. \A u \in Program :
              next[u] # NoEvent /\ Owns(u, b) => Unannounced(b)'
        BY <3>1 DEF Unannounced, Owns
      <4> QED
        BY <4>1, <4>2 DEF Unannounced
    <3>3. CASE b # a
      <4>1. InUse(b)' = InUse(b)
        BY <3>1, <3>3 DEF InUse, Owns, Has
      <4> QED
        BY <2>0, <3>1, <3>2, <4>1 DEF EntryIsRight
    <3>4. CASE b = a
      <4>1. InUse(b) = None
        <5>1. CASE t \in Program
          BY <3>1, <3>4, <5>1 DEF InUse, Owns, Has
        <5>2. CASE t = Tracker
          <6>1. heap[b] = Internal
            BY <3>1, <3>4, <5>2
               DEF HooksInv, TraceInv, InCall, InjectionTypeOK, TypeOK
          <6> QED
            BY <6>1 DEF InUse
        <5> QED
          BY <5>1, <5>2
      <4>2. InUse(b)' = None
        BY <3>1, <3>4 DEF InUse
      <4> QED
        BY <2>0, <3>1, <3>2, <4>1, <4>2 DEF EntryIsRight
    <3> QED
      BY <3>3, <3>4
  <2>10. CASE (TakeEvent \/ Handle) /\ UNCHANGED <<next, silent>>
    <3>1. /\ pc[Tracker] \notin Tracking
          /\ \A u \in Program : pc'[u] = pc[u] /\ event'[u] = event[u]
          /\ heap'[b] = heap[b] \/ (heap[b] = None /\ heap'[b] = Internal)
          /\ UNCHANGED <<announced, next, silent>>
      BY <2>10 DEF TakeEvent, Handle, Goto, InjectionTypeOK, TypeOK, Tracking,
                   queueVars
    <3>2. InUse(b)' = InUse(b)
      BY <3>1 DEF InUse, Owns, Has
    <3>3. Undecided(b) => Undecided(b)'
      BY <3>1 DEF Undecided, Has
    <3>4. \A u \in Program : Owns(u, b)' <=> Owns(u, b)
      BY <3>1 DEF Owns, Has
    <3> QED
      BY <2>0, <3>1, <3>2, <3>3, <3>4 DEF EntryIsRight, Unannounced
  <2> QED
    BY <2>1, <2>2, <2>3, <2>4, <2>5, <2>6, <2>7, <2>8, <2>9, <2>10,
       BlockSteps DEF HooksInv
<1>3. Entries => EntriesAreLiveOrCorrected
  BY DEF EntriesAreLiveOrCorrected, EntryIsRight, Latched
<1> QED
  BY <1>1, <1>2, <1>3, InjectionTypeCorrect, SessionLifeCycle,
     HooksOwnTheirBlocks, PTL DEF InjectionSpec

\* At the moment tracking is switched off the report may list what the map
\* holds, and what the calls that are past the check will push.
LEMMA SessionLatchAllows ==
  ASSUME InjectionTypeOK, LifeInv, HooksInv, EntriesAreLiveOrCorrected,
         SessionLatch
  PROVE  ListedInv'
<1> USE ThreadFacts
<1>1. /\ \A a \in Addr :
           allowed'[a] = IF Unannounced(a) \/ a \in silent
                         THEN {InUse(a), announced[a], None}
                         ELSE {InUse(a)}
      /\ \A u \in Threads : pc'[u] = "push" => pc[u] = "push"
      /\ event' = event /\ announced' = announced
  BY DEF SessionLatch, Goto, InjectionTypeOK, TypeOK, queueVars
<1>2. initialized
  BY DEF SessionLatch, LifeInv, ShutdownInv
<1>3. \A a \in Addr : announced'[a] \in allowed'[a] \cup {None}
  BY <1>1, <1>2 DEF EntriesAreLiveOrCorrected
<1>4. ASSUME NEW u \in Threads, pc[u] = "push"
      PROVE  /\ event[u].address \in Addr
             /\ Effect(event[u]) \in allowed'[event[u].address] \cup {None}
  <2> DEFINE a == event[u].address
  <2>1. event[u] # NoEvent /\ event[u] \in Event /\ a \in Addr
    BY <1>4 DEF InjectionTypeOK, TypeOK, Event
  <2>2. CASE event[u].type # "Allocate"
    BY <2>1, <2>2 DEF Effect
  <2>3. CASE event[u].type = "Allocate"
    <3>1. u \in Program
      BY <1>4, <2>1, <2>3 DEF HooksInv, TraceInv, InCall, Tracking
    <3>2. next[u] = NoEvent
      BY <2>3, <3>1 DEF HooksInv, MoveInv
    <3>3. Owns(u, a) /\ heap[a] \in Size /\ event[u].size = heap[a]
      BY <2>1, <2>3, <3>1, <3>2 DEF HooksInv, BlockInv, Owns, Has
    <3>4. \A w \in Program : pc[w] = "real" => ~Owns(w, a)
      BY <1>4, <2>1, <3>1, <3>3 DEF HooksInv, BlockInv
    <3>5. InUse(a) = heap[a]
      BY <3>3, <3>4 DEF InUse
    <3>6. Unannounced(a)
      BY <1>4, <2>1 DEF Unannounced, Undecided, Has, Tracking
    <3>7. Effect(event[u]) = InUse(a)
      BY <2>3, <3>3, <3>5 DEF Effect
    <3>8. InUse(a) \in allowed'[a]
      BY <1>1, <2>1, <3>6
    <3> QED
      BY <2>1, <3>7, <3>8
  <2> QED
    BY <2>2, <2>3
<1> QED
  BY <1>1, <1>3, <1>4 DEF ListedInv, Effect

\* Once tracking is off, no more calls get through to the queue, and only those
\* that are past the check touch the map.
LEMMA SessionNoNewPush ==
  ASSUME InjectionTypeOK, LifeInv, [InjectionNext]_injectionVars, Latched
  PROVE  /\ \A u \in Threads :
              pc'[u] = "push" => pc[u] = "push" /\ event'[u] = event[u]
         /\ \/ announced' = announced
            \/ \E t \in Threads : Push(t) /\ ~stopped
<1> USE ThreadFacts
<1>1. CASE SharedStep
  <2>1. [Next]_vars /\ TypeOK
    BY <1>1, SharedStepIsNext DEF InjectionTypeOK
  <2>2. StopQueue \/ ReportLeaks => announced' = announced
    BY DEF StopQueue, ReportLeaks, queueVars
  <2> QED
    BY <2>1, <2>2, NoNewPush, VisibleSteps
<1>2. CASE HookStep
  <2>1. announced' = announced
    BY <1>2, HookStepIsLocal DEF queueVars
  <2>2. ASSUME NEW u \in Threads, pc'[u] = "push"
        PROVE  pc[u] = "push" /\ event'[u] = event[u]
    BY <1>2, <2>2, HookStepIsLocal DEF InjectionTypeOK, TypeOK
  <2> QED
    BY <2>1, <2>2
<1>3. ~SessionLatch
  BY DEF SessionLatch, Latched, LifeInv, ShutdownInv
<1> QED
  BY <1>1, <1>2, <1>3, InjectionSteps

\* Whatever calls still get through once tracking is off, the map lists no block
\* that the report may not list.
THEOREM MapStaysListed == InjectionSpec => []ListedInv
<1>1. InjectionInit => ListedInv
  BY DEF InjectionInit, Init, ListedInv, Latched
<1>2. /\ InjectionTypeOK /\ LifeInv /\ HooksInv /\ EntriesAreLiveOrCorrected
      /\ ListedInv /\ [InjectionNext]_injectionVars
      => ListedInv'
  <2> SUFFICES ASSUME InjectionTypeOK, LifeInv, HooksInv,
                      EntriesAreLiveOrCorrected, ListedInv,
                      [InjectionNext]_injectionVars
               PROVE  ListedInv'
    OBVIOUS
  <2>1. CASE SessionLatch
    BY <2>1, SessionLatchAllows
  <2>2. CASE ~Latched /\ ~SessionLatch
    BY <2>2, SessionLatchedForGood DEF ListedInv
  <2>3. CASE Latched /\ ~SessionLatch
    <3>1. allowed' = allowed
      BY <2>3, SessionLatchedForGood
    <3>2. ASSUME NEW t \in Threads, Push(t), ~stopped
          PROVE  \A a \in Addr : announced'[a] \in allowed[a] \cup {None}
      <4>1. /\ pc[t] = "push"
            /\ announced' = [announced EXCEPT ![event[t].address] =
                                                Effect(event[t])]
        BY <3>2 DEF Push
      <4> QED
        BY <2>3, <4>1 DEF ListedInv, InjectionTypeOK, TypeOK
    <3>3. \A a \in Addr : announced'[a] \in allowed[a] \cup {None}
      BY <2>3, <3>2, SessionNoNewPush DEF ListedInv
    <3>4. \A t \in Threads :
            pc'[t] = "push" =>
              Effect(event'[t]) \in allowed[event'[t].address] \cup {None}
      BY <2>3, SessionNoNewPush DEF ListedInv
    <3> QED
      BY <3>1, <3>3, <3>4 DEF ListedInv, Effect
  <2> QED
    BY <2>1, <2>2, <2>3
<1> QED
  BY <1>1, <1>2, InjectionTypeCorrect, SessionLifeCycle, HooksOwnTheirBlocks,
     StaleEntriesAreCorrected, PTL DEF InjectionSpec

\* No false leak: the report of the injected library lists only blocks that the
\* program held when tracking was switched off, with their sizes, but for those
\* a call under way was announcing and those that realloc(p, 0) freed
\* (MallocHooks.cpp:87-98, Tracker.cpp:37).
THEOREM NoBlockIsBlamed == InjectionSpec => []NoFalseLeak
<1>1. InjectionTypeOK /\ LifeInv /\ ListedInv /\ ReportInv => NoFalseLeak
  <2> SUFFICES ASSUME InjectionTypeOK, LifeInv, ListedInv, ReportInv,
                      report # NoReport, NEW a \in Addr, report[a] # None
               PROVE  report[a] \in allowed[a]
    BY DEF NoFalseLeak
  <2>1. Latched /\ report = announced
    BY DEF LifeInv, ShutdownInv, ReportInv
  <2> QED
    BY <2>1 DEF ListedInv
<1> QED
  BY <1>1, InjectionTypeCorrect, SessionLifeCycle, MapStaysListed,
     SessionReportIsComplete, PTL

-----------------------------------------------------------------------------
(* What the two bugs of realloc account for                                *)

\* MapHoldsOnlyAllocated, which realloc(p, 0) violates, holds but for that: where
\* no address is left that it freed, as on macOS and under the Heap functions of
\* Windows, the map holds nothing that is gone (README.md:27,
\* MallocHooks.cpp:92).
THEOREM SilentFreesAloneAreKept ==
  InjectionSpec => [](silent = {} => MapHoldsOnlyAllocated)
<1>1. /\ InjectionTypeOK /\ LifeInv /\ MapCatchesUp /\ EntriesAreLiveOrCorrected
      => (silent = {} => MapHoldsOnlyAllocated)
  <2> SUFFICES ASSUME InjectionTypeOK, LifeInv, MapCatchesUp,
                      EntriesAreLiveOrCorrected, silent = {},
                      initialized, queue = <<>>, pc[Tracker] = "wait",
                      NEW a \in Addr
               PROVE  allocations[a] \in {InUse(a), None} \/ Unannounced(a)
    BY DEF MapHoldsOnlyAllocated
  <2>1. About(a) = {}
    BY DEF About
  <2>2. allocations[a] = announced[a]
    BY <2>1 DEF MapCatchesUp
  <2> QED
    BY <2>2 DEF EntriesAreLiveOrCorrected
<1> QED
  BY <1>1, InjectionTypeCorrect, SessionLifeCycle, InjectedMapLagsByQueue,
     StaleEntriesAreCorrected, PTL

\* A realloc takes a block away from an address in A.
MovesFrom(A) ==
  \E t \in Program, a \in A, b \in Addr, s \in Size : ReallocMove(t, a, b, s)

\* No late announcement is about an address in A.
InTurn(A) ==
  \A t \in Program : next[t] # NoEvent => event[t].address \notin A

\* A block that is in use is in the map, or a call has still to announce it.
EntryIsThere(b) == InUse(b) # None => announced[b] # None \/ Unannounced(b)

\* While tracking is on, no block at an address in A is forgotten.
ThereInv(A) ==
  /\ InTurn(A)
  /\ ~Latched => \A b \in A : EntryIsThere(b)

\* Once tracking is off, no call that is past the check takes a block out of the
\* map that the report must list.
KeptInv(A) ==
  Latched =>
    \A a \in A :
      None \notin allowed[a] =>
        /\ announced[a] # None
        /\ \A t \in Threads : pc[t] = "push" => event[t].address # a

\* A call that begins for other addresses leaves an entry where it is.
LEMMA OtherIsThere ==
  ASSUME InjectionTypeOK, HooksInv, NEW t \in Program, pc[t] = "idle",
         pc'[t] = "track", event'[t] # NoEvent,
         \A u \in Threads : u # t => pc'[u] = pc[u] /\ event'[u] = event[u]
                                       /\ next'[u] = next[u],
         announced' = announced,
         NEW b \in Addr, heap'[b] = heap[b], EntryIsThere(b)
  PROVE  EntryIsThere(b)'
<1> USE ThreadFacts
<1>1. event[t] = NoEvent /\ next[t] = NoEvent
  BY IdleHasNothing
<1>2. InUse(b)' = InUse(b)
  BY <1>1 DEF InUse, Owns, Has
<1>3. Undecided(b) => Undecided(b)'
  BY <1>1 DEF Undecided, Has
<1>4. ASSUME NEW u \in Program, next[u] # NoEvent, Owns(u, b)
      PROVE  Unannounced(b)'
  BY <1>1, <1>4 DEF Unannounced, Owns
<1> QED
  BY <1>2, <1>3, <1>4 DEF EntryIsThere, Unannounced

\* The late announcements stay with the addresses that realloc moves from.
LEMMA InTurnStep ==
  ASSUME InjectionTypeOK, LifeInv, HooksInv, NEW A \in SUBSET Addr, InTurn(A),
         [InjectionNext]_injectionVars, ~MovesFrom(A)
  PROVE  InTurn(A)'
<1> USE ThreadFacts
<1>1. CASE SameCalls /\ UNCHANGED <<next, silent>>
  BY <1>1 DEF SameCalls, InTurn
<1>2. ASSUME NEW t \in Program, pc[t] = "idle", next' = next,
             \A u \in Threads : u # t => event'[u] = event[u]
      PROVE  InTurn(A)'
  BY <1>2, IdleHasNothing DEF InTurn
<1>3. ASSUME NEW t \in Program, NEW a \in Addr, NEW s \in Entry,
             \/ s \in Size /\ (Malloc(t, a, s) \/ ReallocInPlace(t, a, s))
             \/ Free(t, a, s)
      PROVE  InTurn(A)'
  BY <1>2, <1>3
     DEF Malloc, New, Free, ReallocInPlace, InjectionTypeOK, TypeOK
<1>4. ASSUME NEW t \in Program, NEW a \in Addr, NEW b \in Addr, NEW s \in Size,
             ReallocMove(t, a, b, s)
      PROVE  InTurn(A)'
  <2>1. a \notin A
    BY <1>4 DEF MovesFrom
  <2>2. DeallocateEvent(a, None).address = a
    BY DEF DeallocateEvent
  <2>3. /\ event'[t] = DeallocateEvent(a, None)
        /\ \A u \in Threads : u # t => event'[u] = event[u] /\ next'[u] = next[u]
    BY <1>4 DEF ReallocMove, InjectionTypeOK, TypeOK
  <2> QED
    BY <2>1, <2>2, <2>3 DEF InTurn
<1>5. ASSUME NEW t \in Program, NEW a \in Addr, ReallocToZero(t, a)
      PROVE  InTurn(A)'
  BY <1>5 DEF ReallocToZero, InTurn
<1>6. ASSUME NEW t \in Threads, ReallocAnnounceNew(t)
      PROVE  InTurn(A)'
  BY <1>6 DEF ReallocAnnounceNew, InTurn, InjectionTypeOK, TypeOK
<1>7. ASSUME NEW t \in Threads, Ends(t), UNCHANGED <<next, silent>>
      PROVE  InTurn(A)'
  <2>1. /\ event'[t] = event[t] \/ event[t].type = "Allocate"
        /\ \A u \in Threads : u # t => event'[u] = event[u]
    BY <1>7, ReturnMoves DEF Ends, InjectionTypeOK, TypeOK, Event
  <2>2. t \in Program /\ event[t].type = "Allocate" => next[t] = NoEvent
    BY DEF HooksInv, MoveInv
  <2> QED
    BY <1>7, <2>1, <2>2 DEF InTurn
<1>8. ASSUME NEW t \in Threads, FreeForReal(t)
      PROVE  InTurn(A)'
  BY <1>8 DEF FreeForReal, RealFree, InTurn, InjectionTypeOK, TypeOK
<1>9. CASE (TakeEvent \/ Handle) /\ UNCHANGED <<next, silent>>
  BY <1>9 DEF TakeEvent, Handle, InTurn, InjectionTypeOK, TypeOK
<1> QED
  BY <1>1, <1>3, <1>4, <1>5, <1>6, <1>7, <1>8, <1>9, BlockSteps
     DEF HooksInv, Entry

\* While tracking is on, a block that is in use does not go missing from the map
\* at an address that no realloc moves from.
LEMMA ThereStep ==
  ASSUME InjectionTypeOK, LifeInv, HooksInv, NEW A \in SUBSET Addr, ThereInv(A),
         [InjectionNext]_injectionVars, ~MovesFrom(A)
  PROVE  ThereInv(A)'
<1> USE ThreadFacts, ValueAssumption
<1>1. InTurn(A) /\ InTurn(A)'
  BY InTurnStep DEF ThereInv
<1>2. ASSUME ~Latched', NEW b \in A
      PROVE  EntryIsThere(b)'
  <2>0. ~Latched /\ EntryIsThere(b) /\ b \in Addr
    BY <1>2, SessionLatchedForGood DEF ThereInv
  <2>1. CASE SameCalls /\ UNCHANGED <<next, silent>>
    <3>1. Undecided(b)' = Undecided(b)
      BY <2>1 DEF SameCalls, Undecided, Has
    <3>2. InUse(b)' = InUse(b)
      BY <2>1 DEF SameCalls, InUse, Owns, Has
    <3>3. Unannounced(b)' = Unannounced(b)
      BY <2>1, <3>1 DEF SameCalls, Unannounced, Owns, Has
    <3> QED
      BY <2>0, <2>1, <3>2, <3>3 DEF SameCalls, EntryIsThere
  <2>2. ASSUME NEW t \in Program, NEW a \in Addr, NEW s \in Size,
               Malloc(t, a, s) \/ ReallocInPlace(t, a, s)
        PROVE  EntryIsThere(b)'
    <3>1. AllocateEvent(a, s) # NoEvent /\ AllocateEvent(a, s).address = a
      BY HookEvents DEF Entry, AllocateEvent
    <3>2. /\ pc[t] = "idle" /\ pc'[t] = "track"
          /\ event'[t] = AllocateEvent(a, s)
          /\ \A u \in Threads : u # t => pc'[u] = pc[u] /\ event'[u] = event[u]
                                           /\ next'[u] = next[u]
          /\ \A c \in Addr : c # a => heap'[c] = heap[c]
          /\ announced' = announced
      BY <2>2 DEF Malloc, New, ReallocInPlace, Goto, AllocateEvent,
                  InjectionTypeOK, TypeOK, queueVars
    <3>3. CASE b = a
      BY <3>1, <3>2, <3>3
         DEF EntryIsThere, Unannounced, Undecided, Has, Tracking
    <3>4. CASE b # a
      BY <2>0, <3>1, <3>2, <3>4, OtherIsThere
    <3> QED
      BY <3>3, <3>4
  <2>3. ASSUME NEW t \in Program, NEW a \in Addr, NEW s \in Entry, Free(t, a, s)
        PROVE  EntryIsThere(b)'
    <3>1. DeallocateEvent(a, s) # NoEvent
      BY HookEvents
    <3>2. /\ pc[t] = "idle" /\ pc'[t] = "track"
          /\ event'[t] = DeallocateEvent(a, s)
          /\ \A u \in Threads : u # t => pc'[u] = pc[u] /\ event'[u] = event[u]
                                           /\ next'[u] = next[u]
          /\ UNCHANGED <<heap, announced>>
      BY <2>3 DEF Free, Goto, InjectionTypeOK, TypeOK, queueVars
    <3> QED
      BY <2>0, <3>1, <3>2, OtherIsThere
  <2>4. ASSUME NEW t \in Program, NEW a \in Addr, NEW c \in Addr, NEW s \in Size,
               ReallocMove(t, a, c, s)
        PROVE  EntryIsThere(b)'
    <3>1. /\ DeallocateEvent(a, None) # NoEvent
          /\ AllocateEvent(c, s) # NoEvent /\ AllocateEvent(c, s).address = c
      BY HookEvents DEF AllocateEvent, Entry
    <3>2. /\ pc[t] = "idle" /\ pc'[t] = "track"
          /\ event'[t] = DeallocateEvent(a, None)
          /\ next'[t] = AllocateEvent(c, s)
          /\ \A u \in Threads : u # t => pc'[u] = pc[u] /\ event'[u] = event[u]
                                           /\ next'[u] = next[u]
          /\ \A d \in Addr : d # a /\ d # c => heap'[d] = heap[d]
          /\ announced' = announced
      BY <2>4 DEF ReallocMove, Goto, InjectionTypeOK, TypeOK, queueVars
    <3>3. b # a
      BY <1>2, <2>4 DEF MovesFrom
    <3>4. CASE b = c
      BY <3>1, <3>2, <3>4 DEF EntryIsThere, Unannounced, Owns
    <3>5. CASE b # c
      BY <2>0, <3>1, <3>2, <3>3, <3>5, OtherIsThere
    <3> QED
      BY <3>4, <3>5
  <2>5. ASSUME NEW t \in Program, NEW a \in Addr, ReallocToZero(t, a)
        PROVE  EntryIsThere(b)'
    <3>1. /\ UNCHANGED <<pc, event, next, announced>>
          /\ b # a => heap'[b] = heap[b]
          /\ b = a => heap'[b] = None
      BY <2>0, <2>5 DEF ReallocToZero, InjectionTypeOK, TypeOK, queueVars
    <3>2. Unannounced(b)' = Unannounced(b)
      BY <3>1 DEF Unannounced, Undecided, Owns, Has
    <3>3. InUse(b)' = InUse(b) \/ InUse(b)' = None
      BY <3>1 DEF InUse, Owns, Has
    <3> QED
      BY <2>0, <3>1, <3>2, <3>3 DEF EntryIsThere
  <2>6. ASSUME NEW t \in Threads, ReallocAnnounceNew(t)
        PROVE  EntryIsThere(b)'
    <3>1. /\ t \in Program /\ pc[t] = "real" /\ pc'[t] = "track"
          /\ \A u \in Threads :
               u # t => /\ pc'[u] = pc[u]
                        /\ event'[u] = event[u]
                        /\ next'[u] = next[u]
          /\ event'[t] = next[t] /\ next[t] # NoEvent /\ next'[t] = NoEvent
          /\ UNCHANGED <<heap, announced>>
      BY <2>6 DEF ReallocAnnounceNew, Goto, InjectionTypeOK, TypeOK, queueVars
    <3>2. next[t].address # event[t].address
      BY <3>1 DEF HooksInv, MoveInv
    <3>3. InUse(b)' = InUse(b)
      BY <3>1, <3>2 DEF InUse, Owns, Has
    <3>4. Undecided(b) => Undecided(b)'
      BY <3>1 DEF Undecided, Has, Tracking
    <3>5. ASSUME NEW u \in Program, next[u] # NoEvent, Owns(u, b)
          PROVE  Unannounced(b)'
      <4>1. CASE u = t
        BY <3>1, <3>5, <4>1 DEF Unannounced, Undecided, Owns, Has, Tracking
      <4>2. CASE u # t
        BY <3>1, <3>5, <4>2 DEF Unannounced, Owns
      <4> QED
        BY <4>1, <4>2
    <3> QED
      BY <2>0, <3>1, <3>3, <3>4, <3>5 DEF EntryIsThere, Unannounced
  <2>7. ASSUME NEW t \in Threads, Ends(t), UNCHANGED <<next, silent>>
        PROVE  EntryIsThere(b)'
    <3> DEFINE a == event[t].address
    <3>1. /\ pc[t] \in Tracking /\ event[t] # NoEvent
          /\ event[t] \in Event /\ a \in Addr
          /\ \/ pc'[t] = "real" /\ event'[t] = event[t]
                /\ event[t].type = "Deallocate"
             \/ pc'[t] = "idle" /\ event'[t] = NoEvent
                /\ event[t].type = "Allocate"
          /\ \A u \in Threads : u # t => pc'[u] = pc[u] /\ event'[u] = event[u]
          /\ UNCHANGED <<heap, next>>
      BY <2>7, ReturnMoves DEF Ends, InjectionTypeOK, TypeOK, Event
    <3>2. /\ announced'[a] = Effect(event[t])
          /\ \A c \in Addr : c # a => announced'[c] = announced[c]
      BY <2>0, <2>7, <3>1
         DEF Ends, Push, LifeInv, ShutdownInv, InjectionTypeOK, TypeOK
    <3>3. event[t].type = "Allocate" => next[t] = NoEvent
      BY <3>1 DEF HooksInv, MoveInv, InjectionTypeOK
    <3>4. CASE b # a
      <4>1. InUse(b)' = InUse(b)
        BY <3>1, <3>3, <3>4 DEF InUse, Owns, Has
      <4>2. Unannounced(b) => Unannounced(b)'
        <5>1. Undecided(b) => Undecided(b)'
          BY <3>1, <3>4 DEF Undecided, Has
        <5>2. \A u \in Program :
                next[u] # NoEvent /\ Owns(u, b) => Unannounced(b)'
          BY <3>1 DEF Unannounced, Owns
        <5> QED
          BY <5>1, <5>2 DEF Unannounced
      <4> QED
        BY <2>0, <3>2, <3>4, <4>1, <4>2 DEF EntryIsThere
    <3>5. CASE b = a /\ event[t].type = "Allocate"
      <4>1. t \in Program
        BY <3>1, <3>5 DEF HooksInv, TraceInv, InCall
      <4>2. heap[b] \in Size /\ event[t].size = heap[b]
        BY <3>1, <3>3, <3>5, <4>1 DEF HooksInv, BlockInv, Owns, Has
      <4> QED
        BY <3>2, <3>5, <4>2 DEF EntryIsThere, Effect
    <3>6. CASE b = a /\ event[t].type # "Allocate"
      <4>1. CASE t \in Program
        <5>1. next[t] = NoEvent
          BY <1>1, <1>2, <3>6, <4>1 DEF InTurn
        <5>2. pc'[t] = "real" /\ Owns(t, b)' /\ Has(t, b)'
          BY <3>1, <3>6, <5>1 DEF Owns, Has
        <5> QED
          BY <4>1, <5>2 DEF EntryIsThere, InUse
      <4>2. CASE t = Tracker
        BY <3>1, <3>6, <4>2
           DEF HooksInv, TraceInv, InCall, EntryIsThere, InUse,
               InjectionTypeOK, TypeOK
      <4> QED
        BY <4>1, <4>2
    <3> QED
      BY <3>4, <3>5, <3>6
  <2>8. ASSUME NEW t \in Threads, FreeForReal(t)
        PROVE  EntryIsThere(b)'
    <3> DEFINE a == event[t].address
    <3>1. /\ pc[t] = "real" /\ event[t] # NoEvent /\ a \in Addr
          /\ next[t] = NoEvent
          /\ event'[t] = NoEvent
          /\ pc'[t] \notin Tracking \cup {"real"}
          /\ \A u \in Threads : u # t => pc'[u] = pc[u] /\ event'[u] = event[u]
          /\ heap'[a] = None
          /\ \A c \in Addr : c # a => heap'[c] = heap[c]
          /\ UNCHANGED <<announced, next>>
      BY <2>8 DEF FreeForReal, RealFree, Goto, InjectionTypeOK, TypeOK, Event,
                  queueVars, Tracking
    <3>2. CASE b # a
      <4>1. InUse(b)' = InUse(b)
        BY <2>0, <3>1, <3>2 DEF InUse, Owns, Has
      <4>2. Undecided(b) => Undecided(b)'
        BY <3>1, <3>2 DEF Undecided, Has, Tracking
      <4>3. \A u \in Program :
              next[u] # NoEvent /\ Owns(u, b) => Unannounced(b)'
        BY <3>1 DEF Unannounced, Owns
      <4> QED
        BY <2>0, <3>1, <4>1, <4>2, <4>3 DEF EntryIsThere, Unannounced
    <3>3. CASE b = a
      BY <3>1, <3>3 DEF EntryIsThere, InUse
    <3> QED
      BY <3>2, <3>3
  <2>9. CASE (TakeEvent \/ Handle) /\ UNCHANGED <<next, silent>>
    <3>1. /\ pc[Tracker] \notin Tracking
          /\ \A u \in Program : pc'[u] = pc[u] /\ event'[u] = event[u]
          /\ heap'[b] = heap[b] \/ (heap[b] = None /\ heap'[b] = Internal)
          /\ UNCHANGED <<announced, next>>
      BY <2>0, <2>9 DEF TakeEvent, Handle, Goto, InjectionTypeOK, TypeOK,
                        Tracking, queueVars
    <3>2. InUse(b)' = InUse(b)
      BY <3>1 DEF InUse, Owns, Has
    <3>3. Undecided(b) => Undecided(b)'
      BY <3>1 DEF Undecided, Has
    <3>4. \A u \in Program : Owns(u, b)' <=> Owns(u, b)
      BY <3>1 DEF Owns, Has
    <3> QED
      BY <2>0, <3>1, <3>2, <3>3, <3>4 DEF EntryIsThere, Unannounced
  <2> QED
    BY <2>1, <2>2, <2>3, <2>4, <2>5, <2>6, <2>7, <2>8, <2>9, BlockSteps
       DEF HooksInv
<1> QED
  BY <1>1, <1>2 DEF ThereInv

\* Once tracking is off, what the report must list stays in the map.
LEMMA KeptStep ==
  ASSUME InjectionTypeOK, LifeInv, HooksInv, NEW A \in SUBSET Addr, ThereInv(A),
         KeptInv(A), [InjectionNext]_injectionVars
  PROVE  KeptInv(A)'
<1> USE ThreadFacts, ValueAssumption
<1>1. CASE SessionLatch
  <2> SUFFICES ASSUME NEW a \in A, None \notin allowed'[a]
               PROVE  /\ announced'[a] # None
                      /\ \A t \in Threads :
                           pc'[t] = "push" => event'[t].address # a
    BY DEF KeptInv
  <2>1. /\ ~Latched
        /\ allowed'[a] = IF Unannounced(a) \/ a \in silent
                         THEN {InUse(a), announced[a], None}
                         ELSE {InUse(a)}
        /\ \A t \in Threads : pc'[t] = "push" => pc[t] = "push"
        /\ UNCHANGED <<event, announced>>
    BY <1>1
       DEF SessionLatch, Goto, Latched, LifeInv, ShutdownInv, InjectionTypeOK,
           TypeOK, queueVars
  <2>2. InUse(a) # None /\ ~Unannounced(a)
    BY <2>1
  <2>3. announced'[a] # None
    BY <2>1, <2>2 DEF ThereInv, EntryIsThere
  <2>4. ASSUME NEW t \in Threads, pc[t] = "push"
        PROVE  event[t].address # a
    BY <2>2, <2>4
       DEF Unannounced, Undecided, Has, Tracking, InjectionTypeOK, TypeOK
  <2> QED
    BY <2>1, <2>3, <2>4
<1>2. CASE ~Latched /\ ~SessionLatch
  BY <1>2, SessionLatchedForGood DEF KeptInv
<1>3. CASE Latched /\ ~SessionLatch
  <2>1. allowed' = allowed
    BY <1>3, SessionLatchedForGood
  <2>2. \A t \in Threads :
          pc'[t] = "push" => pc[t] = "push" /\ event'[t] = event[t]
    BY <1>3, SessionNoNewPush
  <2>3. ASSUME NEW a \in A, None \notin allowed[a]
        PROVE  announced'[a] = announced[a]
    <3>1. ASSUME NEW t \in Threads, Push(t), ~stopped
          PROVE  announced'[a] = announced[a]
      <4>1. /\ pc[t] = "push"
            /\ announced' = [announced EXCEPT ![event[t].address] =
                                                Effect(event[t])]
        BY <3>1 DEF Push
      <4>2. event[t].address # a
        BY <1>3, <2>3, <4>1 DEF KeptInv
      <4> QED
        BY <4>1, <4>2 DEF InjectionTypeOK, TypeOK
    <3> QED
      BY <1>3, <3>1, SessionNoNewPush
  <2> QED
    BY <1>3, <2>1, <2>2, <2>3 DEF KeptInv
<1> QED
  BY <1>1, <1>2, <1>3

\* Both hold from the start, and in a run without moves from A.
LEMMA KeptInit ==
  ASSUME InjectionInit, NEW A \in SUBSET Addr
  PROVE  ThereInv(A) /\ KeptInv(A)
BY ThreadFacts, ValueAssumption
   DEF InjectionInit, Init, ThereInv, InTurn, KeptInv, EntryIsThere, InUse,
       Latched

LEMMA KeptWithoutMoves ==
  ASSUME InjectionTypeOK, LifeInv, HooksInv, NEW A \in SUBSET Addr, ThereInv(A),
         KeptInv(A), [InjectionNext]_injectionVars,
         [~MovesFrom(A)]_injectionVars
  PROVE  ThereInv(A)' /\ KeptInv(A)'
<1>1. KeptInv(A)'
  BY KeptStep
<1>2. CASE ~MovesFrom(A)
  BY <1>1, <1>2, ThereStep
<1>3. CASE UNCHANGED injectionVars
  <2>1. \A b \in Addr : EntryIsThere(b)' <=> EntryIsThere(b)
    BY <1>3
       DEF injectionVars, vars, queueVars, EntryIsThere, InUse, Unannounced,
           Undecided, Owns, Has
  <2>2. InTurn(A)' <=> InTurn(A)
    BY <1>3 DEF injectionVars, vars, InTurn
  <2> QED
    BY <1>1, <1>3, <2>1, <2>2
       DEF injectionVars, vars, lifeVars, ThereInv, Latched
<1> QED
  BY <1>2, <1>3

\* Then what the report says of A is what it may say.
LEMMA KeptIsExact ==
  ASSUME LifeInv, ReportInv, NoFalseLeak, NEW A \in SUBSET Addr, KeptInv(A),
         report # NoReport, NEW a \in A
  PROVE  report[a] \in allowed[a]
<1>1. Latched /\ report = announced
  BY DEF LifeInv, ShutdownInv, ReportInv
<1>2. report[a] = None => None \in allowed[a]
  BY <1>1 DEF KeptInv
<1> QED
  BY <1>2 DEF NoFalseLeak

\* PrintsEverythingOutstanding, which the late announcement of a moved block
\* violates, holds but for that: at every address from which no realloc has
\* moved a block the report is exact, as Runtime's is everywhere (README.md:27,
\* MallocHooks.cpp:90-93).
THEOREM MovesAloneLoseBlocks ==
  ASSUME NEW A \in SUBSET Addr
  PROVE  InjectionSpec /\ [][~MovesFrom(A)]_injectionVars
           => [](report # NoReport => \A a \in A : report[a] \in allowed[a])
<1>1. InjectionInit => ThereInv(A) /\ KeptInv(A)
  BY KeptInit
<1>2. /\ InjectionTypeOK /\ LifeInv /\ HooksInv /\ ThereInv(A) /\ KeptInv(A)
      /\ [InjectionNext]_injectionVars /\ [~MovesFrom(A)]_injectionVars
      => ThereInv(A)' /\ KeptInv(A)'
  BY KeptWithoutMoves
<1>3. LifeInv /\ ReportInv /\ KeptInv(A) /\ NoFalseLeak
      => (report # NoReport => \A a \in A : report[a] \in allowed[a])
  BY KeptIsExact
<1> QED
  BY <1>1, <1>2, <1>3, SessionLifeCycle, InjectionTypeCorrect,
     HooksOwnTheirBlocks, SessionReportIsComplete, NoBlockIsBlamed, PTL
     DEF InjectionSpec

\* So where realloc moves nothing, nothing that is outstanding is missing, and
\* nothing else is in the report.
THEOREM ReportIsExactWithoutMoves ==
  InjectionSpec /\ [][~MovesFrom(Addr)]_injectionVars
    => [](PrintsEverythingOutstanding /\ ReportExact)
<1>1. InjectionInit => ThereInv(Addr) /\ KeptInv(Addr)
  BY KeptInit
<1>2. /\ InjectionTypeOK /\ LifeInv /\ HooksInv
      /\ ThereInv(Addr) /\ KeptInv(Addr)
      /\ [InjectionNext]_injectionVars /\ [~MovesFrom(Addr)]_injectionVars
      => ThereInv(Addr)' /\ KeptInv(Addr)'
  BY KeptWithoutMoves
<1>3. LifeInv /\ ReportInv /\ KeptInv(Addr) /\ NoFalseLeak
      => PrintsEverythingOutstanding /\ ReportExact
  BY KeptIsExact DEF PrintsEverythingOutstanding, ReportExact
<1> QED
  BY <1>1, <1>2, <1>3, SessionLifeCycle, InjectionTypeCorrect,
     HooksOwnTheirBlocks, SessionReportIsComplete, NoBlockIsBlamed, PTL
     DEF InjectionSpec

==============================================================================
