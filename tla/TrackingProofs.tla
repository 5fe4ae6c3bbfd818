--------------------------- MODULE TrackingProofs ---------------------------
(***************************************************************************)
(* The safety properties of Tracking, proved for any number of program     *)
(* threads, any addresses and sizes, and any bound on the queue.           *)
(***************************************************************************)
EXTENDS Tracking, TLAPS

-----------------------------------------------------------------------------
(* The inductive invariant, in named parts                                 *)

\* shutdown() has switched tracking off for good.
Latched == initOnce = "done" /\ ~initialized

\* The once_flag lets one thread through, and it starts the tracker thread.
InitInv ==
  /\ initialized => initOnce = "done"
  /\ \A t \in Threads : pc[t] \in {"start", "publish"} => initOnce = "running"
  /\ \A t, u \in Threads :
       /\ pc[t] \in {"start", "publish"}
       /\ pc[u] \in {"start", "publish"}
       => t = u
  /\ \A t \in Threads : pc[t] = "start" => pc[Tracker] = "unborn"
  /\ initOnce = "fresh" => pc[Tracker] = "unborn"
  /\ \A t \in Threads : pc[t] \in {"recheck", "push"} => initOnce = "done"

\* Where the main thread is in shutdown() tells what has happened already.
ShutdownInv ==
  /\ pc[Main] = "latch" => initialized
  /\ pc[Main] \in {"stop", "join", "report", "complete"} =>
       Latched /\ ~shutdownComplete
  /\ pc[Main] = "stop" => ~stopped
  /\ pc[Main] \in {"join", "report", "complete"} => stopped
  /\ pc[Main] \in {"stop", "join", "report"} => report = NoReport
  /\ pc[Main] \in {"report", "complete"} => pc[Tracker] = "exited"
  /\ pc[Tracker] = "exited" => stopped /\ queue = <<>>
  /\ stopped \/ shutdownComplete => Latched
  /\ report # NoReport => stopped
  /\ shutdownComplete => stopped /\ pc[Tracker] = "exited"

\* Every event in hand is about a block its thread has to itself.
InCall(t) == pc[t] \in Tracking \cup {"real"} /\ event[t] # NoEvent

OwnInv ==
  /\ \A t \in Program : event[t] # NoEvent => InCall(t)
  /\ \A t \in Program :
       InCall(t) => /\ heap[event[t].address] \in Size
                    /\ event[t].by = "program"
                    /\ event[t].type = "Allocate"
                         => event[t].size = heap[event[t].address]
                    /\ event[t].type = "Deallocate"
                         => event[t].size \in {None, heap[event[t].address]}
  /\ \A t, u \in Program :
       InCall(t) /\ InCall(u) /\ event[t].address = event[u].address => t = u
  /\ InCall(Tracker) => /\ event[Tracker].type = "Deallocate"
                        /\ event[Tracker].address = trace
                        /\ event[Tracker].by = "tracker"
  /\ pc[Tracker] \in Tracking \cup {"real"} => event[Tracker] # NoEvent
  /\ pc[Tracker] \in {"unborn", "wait", "exited"} => trace = None
  /\ pc[Tracker] # "idle"
  /\ trace # None => heap[trace] = Internal
  /\ \A t \in Threads : pc[t] = "real" => event[t].type = "Deallocate"

\* Once tracking is off, what the map will become is among what the report may
\* say, whatever the calls that still reach the queue push.
AllowedInv ==
  Latched =>
    /\ \A a \in Addr : announced[a] \in allowed[a]
    /\ \A t \in Threads :
         pc[t] = "push" => Effect(event[t]) \in allowed[event[t].address]

\* The report is the map the accepted events amount to.
ReportInv == report # NoReport => report = announced

-----------------------------------------------------------------------------
(* Type correctness                                                        *)

LEMMA ThreadFacts ==
  /\ Main \in Threads /\ Tracker \in Threads /\ Main # Tracker
  /\ Program \subseteq Threads /\ Tracker \notin Program
  /\ \A t \in Threads : t # Tracker => t \in Program
BY ThreadAssumption DEF Threads

\* An event applied to the map leaves an entry of the right type.
LEMMA EffectType == \A e \in Event : Effect(e) \in Entry
BY DEF Event, Effect, Entry

LEMMA InitTypeOK == Init => TypeOK
<1> SUFFICES ASSUME Init PROVE TypeOK
  OBVIOUS
<1>1. pc \in [Threads -> PC]
  BY DEF Init, PC
<1>2. /\ \A t \in Program : pc[t] \notin {"unborn", "wait", "handle", "exited"}
      /\ \A t \in Threads : pc[t] \in {"unborn", "idle"}
  BY ThreadFacts DEF Init
<1>3. queue \in Seq(Event)
  BY DEF Init, Ch!Init
<1>4. stopped \in BOOLEAN
  BY DEF Init, Ch!Init
<1> QED
  BY <1>1, <1>2, <1>3, <1>4 DEF Init, TypeOK, Entry

\* A call that returns leaves the thread idle without an event, or with its
\* event about to free the block.
LEMMA ReturnType ==
  ASSUME TypeOK, NEW t \in Threads, pc[t] \in Tracking, Return(t)
  PROVE  /\ pc' \in [Threads -> PC]
         /\ \A u \in Program : pc'[u] \notin {"unborn", "wait", "handle", "exited"}
         /\ \A u \in Threads \ {Main} :
              pc'[u] \notin {"shutdown", "latch", "stop", "join", "report", "complete"}
         /\ event' \in [Threads -> Event \cup {NoEvent}]
         /\ \A u \in Threads : pc'[u] \in {"track", "latched", "push", "real", "handle"}
                               => event'[u] # NoEvent
BY ThreadFacts DEF TypeOK, Return, Goto, PC, Tracking

\* Every step of the pipeline keeps the types.
LEMMA TypeStep ==
  TypeOK /\ [Next]_vars => TypeOK'
<1> SUFFICES ASSUME TypeOK, [Next]_vars PROVE TypeOK'
  OBVIOUS
<1> USE ThreadFacts
<1>1. ASSUME NEW t \in Program, NEW a \in Addr, NEW s \in Size, New(t, a, s)
      PROVE  TypeOK'
  <2>1. [type |-> "Allocate", address |-> a, size |-> s, by |-> "program"] \in Event
    BY DEF Event, Entry
  <2> QED
    BY <1>1, <2>1, EventAssumption
       DEF New, TypeOK, Goto, PC, Tracking, queueVars, lifeVars, reportVars
<1>2. ASSUME NEW t \in Program, NEW a \in Addr, NEW s \in Entry, Delete(t, a, s)
      PROVE  TypeOK'
  <2>1. [type |-> "Deallocate", address |-> a, size |-> s, by |-> "program"] \in Event
    BY DEF Event
  <2> QED
    BY <1>2, <2>1, EventAssumption
       DEF Delete, TypeOK, Goto, PC, Tracking, queueVars, lifeVars, reportVars
<1>3. ASSUME NEW t \in Program, CallInitialize(t) PROVE TypeOK'
  BY <1>3 DEF CallInitialize, TypeOK, Goto, PC, Tracking, queueVars, lifeVars,
              reportVars
<1>4. ASSUME NEW t \in Threads, IsInitialized(t) PROVE TypeOK'
  BY <1>4 DEF IsInitialized, TypeOK, Goto, PC, Tracking, queueVars, lifeVars,
              reportVars
<1>5. ASSUME NEW t \in Threads, IsShutdownComplete(t) PROVE TypeOK'
  <2>1. CASE shutdownComplete
    BY <1>5, <2>1, ReturnType
       DEF IsShutdownComplete, TypeOK, Tracking, queueVars, lifeVars, reportVars
  <2>2. CASE ~shutdownComplete
    BY <1>5, <2>2
       DEF IsShutdownComplete, TypeOK, Goto, PC, Tracking, queueVars, lifeVars,
           reportVars
  <2> QED
    BY <2>1, <2>2
<1>6. ASSUME NEW t \in Threads, Initialize(t) PROVE TypeOK'
  BY <1>6 DEF Initialize, TypeOK, Goto, PC, Tracking, queueVars, lifeVars,
              reportVars
<1>7. ASSUME NEW t \in Threads, CallOnce(t) PROVE TypeOK'
  BY <1>7 DEF CallOnce, TypeOK, Goto, PC, Tracking, queueVars, reportVars
<1>8. ASSUME NEW t \in Threads, StartTracker(t) PROVE TypeOK'
  <2>1. /\ pc' \in [Threads -> PC]
        /\ pc'[Tracker] = "wait"
        /\ \A u \in Program : pc'[u] = IF u = t THEN "publish" ELSE pc[u]
    BY <1>8 DEF StartTracker, TypeOK, PC, Tracking
  <2> QED
    BY <1>8, <2>1
       DEF StartTracker, TypeOK, Tracking, queueVars, lifeVars, reportVars
<1>9. ASSUME NEW t \in Threads, Publish(t) PROVE TypeOK'
  BY <1>9 DEF Publish, TypeOK, Goto, PC, Tracking, queueVars, reportVars
<1>10. ASSUME NEW t \in Threads, Recheck(t) PROVE TypeOK'
  <2>1. CASE initialized /\ event[t] # NoEvent
    BY <1>10, <2>1
       DEF Recheck, TypeOK, Goto, PC, Tracking, queueVars, lifeVars, reportVars
  <2>2. CASE ~(initialized /\ event[t] # NoEvent)
    BY <1>10, <2>2, ReturnType
       DEF Recheck, TypeOK, Tracking, queueVars, lifeVars, reportVars
  <2> QED
    BY <2>1, <2>2
<1>11. ASSUME NEW t \in Threads, Push(t) PROVE TypeOK'
  <2>1. event[t] \in Event /\ event[t].address \in Addr
    BY <1>11 DEF Push, TypeOK, Event
  <2>2. queue' \in Seq(Event) /\ stopped' \in BOOLEAN
    <3>1. queue \in Seq(Event) /\ stopped \in BOOLEAN
      BY DEF TypeOK
    <3>2. /\ queue' = queue \/ queue' = Append(queue, event[t])
          /\ stopped' = stopped
      BY <1>11 DEF Push, Ch!Push, Ch!Accept, Ch!Refuse, Ch!vars
    <3>3. QED
      BY <2>1, <3>1, <3>2
  <2>3. announced' \in [Addr -> Entry]
    BY <1>11, <2>1, EffectType DEF Push, TypeOK
  <2> QED
    BY <1>11, <2>2, <2>3, ReturnType
       DEF Push, TypeOK, Tracking, lifeVars, reportVars
<1>12. ASSUME NEW t \in Threads, RealFree(t) PROVE TypeOK'
  <2>1. event[t].address \in Addr
    BY <1>12 DEF RealFree, TypeOK, Event
  <2>2. CASE t = Tracker
    BY <1>12, <2>1, <2>2
       DEF RealFree, TypeOK, Goto, PC, Tracking, queueVars, lifeVars, reportVars
  <2>3. CASE t # Tracker
    BY <1>12, <2>1, <2>3
       DEF RealFree, TypeOK, Goto, PC, Tracking, queueVars, lifeVars, reportVars
  <2> QED
    BY <2>2, <2>3
<1>13. CASE TakeEvent
  <2>1. Head(queue) \in Event /\ queue' \in Seq(Event) /\ UNCHANGED stopped
    BY <1>13 DEF TakeEvent, TypeOK, Ch!Take
  <2> QED
    BY <1>13, <2>1, EventAssumption
       DEF TakeEvent, TypeOK, Goto, PC, Tracking, lifeVars, reportVars
<1>14. CASE Handle
  <2>1. event[Tracker] \in Event /\ event[Tracker].address \in Addr
    BY <1>14 DEF Handle, TypeOK, Event
  <2>2. allocations' \in [Addr -> Entry]
    BY <1>14, <2>1, EffectType DEF Handle, TypeOK
  <2>3. trace # None =>
          [type |-> "Deallocate", address |-> trace, size |-> None,
           by |-> "tracker"] \in Event
    BY DEF TypeOK, Event, Entry
  <2> QED
    BY <1>14, <2>2, <2>3, EventAssumption
       DEF Handle, TypeOK, Goto, PC, Tracking, queueVars, lifeVars, reportVars
<1>15. CASE LeaveLoop
  BY <1>15 DEF LeaveLoop, TypeOK, Goto, PC, Tracking, queueVars, lifeVars,
               reportVars
<1>16. CASE CallShutdown
  BY <1>16 DEF CallShutdown, TypeOK, Goto, PC, Tracking, queueVars, lifeVars,
               reportVars
<1>17. CASE IfInitialized
  BY <1>17 DEF IfInitialized, TypeOK, Goto, PC, Tracking, queueVars, lifeVars,
               reportVars
<1>18. CASE Latch
  <2>1. \A a \in Addr : Live(a) \in Entry
    BY DEF Live, TypeOK, Entry
  <2>2. allowed' \in [Addr -> SUBSET Entry]
    BY <1>18, <2>1 DEF Latch, Entry
  <2> QED
    BY <1>18, <2>2 DEF Latch, TypeOK, Goto, PC, Tracking, queueVars
<1>19. CASE StopQueue
  BY <1>19 DEF StopQueue, Ch!Stop, TypeOK, Goto, PC, Tracking, lifeVars,
               reportVars
<1>20. CASE Join
  BY <1>20 DEF Join, TypeOK, Goto, PC, Tracking, queueVars, lifeVars, reportVars
<1>21. CASE ReportLeaks
  BY <1>21 DEF ReportLeaks, TypeOK, Goto, PC, Tracking, queueVars, lifeVars
<1>22. CASE Complete
  BY <1>22 DEF Complete, TypeOK, Goto, PC, Tracking, queueVars, reportVars
<1>23. CASE UNCHANGED vars
  BY <1>23 DEF vars, TypeOK, queueVars, lifeVars, reportVars
<1> QED
  BY <1>1, <1>2, <1>3, <1>4, <1>5, <1>6, <1>7, <1>8, <1>9, <1>10, <1>11,
     <1>12, <1>13, <1>14, <1>15, <1>16, <1>17, <1>18, <1>19, <1>20, <1>21,
     <1>22, <1>23
     DEF Next, Call, TrackerStep, Shutdown

\* Every variable of the pipeline keeps its type, and each thread is only where
\* the code can take it, with an event in hand wherever it uses one.
THEOREM TypeCorrect == Spec => []TypeOK
<1> QED
  BY InitTypeOK, TypeStep, PTL DEF Spec

-----------------------------------------------------------------------------
(* Initialisation and shutdown                                             *)

\* A call that returns changes where its own thread is, and nothing else.
LEMMA ReturnMoves ==
  ASSUME TypeOK, NEW t \in Threads, Return(t)
  PROVE  /\ pc' = [pc EXCEPT ![t] = pc'[t]]
         /\ pc'[t] \in {"idle", "real"}
         /\ event' = [event EXCEPT ![t] = event'[t]]
         /\ pc'[t] = "real" => event'[t] = event[t] /\ event[t] # NoEvent
                                /\ event[t].type = "Deallocate"
         /\ pc'[t] = "idle" => event'[t] = NoEvent
                                /\ (event[t] # NoEvent =>
                                       event[t].type # "Deallocate")
BY DEF TypeOK, Return, Goto

LifeInv == InitInv /\ ShutdownInv

\* A step of one thread to a place that says nothing about initialisation or
\* shutdown keeps LifeInv.
LEMMA PlainMove ==
  ASSUME TypeOK, LifeInv, NEW t \in Threads, NEW place,
         pc' = [pc EXCEPT ![t] = place],
         place \notin {"start", "publish", "latch", "stop", "join", "report",
                       "complete", "exited", "unborn"},
         place \in {"recheck", "push"} => initOnce = "done",
         pc[t] \notin {"unborn", "exited"},
         UNCHANGED <<lifeVars, report, stopped>>,
         stopped => queue' = queue \/ pc[Tracker] # "exited"
  PROVE  LifeInv'
<1> USE ThreadFacts DEF TypeOK
<1>1. pc'[t] = place /\ \A u \in Threads : u # t => pc'[u] = pc[u]
  OBVIOUS
<1>2. InitInv'
  BY <1>1 DEF LifeInv, InitInv, lifeVars
<1>3. ShutdownInv'
  BY <1>1 DEF LifeInv, ShutdownInv, Latched, lifeVars
<1> QED
  BY <1>2, <1>3 DEF LifeInv

\* No step starts the tracker thread twice or reports before it has left.
LEMMA LifeStep ==
  TypeOK /\ LifeInv /\ [Next]_vars => LifeInv'
<1> SUFFICES ASSUME TypeOK, LifeInv, [Next]_vars PROVE LifeInv'
  OBVIOUS
<1> USE ThreadFacts
<1>1. ASSUME NEW t \in Program, NEW a \in Addr, NEW s \in Size, New(t, a, s)
      PROVE  LifeInv'
  BY <1>1, PlainMove DEF New, Goto, queueVars, reportVars
<1>2. ASSUME NEW t \in Program, NEW a \in Addr, NEW s \in Entry, Delete(t, a, s)
      PROVE  LifeInv'
  BY <1>2, PlainMove DEF Delete, Goto, queueVars, reportVars
<1>3. ASSUME NEW t \in Program, CallInitialize(t) PROVE LifeInv'
  BY <1>3, PlainMove DEF CallInitialize, Goto, queueVars, reportVars
<1>4. ASSUME NEW t \in Threads, IsInitialized(t) PROVE LifeInv'
  BY <1>4, PlainMove
     DEF IsInitialized, Goto, queueVars, reportVars, LifeInv, InitInv
<1>5. ASSUME NEW t \in Threads, IsShutdownComplete(t) PROVE LifeInv'
  BY <1>5, PlainMove, ReturnMoves
     DEF IsShutdownComplete, Goto, queueVars, reportVars
<1>6. ASSUME NEW t \in Threads, Initialize(t) PROVE LifeInv'
  BY <1>6, PlainMove
     DEF Initialize, Goto, queueVars, reportVars, LifeInv, ShutdownInv, Latched
<1>7. ASSUME NEW t \in Threads, CallOnce(t) PROVE LifeInv'
  <2>1. CASE initOnce = "done"
    BY <1>7, <2>1, PlainMove
       DEF CallOnce, Goto, queueVars, reportVars, lifeVars
  <2>2. CASE initOnce = "fresh"
    <3>1. /\ initOnce' = "running" /\ initialized' = initialized
          /\ t # Tracker /\ pc[t] = "once"
          /\ pc'[t] = "start" /\ \A u \in Threads : u # t => pc'[u] = pc[u]
          /\ UNCHANGED <<queue, stopped, report, shutdownComplete>>
      BY <1>7, <2>2
         DEF CallOnce, Goto, TypeOK, LifeInv, InitInv, queueVars, reportVars
    <3>2. InitInv'
      BY <2>2, <3>1 DEF LifeInv, InitInv
    <3>3. ShutdownInv'
      BY <2>2, <3>1 DEF LifeInv, ShutdownInv, Latched
    <3> QED
      BY <3>2, <3>3 DEF LifeInv
  <2> QED
    BY <1>7, <2>1, <2>2 DEF CallOnce
<1>8. ASSUME NEW t \in Threads, StartTracker(t) PROVE LifeInv'
  <2>1. /\ t # Tracker /\ pc[t] = "start" /\ initOnce = "running"
        /\ pc[Tracker] = "unborn"
        /\ pc'[t] = "publish" /\ pc'[Tracker] = "wait"
        /\ \A u \in Threads : u # t /\ u # Tracker => pc'[u] = pc[u]
        /\ UNCHANGED <<queue, stopped, report, lifeVars>>
    BY <1>8
       DEF StartTracker, TypeOK, LifeInv, InitInv, queueVars, lifeVars,
           reportVars
  <2>2. InitInv'
    BY <2>1 DEF LifeInv, InitInv, lifeVars
  <2>3. ShutdownInv'
    BY <2>1 DEF LifeInv, ShutdownInv, Latched, lifeVars
  <2> QED
    BY <2>2, <2>3 DEF LifeInv
<1>9. ASSUME NEW t \in Threads, Publish(t) PROVE LifeInv'
  <2>1. /\ pc[t] = "publish" /\ initOnce = "running"
        /\ initOnce' = "done" /\ initialized' = TRUE
        /\ pc'[t] = "recheck" /\ \A u \in Threads : u # t => pc'[u] = pc[u]
        /\ UNCHANGED <<queue, stopped, report, shutdownComplete>>
    BY <1>9
       DEF Publish, Goto, TypeOK, LifeInv, InitInv, queueVars, reportVars
  <2>2. InitInv'
    BY <2>1 DEF LifeInv, InitInv, lifeVars
  <2>3. ShutdownInv'
    BY <2>1 DEF LifeInv, ShutdownInv, Latched, lifeVars
  <2> QED
    BY <2>2, <2>3 DEF LifeInv
<1>10. ASSUME NEW t \in Threads, Recheck(t) PROVE LifeInv'
  <2>1. CASE initialized /\ event[t] # NoEvent
    <3>1. initOnce = "done"
      BY <2>1 DEF LifeInv, InitInv
    <3> QED
      BY <1>10, <2>1, <3>1, PlainMove DEF Recheck, Goto, queueVars, reportVars
  <2>2. CASE ~(initialized /\ event[t] # NoEvent)
    BY <1>10, <2>2, PlainMove, ReturnMoves DEF Recheck, queueVars, reportVars
  <2> QED
    BY <2>1, <2>2
<1>11. ASSUME NEW t \in Threads, Push(t) PROVE LifeInv'
  <2>1. UNCHANGED <<stopped, lifeVars, report>>
    BY <1>11 DEF Push, Ch!Push, Ch!Accept, Ch!Refuse, Ch!vars, reportVars
  <2>2. stopped => queue' = queue
    BY <1>11 DEF Push, Ch!Push, Ch!Accept, Ch!Refuse, Ch!vars
  <2> QED
    BY <1>11, <2>1, <2>2, PlainMove, ReturnMoves DEF Push
<1>12. ASSUME NEW t \in Threads, RealFree(t) PROVE LifeInv'
  BY <1>12, PlainMove DEF RealFree, Goto, queueVars, reportVars
<1>13. CASE TakeEvent
  <2>1. UNCHANGED <<stopped, lifeVars, report>>
    BY <1>13 DEF TakeEvent, Ch!Take, reportVars
  <2> QED
    BY <1>13, <2>1, PlainMove DEF TakeEvent, Goto
<1>14. CASE Handle
  BY <1>14, PlainMove DEF Handle, Goto, queueVars, reportVars
<1>15. CASE LeaveLoop
  <2>1. /\ pc[Tracker] = "wait" /\ pc'[Tracker] = "exited"
        /\ stopped /\ queue = <<>>
        /\ \A u \in Threads : u # Tracker => pc'[u] = pc[u]
        /\ UNCHANGED <<queue, stopped, report, lifeVars>>
    BY <1>15
       DEF LeaveLoop, Ch!Closed, Goto, TypeOK, queueVars, lifeVars, reportVars
  <2>2. InitInv'
    BY <2>1 DEF LifeInv, InitInv, lifeVars
  <2>3. ShutdownInv'
    BY <2>1 DEF LifeInv, ShutdownInv, Latched, lifeVars
  <2> QED
    BY <2>2, <2>3 DEF LifeInv
<1>16. CASE CallShutdown
  BY <1>16, PlainMove DEF CallShutdown, Goto, queueVars, reportVars
<1>17. CASE IfInitialized \/ Latch \/ StopQueue \/ Join \/ ReportLeaks \/ Complete
  <2>1. /\ \A u \in Threads : u # Main => pc'[u] = pc[u]
        /\ UNCHANGED <<queue, initOnce>>
        /\ pc[Main] \notin {"start", "publish"}
        /\ pc'[Main] \notin {"start", "publish", "recheck", "push"}
        /\ initialized' => initialized
    BY <1>17
       DEF IfInitialized, Latch, StopQueue, Ch!Stop, Join, ReportLeaks,
           Complete, Goto, TypeOK, queueVars, lifeVars
  <2>2. InitInv'
    BY <2>1 DEF LifeInv, InitInv
  <2>3. ShutdownInv'
    BY <1>17, <2>1
       DEF IfInitialized, Latch, StopQueue, Ch!Stop, Join, ReportLeaks,
           Complete, Goto, TypeOK, queueVars, lifeVars, reportVars, LifeInv,
           InitInv, ShutdownInv, Latched
  <2> QED
    BY <2>2, <2>3 DEF LifeInv
<1>18. CASE UNCHANGED vars
  BY <1>18
     DEF vars, queueVars, lifeVars, reportVars, LifeInv, InitInv, ShutdownInv,
         Latched
<1> QED
  BY <1>1, <1>2, <1>3, <1>4, <1>5, <1>6, <1>7, <1>8, <1>9, <1>10, <1>11,
     <1>12, <1>13, <1>14, <1>15, <1>16, <1>17, <1>18
     DEF Next, Call, TrackerStep, Shutdown

\* The tracker thread is started once, before anything can be pushed; the main
\* thread prints the report when that thread has left a drained, stopped queue,
\* and only then (Runtime.cpp:51-108).
THEOREM LifeCycle == Spec => []LifeInv
<1>1. Init => LifeInv
  BY ThreadFacts DEF Init, Ch!Init, LifeInv, InitInv, ShutdownInv, Latched
<1> QED
  BY <1>1, LifeStep, TypeCorrect, PTL DEF Spec

-----------------------------------------------------------------------------
(* The map, the queue and the report                                       *)

\* The tracker thread's map and what is on its way to it stay as they are.
Quiet ==
  /\ UNCHANGED <<queue, announced, allocations>>
  /\ pc'[Tracker] = "handle" <=> pc[Tracker] = "handle"
  /\ pc[Tracker] = "handle" => event'[Tracker] = event[Tracker]

\* Only a push of an accepted event, the tracker thread taking an event and the
\* tracker thread handling it touch the queue or the map.
LEMMA StepKinds ==
  ASSUME TypeOK, LifeInv, [Next]_vars
  PROVE  \/ Quiet
         \/ \E t \in Threads : Push(t) /\ ~stopped
         \/ TakeEvent
         \/ Handle
<1> USE ThreadFacts DEF Quiet, TypeOK
<1>1. ASSUME NEW t \in Program, NEW a \in Addr, NEW s \in Size, New(t, a, s)
      PROVE  Quiet
  BY <1>1 DEF New, Goto, queueVars
<1>2. ASSUME NEW t \in Program, NEW a \in Addr, NEW s \in Entry, Delete(t, a, s)
      PROVE  Quiet
  BY <1>2 DEF Delete, Goto, queueVars
<1>3. ASSUME NEW t \in Program, CallInitialize(t) PROVE Quiet
  BY <1>3 DEF CallInitialize, Goto, queueVars
<1>4. ASSUME NEW t \in Threads, IsInitialized(t) PROVE Quiet
  BY <1>4 DEF IsInitialized, Goto, queueVars
<1>5. ASSUME NEW t \in Threads, IsShutdownComplete(t) PROVE Quiet
  BY <1>5 DEF IsShutdownComplete, Return, Goto, queueVars
<1>6. ASSUME NEW t \in Threads, Initialize(t) PROVE Quiet
  BY <1>6 DEF Initialize, Goto, queueVars
<1>7. ASSUME NEW t \in Threads, CallOnce(t) PROVE Quiet
  BY <1>7 DEF CallOnce, Goto, queueVars
<1>8. ASSUME NEW t \in Threads, StartTracker(t) PROVE Quiet
  BY <1>8 DEF StartTracker, LifeInv, InitInv, queueVars
<1>9. ASSUME NEW t \in Threads, Publish(t) PROVE Quiet
  BY <1>9 DEF Publish, Goto, queueVars
<1>10. ASSUME NEW t \in Threads, Recheck(t) PROVE Quiet
  BY <1>10 DEF Recheck, Return, Goto, queueVars
<1>11. ASSUME NEW t \in Threads, Push(t), stopped PROVE Quiet
  BY <1>11 DEF Push, Ch!Push, Ch!Accept, Ch!Refuse, Ch!vars, Return, Goto
<1>12. ASSUME NEW t \in Threads, RealFree(t) PROVE Quiet
  BY <1>12 DEF RealFree, Goto, queueVars
<1>13. CASE LeaveLoop \/ CallShutdown \/ Shutdown
  BY <1>13
     DEF LeaveLoop, CallShutdown, Shutdown, IfInitialized, Latch, StopQueue,
         Ch!Stop, Join, ReportLeaks, Complete, Goto, queueVars
<1>14. CASE UNCHANGED vars
  BY <1>14 DEF vars, queueVars
<1> QED
  BY <1>1, <1>2, <1>3, <1>4, <1>5, <1>6, <1>7, <1>8, <1>9, <1>10, <1>11,
     <1>12, <1>13, <1>14
     DEF Next, Call, TrackerStep

\* Where neither the queue nor the map changes they stay in step.
LEMMA QuietMap ==
  ASSUME MapCatchesUp, Quiet
  PROVE  MapCatchesUp'
BY DEF Quiet, MapCatchesUp, About, Has

\* Each step that touches the queue or the map keeps the one in step with the
\* other.
LEMMA MapStep ==
  TypeOK /\ LifeInv /\ MapCatchesUp /\ [Next]_vars => MapCatchesUp'
<1> SUFFICES ASSUME TypeOK, LifeInv, MapCatchesUp, [Next]_vars
             PROVE  MapCatchesUp'
  OBVIOUS
<1> USE ThreadFacts
<1>1. CASE Quiet
  BY <1>1, QuietMap
<1>2. ASSUME NEW t \in Threads, Push(t), ~stopped
      PROVE  MapCatchesUp'
  <2> DEFINE e == event[t]
  <2>1. /\ queue' = Append(queue, e) /\ queue \in Seq(Event)
        /\ e \in Event /\ e.address \in Addr
        /\ announced' = [announced EXCEPT ![e.address] = Effect(e)]
        /\ announced \in [Addr -> Entry]
        /\ UNCHANGED allocations
    BY <1>2 DEF Push, Ch!Push, Ch!Accept, Ch!Refuse, TypeOK, Event
  <2>2. /\ pc'[Tracker] = "handle" <=> pc[Tracker] = "handle"
        /\ pc[Tracker] = "handle" => event'[Tracker] = event[Tracker]
    BY <1>2 DEF Push, Return, Goto, TypeOK
  <2>3. /\ Len(queue') = Len(queue) + 1 /\ Len(queue) \in Nat
        /\ queue'[Len(queue) + 1] = e
        /\ \A i \in 1 .. Len(queue) : queue'[i] = queue[i]
    BY <2>1
  <2>4. ASSUME NEW a \in Addr, a # e.address
        PROVE  /\ announced'[a] = announced[a]
               /\ About(a)' = About(a)
               /\ \A i \in About(a) : queue'[i] = queue[i]
    BY <2>1, <2>3, <2>4 DEF About
  <2>5. ASSUME NEW a \in Addr, a = e.address
        PROVE  /\ announced'[a] = Effect(e)
               /\ Len(queue) + 1 \in About(a)'
               /\ \A i \in About(a)' : i <= Len(queue) + 1
               /\ \A i \in About(a)' : i \in Nat
    BY <2>1, <2>3, <2>5 DEF About
  <2>6. ASSUME NEW a \in Addr, a = e.address,
               NEW i \in About(a)', \A j \in About(a)' : j <= i
        PROVE  announced'[a] = Effect(queue'[i])
    <3>1. i = Len(queue) + 1
      BY <2>3, <2>5, <2>6
    <3> QED
      BY <3>1, <2>3, <2>5, <2>6
  <2> HIDE DEF e
  <2>7. ASSUME NEW a \in Addr, a # e.address,
               NEW i \in About(a)', \A j \in About(a)' : j <= i
        PROVE  announced'[a] = Effect(queue'[i])
    BY <2>4, <2>7 DEF MapCatchesUp
  <2>8. ASSUME NEW a \in Addr, About(a)' = {}
        PROVE  announced'[a] = IF pc'[Tracker] = "handle" /\ Has(Tracker, a)'
                               THEN Effect(event'[Tracker])
                               ELSE allocations'[a]
    <3>1. a # e.address
      BY <2>5, <2>8
    <3> QED
      BY <3>1, <2>1, <2>2, <2>4, <2>8 DEF MapCatchesUp, Has
  <2> QED
    BY <2>6, <2>7, <2>8 DEF MapCatchesUp
<1>3. CASE TakeEvent
  <2>1. /\ queue # <<>> /\ queue' = Tail(queue) /\ queue \in Seq(Event)
        /\ pc[Tracker] = "wait" /\ pc'[Tracker] = "handle"
        /\ event'[Tracker] = Head(queue)
        /\ Head(queue) # NoEvent
        /\ UNCHANGED <<announced, allocations>>
    BY <1>3, EventAssumption DEF TakeEvent, Ch!Take, Goto, TypeOK
  <2>2. /\ Len(queue) \in Nat /\ Len(queue) >= 1
        /\ Len(queue') = Len(queue) - 1
        /\ \A i \in 1 .. Len(queue') : queue'[i] = queue[i + 1]
        /\ Head(queue) = queue[1]
    BY <2>1
  <2>3. ASSUME NEW a \in Addr
        PROVE  /\ \A i \in About(a)' : i + 1 \in About(a) /\ queue'[i] = queue[i + 1]
               /\ \A i \in About(a) : i = 1 \/ i - 1 \in About(a)'
               /\ \A i \in About(a) : i \in Nat /\ i >= 1
               /\ \A i \in About(a)' : i \in Nat
               /\ 1 \in About(a) <=> Head(queue).address = a
    BY <2>2 DEF About
  <2>4. ASSUME NEW a \in Addr, NEW i \in About(a)',
               \A j \in About(a)' : j <= i
        PROVE  announced'[a] = Effect(queue'[i])
    <3>1. \A j \in About(a) : j <= i + 1
      BY <2>3, <2>4
    <3>2. i + 1 \in About(a) /\ queue'[i] = queue[i + 1]
      BY <2>3
    <3>3. announced[a] = Effect(queue[i + 1])
      BY <3>1, <3>2 DEF MapCatchesUp
    <3> QED
      BY <3>2, <3>3, <2>1
  <2>5. ASSUME NEW a \in Addr, About(a)' = {}
        PROVE  announced'[a] = IF pc'[Tracker] = "handle" /\ Has(Tracker, a)'
                               THEN Effect(event'[Tracker])
                               ELSE allocations'[a]
    <3>1. CASE Head(queue).address = a
      <4>1. 1 \in About(a) /\ \A j \in About(a) : j <= 1
        BY <3>1, <2>3, <2>5
      <4>2. announced[a] = Effect(queue[1])
        BY <4>1 DEF MapCatchesUp
      <4> QED
        BY <3>1, <4>2, <2>1, <2>2 DEF Has
    <3>2. CASE Head(queue).address # a
      <4>1. About(a) = {}
        BY <3>2, <2>3, <2>5
      <4> QED
        BY <3>2, <4>1, <2>1 DEF MapCatchesUp, Has
    <3> QED
      BY <3>1, <3>2
  <2> QED
    BY <2>4, <2>5 DEF MapCatchesUp
<1>4. CASE Handle
  <2>1. /\ pc[Tracker] = "handle" /\ pc'[Tracker] # "handle"
        /\ event[Tracker] # NoEvent /\ event[Tracker].address \in Addr
        /\ allocations \in [Addr -> Entry]
        /\ allocations' = [allocations EXCEPT ![event[Tracker].address] =
                                                Effect(event[Tracker])]
        /\ UNCHANGED <<queue, announced>>
    BY <1>4 DEF Handle, Goto, TypeOK, Event, queueVars
  <2> QED
    BY <2>1 DEF MapCatchesUp, About, Has
<1> QED
  BY <1>1, <1>2, <1>3, <1>4, StepKinds

\* Queued events are applied in order: the map the accepted events amount to is
\* the tracker's map brought up to date with the queue.
THEOREM MapLagsByQueue == Spec => []MapCatchesUp
<1>1. Init => MapCatchesUp
  BY ThreadFacts DEF Init, Ch!Init, MapCatchesUp, About
<1> QED
  BY <1>1, MapStep, TypeCorrect, LifeCycle, PTL DEF Spec

\* Only a push of an accepted event, the stop of the queue and the report are
\* seen from outside.
LEMMA VisibleSteps ==
  ASSUME TypeOK, [Next]_vars
  PROVE  \/ UNCHANGED <<announced, stopped, report>>
         \/ \E t \in Threads : Push(t) /\ ~stopped
         \/ StopQueue
         \/ ReportLeaks
<1> USE ThreadFacts
<1>1. ASSUME NEW t \in Threads, Push(t), stopped
      PROVE  UNCHANGED <<announced, stopped, report>>
  BY <1>1 DEF Push, Ch!Push, Ch!Accept, Ch!Refuse, Ch!vars, reportVars
<1>2. ASSUME NEW t \in Threads, Call(t), ~Push(t)
      PROVE  UNCHANGED <<announced, stopped, report>>
  BY <1>2
     DEF Call, IsInitialized, IsShutdownComplete, Initialize, CallOnce,
         StartTracker, Publish, Recheck, RealFree, queueVars, reportVars
<1>3. CASE TrackerStep
  BY <1>3 DEF TrackerStep, TakeEvent, Ch!Take, Handle, LeaveLoop, queueVars,
              reportVars
<1>4. CASE CallShutdown \/ IfInitialized \/ Latch \/ Join \/ Complete
  BY <1>4 DEF CallShutdown, IfInitialized, Latch, Join, Complete, queueVars,
              reportVars
<1>5. ASSUME NEW t \in Program,
             \/ CallInitialize(t)
             \/ \E a \in Addr, s \in Size : New(t, a, s)
             \/ \E a \in Addr, s \in Entry : Delete(t, a, s)
      PROVE  UNCHANGED <<announced, stopped, report>>
  BY <1>5 DEF CallInitialize, New, Delete, queueVars, reportVars
<1>6. CASE UNCHANGED vars
  BY <1>6 DEF vars, queueVars, reportVars
<1> QED
  BY <1>1, <1>2, <1>3, <1>4, <1>5, <1>6 DEF Next, Shutdown

\* When the tracker thread has left, its map has caught up.
LEMMA MapIsComplete ==
  ASSUME TypeOK, LifeInv, MapCatchesUp, pc[Tracker] = "exited"
  PROVE  allocations = announced
<1>1. queue = <<>>
  BY DEF LifeInv, ShutdownInv
<1>2. \A a \in Addr : About(a) = {}
  BY <1>1 DEF About
<1>3. \A a \in Addr : allocations[a] = announced[a]
  BY <1>2 DEF MapCatchesUp
<1> QED
  BY <1>3 DEF TypeOK

\* The report is printed when the map is complete, and nothing is recorded
\* later.
LEMMA ReportStep ==
  TypeOK /\ LifeInv /\ MapCatchesUp /\ ReportInv /\ [Next]_vars => ReportInv'
<1> SUFFICES ASSUME TypeOK, LifeInv, MapCatchesUp, ReportInv, [Next]_vars
             PROVE  ReportInv'
  OBVIOUS
<1>1. CASE UNCHANGED <<announced, stopped, report>>
  BY <1>1 DEF ReportInv
<1>2. ASSUME NEW t \in Threads, Push(t), ~stopped PROVE ReportInv'
  BY <1>2 DEF Push, reportVars, ReportInv, LifeInv, ShutdownInv
<1>3. CASE StopQueue
  BY <1>3 DEF StopQueue, reportVars, ReportInv
<1>4. CASE ReportLeaks
  <2>1. allocations = announced
    BY <1>4, MapIsComplete DEF ReportLeaks, LifeInv, ShutdownInv
  <2> QED
    BY <1>4, <2>1 DEF ReportLeaks, queueVars, ReportInv
<1> QED
  BY <1>1, <1>2, <1>3, <1>4, VisibleSteps

\* The report lists the map that all accepted events amount to: no event is
\* still queued or in the tracker thread's hands when it is printed, and none is
\* accepted later (Runtime.cpp:86-94).
THEOREM ReportIsComplete == Spec => []ReportInv
<1>1. Init => ReportInv
  BY DEF Init, ReportInv
<1> QED
  BY <1>1, ReportStep, TypeCorrect, LifeCycle, MapLagsByQueue, PTL DEF Spec

\* Each step of the pipeline is one of the tracker without a queue, or none.
LEMMA SyncStep ==
  ASSUME TypeOK, LifeInv, MapCatchesUp, [Next]_vars
  PROVE  [Sync!Next]_Sync!vars
<1>1. CASE UNCHANGED <<announced, stopped, report>>
  BY <1>1 DEF Sync!vars
<1>2. ASSUME NEW t \in Threads, Push(t), ~stopped PROVE Sync!Next
  <2>1. event[t] \in Event
    BY <1>2 DEF Push, TypeOK
  <2>2. event[t].address \in Addr /\ Effect(event[t]) \in Entry
    BY <2>1, EffectType DEF Event
  <2>3. UNCHANGED <<stopped, report>>
    BY <1>2 DEF Push, Ch!Push, Ch!Accept, Ch!Refuse, reportVars
  <2>4. Sync!Record(event[t].address, Effect(event[t]))
    BY <1>2, <2>3 DEF Push, Sync!Record
  <2> QED
    BY <2>2, <2>4 DEF Sync!Next
<1>3. CASE StopQueue
  BY <1>3 DEF StopQueue, Ch!Stop, reportVars, LifeInv, ShutdownInv, Sync!Next,
              Sync!Close
<1>4. CASE ReportLeaks
  <2>1. allocations = announced
    BY <1>4, MapIsComplete DEF ReportLeaks, LifeInv, ShutdownInv
  <2> QED
    BY <1>4, <2>1 DEF ReportLeaks, queueVars, LifeInv, ShutdownInv, Sync!Next,
                      Sync!Report
<1> QED
  BY <1>1, <1>2, <1>3, <1>4, VisibleSteps

\* The pipeline, with its queue, its second thread and its shutdown sequence,
\* implements the tracker that records each event at once.
THEOREM PipelineIsSynchronous == Spec => BehavesSynchronously
<1>1. Init => Sync!Init
  BY DEF Init, Ch!Init, Sync!Init
<1>2. TypeOK /\ LifeInv /\ MapCatchesUp /\ [Next]_vars => [Sync!Next]_Sync!vars
  BY SyncStep
<1> QED
  BY <1>1, <1>2, TypeCorrect, LifeCycle, MapLagsByQueue, PTL
     DEF Spec, BehavesSynchronously, Sync!Spec

\* The main thread reads the map only after the tracker thread has left, and
\* nobody starts that thread a second time.
THEOREM MapIsNotShared == Spec => []TrackerThreadOwnsMap
<1>1. LifeInv => TrackerThreadOwnsMap
  BY DEF LifeInv, InitInv, ShutdownInv, TrackerThreadOwnsMap
<1> QED
  BY <1>1, LifeCycle, PTL

-----------------------------------------------------------------------------
(* The heap and the calls under way                                        *)

\* No block changes hands and no call begins or ends.
SameCalls ==
  /\ UNCHANGED <<heap, event, trace>>
  /\ \A u \in Threads :
       /\ event[u] # NoEvent => (pc'[u] \in Tracking <=> pc[u] \in Tracking)
       /\ pc'[u] = "real" <=> pc[u] = "real"
  /\ pc'[Tracker] \in Tracking => pc[Tracker] \in Tracking
  /\ pc'[Tracker] \in {"unborn", "wait", "exited"} =>
       pc[Tracker] \in {"unborn", "wait", "exited"}
  /\ pc'[Tracker] = "idle" => pc[Tracker] = "idle"
  /\ UNCHANGED announced

\* A tracking call comes to its end.  Unless tracking is over, its event is in
\* the queue by then.
Ends(t) ==
  /\ pc[t] \in Tracking
  /\ event[t] # NoEvent
  /\ Return(t)
  /\ UNCHANGED <<heap, trace>>
  /\ Push(t) \/ (Latched /\ UNCHANGED announced)

\* A thread has an event in hand only inside a call, and the tracker thread's
\* calls all have one.
HandsInv ==
  /\ \A t \in Program : event[t] # NoEvent => InCall(t)
  /\ pc[Tracker] \in Tracking \cup {"real"} => event[Tracker] # NoEvent

\* A step inside a call changes no block, ends the call, or frees its block.
LEMMA CallSteps ==
  ASSUME TypeOK, LifeInv, HandsInv, NEW t \in Threads, Call(t)
  PROVE  SameCalls \/ Ends(t) \/ RealFree(t)
<1> USE ThreadFacts DEF TypeOK
<1>1. CASE IsInitialized(t)
  BY <1>1 DEF IsInitialized, SameCalls, Goto, Tracking, queueVars
<1>2. CASE IsShutdownComplete(t)
  <2>1. CASE shutdownComplete
    BY <1>2, <2>1
       DEF IsShutdownComplete, Ends, Tracking, queueVars, LifeInv, ShutdownInv
  <2>2. CASE ~shutdownComplete
    BY <1>2, <2>2 DEF IsShutdownComplete, SameCalls, Goto, Tracking, queueVars
  <2> QED
    BY <2>1, <2>2
<1>3. CASE Initialize(t)
  BY <1>3 DEF Initialize, SameCalls, Goto, Tracking, queueVars
<1>4. CASE CallOnce(t)
  BY <1>4 DEF CallOnce, SameCalls, Goto, Tracking, queueVars
<1>5. CASE StartTracker(t)
  <2>1. /\ pc[t] = "start" /\ pc[Tracker] = "unborn" /\ t # Tracker
        /\ pc'[t] = "publish" /\ pc'[Tracker] = "wait"
        /\ \A u \in Threads : u # t /\ u # Tracker => pc'[u] = pc[u]
    BY <1>5 DEF StartTracker, LifeInv, InitInv
  <2> QED
    BY <1>5, <2>1 DEF StartTracker, SameCalls, Tracking, queueVars
<1>6. CASE Publish(t)
  BY <1>6 DEF Publish, SameCalls, Goto, Tracking, queueVars
<1>7. CASE Recheck(t)
  <2>1. CASE initialized /\ event[t] # NoEvent
    BY <1>7, <2>1 DEF Recheck, SameCalls, Goto, Tracking, queueVars
  <2>2. CASE ~initialized /\ event[t] # NoEvent
    <3>1. Latched
      BY <1>7, <2>2 DEF Recheck, LifeInv, InitInv, Latched
    <3> QED
      BY <1>7, <2>2, <3>1 DEF Recheck, Ends, Tracking, queueVars
  <2>3. CASE event[t] = NoEvent
    <3>1. t # Tracker
      BY <1>7, <2>3 DEF Recheck, HandsInv, Tracking
    <3>2. pc' = [pc EXCEPT ![t] = "idle"] /\ event' = event
      BY <1>7, <2>3 DEF Recheck, Return, Goto
    <3> QED
      BY <1>7, <2>3, <3>1, <3>2 DEF Recheck, SameCalls, Tracking, queueVars
  <2> QED
    BY <2>1, <2>2, <2>3
<1>8. CASE Push(t)
  BY <1>8 DEF Push, Ends, Tracking
<1> QED
  BY <1>1, <1>2, <1>3, <1>4, <1>5, <1>6, <1>7, <1>8 DEF Call

\* A step of shutdown() changes no block.
LEMMA ShutdownSteps ==
  ASSUME TypeOK, CallShutdown \/ Shutdown
  PROVE  SameCalls
<1>1. /\ UNCHANGED <<heap, event, trace, announced>>
      /\ pc[Main] \notin Tracking \cup {"real"}
      /\ pc'[Main] \notin Tracking \cup {"real"}
      /\ \A u \in Threads : u # Main => pc'[u] = pc[u]
  BY ThreadFacts
     DEF CallShutdown, Shutdown, IfInitialized, Latch, StopQueue, Join,
         ReportLeaks, Complete, Goto, Tracking, TypeOK, queueVars
<1> QED
  BY <1>1, ThreadFacts DEF SameCalls, TypeOK

\* The steps that begin or end a call or change a block, and the others.
LEMMA HeapSteps ==
  ASSUME TypeOK, LifeInv, OwnInv, [Next]_vars
  PROVE  \/ SameCalls
         \/ \E t \in Program, a \in Addr, s \in Size : New(t, a, s)
         \/ \E t \in Program, a \in Addr, s \in Entry : Delete(t, a, s)
         \/ \E t \in Threads : Ends(t) \/ RealFree(t)
         \/ TakeEvent
         \/ Handle
<1> USE ThreadFacts DEF TypeOK
<1>1. ASSUME NEW t \in Program, CallInitialize(t) PROVE SameCalls
  <2>1. event[t] = NoEvent
    BY <1>1 DEF CallInitialize, OwnInv, InCall, Tracking
  <2> QED
    BY <1>1, <2>1 DEF CallInitialize, SameCalls, Goto, queueVars
<1>2. ASSUME NEW t \in Threads, Call(t)
      PROVE  SameCalls \/ Ends(t) \/ RealFree(t)
  BY <1>2, CallSteps DEF OwnInv, HandsInv
<1>3. CASE LeaveLoop
  BY <1>3 DEF LeaveLoop, SameCalls, Goto, Tracking, queueVars
<1>4. CASE CallShutdown \/ Shutdown
  BY <1>4, ShutdownSteps
<1>5. CASE UNCHANGED vars
  BY <1>5 DEF vars, SameCalls, queueVars
<1> QED
  BY <1>1, <1>2, <1>3, <1>4, <1>5 DEF Next, TrackerStep

\* Every call under way has its block to itself: no other call is about the
\* same address, and the block is there until the call frees it
\* (NewDelete.cpp:106-134, TrackerThread.cpp:55-58).
THEOREM CallsOwnTheirBlocks == Spec => []OwnInv
<1>1. Init => OwnInv
  BY ThreadFacts DEF Init, OwnInv, InCall, Tracking
<1>2. TypeOK /\ LifeInv /\ OwnInv /\ [Next]_vars => OwnInv'
  <2> SUFFICES ASSUME TypeOK, LifeInv, OwnInv, [Next]_vars PROVE OwnInv'
    OBVIOUS
  <2> USE ThreadFacts, ValueAssumption
  <2>1. CASE SameCalls
    BY <2>1 DEF SameCalls, OwnInv, InCall
  <2>2. ASSUME NEW t \in Program, NEW a \in Addr, NEW s \in Size, New(t, a, s)
        PROVE  OwnInv'
    <3>1. /\ heap[a] = None /\ heap'[a] = s
          /\ \A b \in Addr : b # a => heap'[b] = heap[b]
          /\ pc'[t] = "track" /\ \A u \in Threads : u # t => pc'[u] = pc[u]
          /\ event'[t] = [type |-> "Allocate", address |-> a, size |-> s,
                          by |-> "program"]
          /\ \A u \in Threads : u # t => event'[u] = event[u]
          /\ UNCHANGED trace
      BY <2>2 DEF New, Goto, TypeOK
    <3>2. \A u \in Program : InCall(u) => event[u].address # a
      BY <3>1 DEF OwnInv
    <3>3. trace # a
      BY <3>1 DEF OwnInv
    <3>4. \A u \in Threads : event[u] # NoEvent => event[u].address \in Addr
      BY DEF TypeOK, Event
    <3>5. \A u \in Program : InCall(u) => heap'[event[u].address] =
                                           heap[event[u].address]
      BY <3>1, <3>2, <3>4 DEF InCall
    <3>6. trace # None => heap'[trace] = heap[trace]
      BY <3>1, <3>3 DEF TypeOK
    <3> QED
      BY <3>1, <3>2, <3>5, <3>6 DEF OwnInv, InCall, Tracking
  <2>3. ASSUME NEW t \in Program, NEW a \in Addr, NEW s \in Entry, Delete(t, a, s)
        PROVE  OwnInv'
    <3>1. /\ heap[a] \in Size /\ \A u \in Program : ~Has(u, a)
          /\ s \in {None, heap[a]}
          /\ pc'[t] = "track" /\ \A u \in Threads : u # t => pc'[u] = pc[u]
          /\ event'[t] = [type |-> "Deallocate", address |-> a, size |-> s,
                          by |-> "program"]
          /\ \A u \in Threads : u # t => event'[u] = event[u]
          /\ UNCHANGED <<heap, trace>>
      BY <2>3 DEF Delete, MayFree, Goto, TypeOK
    <3> QED
      BY <3>1 DEF OwnInv, InCall, Tracking, Has
  <2>4. ASSUME NEW t \in Threads, Ends(t) PROVE OwnInv'
    <3>1. /\ pc[t] \in Tracking /\ event[t] # NoEvent
          /\ \/ pc'[t] = "real" /\ event'[t] = event[t]
                /\ event[t].type = "Deallocate"
             \/ pc'[t] = "idle" /\ event'[t] = NoEvent
                /\ event[t].type # "Deallocate"
          /\ \A u \in Threads : u # t => pc'[u] = pc[u] /\ event'[u] = event[u]
          /\ UNCHANGED <<heap, trace>>
      BY <2>4, ReturnMoves DEF Ends, TypeOK
    <3> QED
      BY <3>1 DEF OwnInv, InCall, Tracking
  <2>5. ASSUME NEW t \in Threads, RealFree(t) PROVE OwnInv'
    <3> DEFINE a == event[t].address
    <3>1. /\ pc[t] = "real" /\ event[t] # NoEvent /\ a \in Addr
          /\ pc'[t] = IF t = Tracker THEN "wait" ELSE "idle"
          /\ event'[t] = NoEvent
          /\ \A u \in Threads : u # t => pc'[u] = pc[u] /\ event'[u] = event[u]
          /\ heap'[a] = None
          /\ \A b \in Addr : b # a => heap'[b] = heap[b]
          /\ trace' = IF t = Tracker THEN None ELSE trace
      BY <2>5 DEF RealFree, Goto, TypeOK, Event
    <3>2. \A u \in Program : InCall(u) /\ u # t => event[u].address # a
      BY <3>1 DEF OwnInv, InCall
    <3>3. t # Tracker => trace # a
      BY <3>1 DEF OwnInv, InCall
    <3>4. \A u \in Threads : event[u] # NoEvent => event[u].address \in Addr
      BY DEF TypeOK, Event
    <3> HIDE DEF a
    <3> QED
      BY <3>1, <3>2, <3>3, <3>4 DEF OwnInv, InCall, Tracking, TypeOK
  <2>6. CASE TakeEvent
    <3>1. /\ pc[Tracker] = "wait" /\ pc'[Tracker] = "handle"
          /\ \A u \in Program : pc'[u] = pc[u] /\ event'[u] = event[u]
          /\ \/ UNCHANGED <<heap, trace>>
             \/ \E b \in Addr :
                  /\ heap[b] = None /\ heap'[b] = Internal /\ trace' = b
                  /\ \A c \in Addr : c # b => heap'[c] = heap[c]
      BY <2>6 DEF TakeEvent, Goto, TypeOK
    <3>2. \A u \in Program : event[u] # NoEvent => event[u].address \in Addr
      BY DEF TypeOK, Event
    <3>3. \A u \in Program : InCall(u) => heap'[event[u].address] =
                                           heap[event[u].address]
      BY <3>1, <3>2 DEF OwnInv, InCall
    <3>4. trace = None
      BY <3>1 DEF OwnInv
    <3>5. trace' # None => heap'[trace'] = Internal
      BY <3>1, <3>4
    <3> QED
      BY <3>1, <3>3, <3>5 DEF OwnInv, InCall, Tracking
  <2>7. CASE Handle
    <3>1. /\ \A u \in Program : pc'[u] = pc[u] /\ event'[u] = event[u]
          /\ \/ trace = None /\ pc'[Tracker] = "wait"
             \/ /\ trace # None
                /\ pc'[Tracker] = "track"
                /\ event'[Tracker] = [type |-> "Deallocate", address |-> trace,
                                      size |-> None, by |-> "tracker"]
                /\ event'[Tracker] # NoEvent
          /\ UNCHANGED <<heap, trace>>
      <4>1. trace # None =>
              [type |-> "Deallocate", address |-> trace, size |-> None,
               by |-> "tracker"] # NoEvent
        BY EventAssumption DEF TypeOK, Event, Entry
      <4> QED
        BY <2>7, <4>1 DEF Handle, Goto, TypeOK
    <3> QED
      BY <3>1 DEF OwnInv, InCall, Tracking
  <2> QED
    BY <2>1, <2>2, <2>3, <2>4, <2>5, <2>6, <2>7, HeapSteps
<1> QED
  BY <1>1, <1>2, TypeCorrect, LifeCycle, PTL DEF Spec

\* Tracking is switched off by the main thread, for good.
LEMMA LatchedForGood ==
  ASSUME TypeOK, LifeInv, [Next]_vars
  PROVE  /\ Latched => Latched'
         /\ Latched' => Latched \/ Latch
<1> USE ThreadFacts DEF Latched
<1>1. ASSUME NEW t \in Threads, CallOnce(t)
      PROVE  UNCHANGED initialized /\ (initOnce = "done" <=> initOnce' = "done")
  BY <1>1 DEF CallOnce
<1>2. ASSUME NEW t \in Threads, Publish(t)
      PROVE  initOnce # "done" /\ initialized' = TRUE
  BY <1>2 DEF Publish, LifeInv, InitInv
<1>3. ASSUME NEW t \in Threads, Call(t), ~CallOnce(t), ~Publish(t)
      PROVE  UNCHANGED <<initialized, initOnce>>
  BY <1>3
     DEF Call, IsInitialized, IsShutdownComplete, Initialize, StartTracker,
         Recheck, Push, RealFree, lifeVars
<1>4. CASE TrackerStep
  BY <1>4 DEF TrackerStep, TakeEvent, Handle, LeaveLoop, lifeVars
<1>5. CASE CallShutdown \/ IfInitialized \/ StopQueue \/ Join \/ ReportLeaks \/ Complete
  BY <1>5 DEF CallShutdown, IfInitialized, StopQueue, Join, ReportLeaks,
              Complete, lifeVars
<1>6. CASE Latch
  BY <1>6 DEF Latch
<1>7. ASSUME NEW t \in Program,
             \/ CallInitialize(t)
             \/ \E a \in Addr, s \in Size : New(t, a, s)
             \/ \E a \in Addr, s \in Entry : Delete(t, a, s)
      PROVE  UNCHANGED <<initialized, initOnce>>
  BY <1>7 DEF CallInitialize, New, Delete, lifeVars
<1>8. CASE UNCHANGED vars
  BY <1>8 DEF vars, lifeVars
<1> QED
  BY <1>1, <1>2, <1>3, <1>4, <1>5, <1>6, <1>7, <1>8 DEF Next, Shutdown

\* What the map will hold for an address when the queue is empty and the
\* allocations under way have not been announced.
Settled(a) == IF Announcing(a) THEN None ELSE Live(a)

\* While tracking is on, no interleaving of the program's threads between the
\* allocator and the queue lets the order of the events contradict the heap
\* (NewDelete.cpp:106-134).
THEOREM EventsFollowTheHeap == Spec => []QueueOrderMatchesHeap
<1> DEFINE Order == ~Latched => \A a \in Addr : announced[a] = Settled(a)
<1>1. Init => Order
  BY ThreadFacts, ValueAssumption
     DEF Init, Latched, Settled, Announcing, Live, Freed, Has, Tracking
<1>2. TypeOK /\ LifeInv /\ OwnInv /\ Order /\ [Next]_vars => Order'
  <2> SUFFICES ASSUME TypeOK, LifeInv, OwnInv, Order, [Next]_vars, ~Latched',
                      NEW b \in Addr
               PROVE  announced'[b] = Settled(b)'
    OBVIOUS
  <2> USE ThreadFacts, ValueAssumption
  <2>0. ~Latched /\ announced[b] = Settled(b)
    BY LatchedForGood
  <2>00. \A u \in Program : InCall(u) => heap[event[u].address] \in Size
    BY DEF OwnInv
  <2> HIDE DEF Order
  <2>1. CASE SameCalls
    <3>1. announced' = announced /\ Settled(b)' = Settled(b)
      BY <2>1 DEF SameCalls, Settled, Announcing, Live, Freed, Has
    <3> QED
      BY <2>0, <3>1
  <2>2. ASSUME NEW t \in Program, NEW a \in Addr, NEW s \in Size, New(t, a, s)
        PROVE  announced'[b] = Settled(b)'
    <3>1. /\ pc[t] = "idle" /\ pc'[t] = "track" /\ heap[a] = None
          /\ \A u \in Threads : u # t => pc'[u] = pc[u] /\ event'[u] = event[u]
          /\ event'[t] = [type |-> "Allocate", address |-> a, size |-> s,
                          by |-> "program"]
          /\ event'[t] # NoEvent
          /\ b # a => heap'[b] = heap[b]
          /\ announced' = announced
      <4>1. [type |-> "Allocate", address |-> a, size |-> s, by |-> "program"]
              # NoEvent
        BY EventAssumption DEF Event, Entry
      <4> QED
        BY <2>2, <4>1 DEF New, Goto, TypeOK, queueVars
    <3>2. CASE b = a
      <4>1. Announcing(b)'
        BY <3>1, <3>2 DEF Announcing, Has, Tracking
      <4>2. Settled(b) = None
        BY <3>1, <3>2 DEF Settled, Live
      <4> QED
        BY <2>0, <3>1, <4>1, <4>2 DEF Settled
    <3>3. CASE b # a
      <4>1. /\ Announcing(b)' = Announcing(b)
            /\ Live(b)' = Live(b)
        BY <3>1, <3>3 DEF Announcing, Live, Freed, Has, Tracking
      <4> QED
        BY <2>0, <3>1, <4>1 DEF Settled
    <3> QED
      BY <3>2, <3>3
  <2>3. ASSUME NEW t \in Program, NEW a \in Addr, NEW s \in Entry, Delete(t, a, s)
        PROVE  announced'[b] = Settled(b)'
    <3>1. /\ pc[t] = "idle" /\ pc'[t] = "track"
          /\ \A u \in Threads : u # t => pc'[u] = pc[u] /\ event'[u] = event[u]
          /\ event'[t].type = "Deallocate"
          /\ heap' = heap /\ announced' = announced
      BY <2>3 DEF Delete, Goto, TypeOK, queueVars
    <3>2. /\ Announcing(b)' = Announcing(b)
          /\ Live(b)' = Live(b)
      BY <3>1 DEF Announcing, Live, Freed, Has, Tracking
    <3> QED
      BY <2>0, <3>1, <3>2 DEF Settled
  <2>4. ASSUME NEW t \in Threads, Ends(t)
        PROVE  announced'[b] = Settled(b)'
    <3> DEFINE a == event[t].address
    <3>1. /\ pc[t] \in Tracking /\ event[t] # NoEvent
          /\ event[t] \in Event /\ a \in Addr
          /\ \/ pc'[t] = "real" /\ event'[t] = event[t]
                /\ event[t].type = "Deallocate"
             \/ pc'[t] = "idle" /\ event'[t] = NoEvent
                /\ event[t].type = "Allocate"
          /\ \A u \in Threads : u # t => pc'[u] = pc[u] /\ event'[u] = event[u]
          /\ heap' = heap
      BY <2>4, ReturnMoves DEF Ends, TypeOK, Event
    <3>2. /\ announced'[a] = Effect(event[t])
          /\ \A c \in Addr : c # a => announced'[c] = announced[c]
      BY <2>0, <2>4, <3>1
         DEF Ends, Push, LifeInv, ShutdownInv, TypeOK
    <3>3. CASE b # a
      <4>1. Announcing(b)' = Announcing(b) /\ Live(b)' = Live(b)
        BY <3>1, <3>3 DEF Announcing, Live, Freed, Has, Tracking
      <4> QED
        BY <2>0, <3>2, <3>3, <4>1 DEF Settled
    <3>4. CASE b = a /\ event[t].type = "Allocate"
      <4>1. t \in Program
        BY <3>1, <3>4 DEF OwnInv, InCall
      <4>2. heap[b] \in Size /\ event[t].size = heap[b]
        BY <3>1, <3>4, <4>1 DEF OwnInv, InCall
      <4>3. \A u \in Threads : u # t => ~(InCall(u) /\ Has(u, b))
        BY <3>1, <3>4, <4>1, <4>2 DEF OwnInv, InCall, Has
      <4>4. ~Announcing(b)' /\ ~Freed(b)'
        BY <3>1, <3>4, <4>3 DEF Announcing, Freed, InCall, Has
      <4>5. Settled(b)' = heap[b]
        BY <3>1, <4>2, <4>4 DEF Settled, Live
      <4> QED
        BY <3>2, <3>4, <4>2, <4>5 DEF Effect
    <3>5. CASE b = a /\ event[t].type # "Allocate"
      <4>1. event[t].type = "Deallocate"
        BY <3>1, <3>5
      <4>2. Live(b)' = None
        BY <3>1, <3>5 DEF Live, Freed, Has
      <4> QED
        BY <3>2, <3>5, <4>1, <4>2 DEF Settled, Effect
    <3> QED
      BY <3>3, <3>4, <3>5
  <2>5. ASSUME NEW t \in Threads, RealFree(t)
        PROVE  announced'[b] = Settled(b)'
    <3> DEFINE a == event[t].address
    <3>1. /\ pc[t] = "real" /\ event[t] # NoEvent
          /\ event[t].type = "Deallocate" /\ a \in Addr
          /\ pc'[t] \notin Tracking \cup {"real"}
          /\ event'[t] = NoEvent
          /\ \A u \in Threads : u # t => pc'[u] = pc[u] /\ event'[u] = event[u]
          /\ heap'[a] = None
          /\ \A c \in Addr : c # a => heap'[c] = heap[c]
          /\ announced' = announced
      BY <2>5 DEF RealFree, Goto, TypeOK, Event, OwnInv, queueVars, Tracking
    <3>2. CASE b # a
      <4>1. Announcing(b)' = Announcing(b) /\ Live(b)' = Live(b)
        BY <3>1, <3>2 DEF Announcing, Live, Freed, Has, Tracking
      <4> QED
        BY <2>0, <3>1, <4>1 DEF Settled
    <3>3. CASE b = a
      <4>1. Live(b) = None /\ Live(b)' = None
        BY <3>1, <3>3 DEF Live, Freed, Has
      <4> QED
        BY <2>0, <3>1, <4>1 DEF Settled
    <3> QED
      BY <3>2, <3>3
  <2>6. CASE TakeEvent
    <3>1. /\ pc[Tracker] = "wait" /\ pc'[Tracker] = "handle"
          /\ \A u \in Program : pc'[u] = pc[u] /\ event'[u] = event[u]
          /\ heap'[b] = heap[b] \/ (heap[b] = None /\ heap'[b] = Internal)
          /\ announced' = announced
      BY <2>6 DEF TakeEvent, Goto, TypeOK
    <3>2. Announcing(b)' = Announcing(b) /\ Live(b)' = Live(b)
      BY <3>1 DEF Announcing, Live, Freed, Has, Tracking
    <3> QED
      BY <2>0, <3>1, <3>2 DEF Settled
  <2>7. CASE Handle
    <3>1. /\ pc[Tracker] = "handle" /\ pc'[Tracker] # "real"
          /\ \A u \in Program : pc'[u] = pc[u] /\ event'[u] = event[u]
          /\ heap' = heap /\ announced' = announced
      BY <2>7 DEF Handle, Goto, TypeOK, queueVars
    <3>2. Announcing(b)' = Announcing(b) /\ Live(b)' = Live(b)
      BY <3>1 DEF Announcing, Live, Freed, Has
    <3> QED
      BY <2>0, <3>1, <3>2 DEF Settled
  <2> QED
    BY <2>1, <2>2, <2>3, <2>4, <2>5, <2>6, <2>7, HeapSteps
<1>3. Order => QueueOrderMatchesHeap
  BY DEF QueueOrderMatchesHeap, Settled, Latched
<1> QED
  BY <1>1, <1>2, <1>3, TypeCorrect, LifeCycle, CallsOwnTheirBlocks, PTL DEF Spec

\* Once tracking is off, no more calls get through to the queue.
LEMMA NoNewPush ==
  ASSUME TypeOK, LifeInv, [Next]_vars, Latched,
         NEW u \in Threads, pc'[u] = "push"
  PROVE  pc[u] = "push" /\ event'[u] = event[u]
<1> USE ThreadFacts DEF TypeOK
<1>1. ~initialized
  BY DEF Latched
<1>2. ASSUME NEW t \in Threads, Call(t)
      PROVE  pc[u] = "push" /\ event'[u] = event[u]
  <2>1. CASE IsInitialized(t) \/ Initialize(t) \/ CallOnce(t) \/ Publish(t)
    BY <1>1, <2>1 DEF IsInitialized, Initialize, CallOnce, Publish, Goto
  <2>2. CASE StartTracker(t)
    BY <2>2 DEF StartTracker
  <2>3. CASE IsShutdownComplete(t)
    BY <2>3 DEF IsShutdownComplete, Return, Goto
  <2>4. CASE Recheck(t)
    BY <1>1, <2>4 DEF Recheck, Return, Goto
  <2>5. CASE Push(t)
    BY <2>5 DEF Push, Return, Goto
  <2>6. CASE RealFree(t)
    BY <2>6 DEF RealFree, Goto
  <2> QED
    BY <1>2, <2>1, <2>2, <2>3, <2>4, <2>5, <2>6 DEF Call
<1>3. CASE TrackerStep
  BY <1>3 DEF TrackerStep, TakeEvent, Handle, LeaveLoop, Goto
<1>4. CASE CallShutdown \/ Shutdown
  BY <1>4 DEF CallShutdown, Shutdown, IfInitialized, Latch, StopQueue, Join,
              ReportLeaks, Complete, Goto
<1>5. ASSUME NEW t \in Program,
             \/ CallInitialize(t)
             \/ \E a \in Addr, s \in Size : New(t, a, s)
             \/ \E a \in Addr, s \in Entry : Delete(t, a, s)
      PROVE  pc[u] = "push" /\ event'[u] = event[u]
  BY <1>5 DEF CallInitialize, New, Delete, Goto
<1>6. CASE UNCHANGED vars
  BY <1>6 DEF vars
<1> QED
  BY <1>2, <1>3, <1>4, <1>5, <1>6 DEF Next

\* At the moment tracking is switched off the map can say of each address what
\* it may, and so can the events of the calls that are past the check.
LEMMA LatchAllows ==
  ASSUME TypeOK, LifeInv, OwnInv, QueueOrderMatchesHeap, Latch
  PROVE  AllowedInv'
<1> USE ThreadFacts
<1>1. /\ \A a \in Addr : allowed'[a] = IF Undecided(a) THEN {Live(a), None}
                                       ELSE {Live(a)}
      /\ \A u \in Threads : pc'[u] = "push" => pc[u] = "push"
      /\ event' = event /\ announced' = announced
  BY DEF Latch, Goto, TypeOK, queueVars
<1>2. initialized
  BY DEF Latch, LifeInv, ShutdownInv
<1>3. \A a \in Addr : announced[a] = IF Announcing(a) THEN None ELSE Live(a)
  BY <1>2 DEF QueueOrderMatchesHeap
<1>4. \A a \in Addr : Announcing(a) => Undecided(a)
  BY DEF Announcing, Undecided
<1>5. \A a \in Addr : announced'[a] \in allowed'[a]
  BY <1>1, <1>3, <1>4
<1>6. ASSUME NEW u \in Threads, pc[u] = "push"
      PROVE  /\ event[u].address \in Addr
             /\ Undecided(event[u].address)
             /\ Effect(event[u]) \in {Live(event[u].address), None}
  <2>1. event[u] # NoEvent /\ event[u] \in Event /\ event[u].address \in Addr
    BY <1>6 DEF TypeOK, Event
  <2>2. Undecided(event[u].address)
    BY <1>6, <2>1 DEF Undecided, Tracking, Has
  <2>3. CASE event[u].type # "Allocate"
    BY <2>1, <2>2, <2>3 DEF Effect
  <2>4. CASE event[u].type = "Allocate"
    <3>1. u \in Program /\ InCall(u)
      BY <1>6, <2>1, <2>4 DEF OwnInv, InCall, Tracking
    <3>2. heap[event[u].address] \in Size /\ event[u].size = heap[event[u].address]
      BY <2>4, <3>1 DEF OwnInv
    <3>3. ~Freed(event[u].address)
      <4>1. SUFFICES ASSUME NEW w \in Threads, pc[w] = "real",
                            Has(w, event[u].address)
                     PROVE  FALSE
        BY DEF Freed
      <4>2. InCall(w) /\ event[w].address = event[u].address
        BY <4>1 DEF InCall, Has
      <4>3. CASE w = Tracker
        BY <3>2, <4>2, <4>3, <2>1, ValueAssumption DEF OwnInv
      <4>4. CASE w # Tracker
        BY <1>6, <3>1, <4>1, <4>2, <4>4 DEF OwnInv
      <4> QED
        BY <4>3, <4>4
    <3> QED
      BY <2>1, <2>2, <2>4, <3>2, <3>3 DEF Effect, Live
  <2> QED
    BY <2>3, <2>4
<1> QED
  BY <1>1, <1>5, <1>6 DEF AllowedInv

\* Whatever calls still get through once tracking is off, the map ends up with
\* what the program held at that moment, give or take those calls.
THEOREM MapStaysAllowed == Spec => []AllowedInv
<1>1. Init => AllowedInv
  BY DEF Init, AllowedInv, Latched
<1>2. /\ TypeOK /\ LifeInv /\ OwnInv /\ QueueOrderMatchesHeap
      /\ AllowedInv /\ [Next]_vars
      => AllowedInv'
  <2> SUFFICES ASSUME TypeOK, LifeInv, OwnInv, QueueOrderMatchesHeap,
                      AllowedInv, [Next]_vars
               PROVE  AllowedInv'
    OBVIOUS
  <2> USE ThreadFacts
  <2>1. CASE Latch
    BY <2>1, LatchAllows
  <2>2. CASE ~Latched /\ ~Latch
    BY <2>2, LatchedForGood DEF AllowedInv
  <2>3. CASE Latched
    <3>1. allowed' = allowed
      <4>1. ~Latch
        BY <2>3 DEF Latch, LifeInv, ShutdownInv, Latched
      <4> QED
        BY <4>1
           DEF Next, New, Delete, CallInitialize, Call, IsInitialized,
               IsShutdownComplete, Initialize, CallOnce, StartTracker, Publish,
               Recheck, Push, RealFree, TrackerStep, TakeEvent, Handle,
               LeaveLoop, CallShutdown, Shutdown, IfInitialized, StopQueue, Join,
               ReportLeaks, Complete, vars, reportVars
    <3>2. \A a \in Addr : announced'[a] \in allowed[a]
      <4>1. CASE announced' = announced
        BY <2>3, <4>1 DEF AllowedInv
      <4>2. ASSUME NEW t \in Threads, Push(t), ~stopped
            PROVE  \A a \in Addr : announced'[a] \in allowed[a]
        <5>1. /\ pc[t] = "push"
              /\ announced' = [announced EXCEPT ![event[t].address] =
                                                  Effect(event[t])]
          BY <4>2 DEF Push
        <5> QED
          BY <2>3, <5>1 DEF AllowedInv, TypeOK
      <4>3. CASE StopQueue \/ ReportLeaks
        BY <2>3, <4>3 DEF AllowedInv, StopQueue, ReportLeaks, queueVars
      <4> QED
        BY <4>1, <4>2, <4>3, VisibleSteps
    <3>3. \A t \in Threads :
            pc'[t] = "push" => Effect(event'[t]) \in allowed[event'[t].address]
      BY <2>3, NoNewPush DEF AllowedInv
    <3> QED
      BY <3>1, <3>2, <3>3 DEF AllowedInv, Effect
  <2> QED
    BY <2>1, <2>2, <2>3
<1> QED
  BY <1>1, <1>2, TypeCorrect, LifeCycle, CallsOwnTheirBlocks,
     EventsFollowTheHeap, PTL DEF Spec

\* The leak report is exact: it lists, with their sizes, the blocks the program
\* held when tracking was switched off, except that a call under way at that
\* moment may count either way (Runtime.cpp:86-94, Tracker.cpp:91-106).
THEOREM LeakReportIsExact == Spec => []ReportExact
<1>1. LifeInv /\ AllowedInv /\ ReportInv => ReportExact
  BY DEF LifeInv, ShutdownInv, AllowedInv, ReportInv, ReportExact
<1> QED
  BY <1>1, LifeCycle, MapStaysAllowed, ReportIsComplete, PTL

\* What ShutdownIsFinal says of one step.
Final == UNCHANGED <<queueVars, allocations, lifeVars, reportVars, pc[Tracker]>>

\* Once shutdown has completed, calls of operator new and delete pass through
\* without touching the pipeline, and no thread can start it again.
THEOREM NothingRevivesThePipeline == Spec => ShutdownIsFinal
<1>1. TypeOK /\ LifeInv /\ [Next]_vars => (shutdownComplete => Final)
  <2> SUFFICES ASSUME TypeOK, LifeInv, [Next]_vars, shutdownComplete
               PROVE  Final
    OBVIOUS
  <2> USE ThreadFacts DEF Final
  <2>1. /\ pc[Tracker] = "exited" /\ stopped
        /\ initOnce = "done" /\ ~initialized
        /\ pc[Main] \notin {"latch", "stop", "join", "report", "complete"}
    BY DEF LifeInv, ShutdownInv, Latched
  <2>2. ASSUME NEW t \in Threads, Call(t) PROVE Final
    <3>1. CASE IsInitialized(t) \/ Initialize(t)
      BY <2>1, <3>1 DEF IsInitialized, Initialize, Goto, TypeOK
    <3>2. CASE CallOnce(t)
      BY <2>1, <3>2 DEF CallOnce, Goto, TypeOK, lifeVars
    <3>3. CASE StartTracker(t) \/ Publish(t)
      BY <2>1, <3>3 DEF StartTracker, Publish, LifeInv, InitInv
    <3>4. CASE IsShutdownComplete(t)
      BY <2>1, <3>4 DEF IsShutdownComplete, Return, Goto, TypeOK
    <3>5. CASE Recheck(t)
      BY <2>1, <3>5 DEF Recheck, Return, Goto, TypeOK
    <3>6. CASE Push(t)
      BY <2>1, <3>6
         DEF Push, Ch!Push, Ch!Accept, Ch!Refuse, Ch!vars, Return, Goto, TypeOK,
             queueVars
    <3>7. CASE RealFree(t)
      BY <2>1, <3>7 DEF RealFree, Goto, TypeOK
    <3> QED
      BY <2>2, <3>1, <3>2, <3>3, <3>4, <3>5, <3>6, <3>7 DEF Call
  <2>3. ~TrackerStep
    BY <2>1 DEF TrackerStep, TakeEvent, Handle, LeaveLoop
  <2>4. CASE CallShutdown \/ Shutdown
    BY <2>1, <2>4
       DEF CallShutdown, Shutdown, IfInitialized, Latch, StopQueue, Join,
           ReportLeaks, Complete, Goto, TypeOK
  <2>5. ASSUME NEW t \in Program,
               \/ CallInitialize(t)
               \/ \E a \in Addr, s \in Size : New(t, a, s)
               \/ \E a \in Addr, s \in Entry : Delete(t, a, s)
        PROVE  Final
    BY <2>1, <2>5 DEF CallInitialize, New, Delete, Goto, TypeOK
  <2>6. CASE UNCHANGED vars
    BY <2>6 DEF vars
  <2> QED
    BY <2>2, <2>3, <2>4, <2>5, <2>6 DEF Next
<1> QED
  BY <1>1, TypeCorrect, LifeCycle, PTL DEF Spec, ShutdownIsFinal, Final

-----------------------------------------------------------------------------
(* Correct frees are known to the tracker, its own are not                 *)

\* A deallocation about to be queued finds its allocation announced, unless it is
\* the tracker thread's: nothing was announced for that block.
FreeInv ==
  /\ \A t \in Program :
       pc[t] = "push" /\ event[t].type = "Deallocate" =>
         announced[event[t].address] = heap[event[t].address]
  /\ pc[Tracker] = "push" => announced[trace] = None

\* The block of the tracker thread's call is nobody else's.
LEMMA OwnTrace ==
  ASSUME TypeOK, OwnInv, pc[Tracker] = "push"
  PROVE  /\ event[Tracker] # NoEvent /\ event[Tracker].address = trace
         /\ trace \in Addr /\ heap[trace] = Internal
         /\ \A u \in Program : ~(InCall(u) /\ Has(u, trace))
<1> USE ThreadFacts, ValueAssumption
<1>1. /\ event[Tracker] # NoEvent /\ event[Tracker].address = trace
      /\ trace \in Addr /\ heap[trace] = Internal
  BY DEF TypeOK, Event, OwnInv, InCall, Tracking
<1>2. \A u \in Program : ~(InCall(u) /\ Has(u, trace))
  BY <1>1 DEF OwnInv, Has
<1> QED
  BY <1>1, <1>2

\* While tracking is on, that is so because of the order of the announcements.
LEMMA FreeIsAnnounced ==
  ASSUME TypeOK, OwnInv, QueueOrderMatchesHeap, ~Latched
  PROVE  FreeInv
<1> USE ThreadFacts, ValueAssumption
<1>1. ASSUME NEW t \in Program, pc[t] = "push",
             event[t].type = "Deallocate"
      PROVE  announced[event[t].address] = heap[event[t].address]
  <2> DEFINE a == event[t].address
  <2>1. event[t] # NoEvent /\ a \in Addr
    BY <1>1 DEF TypeOK, Event
  <2>2. InCall(t) /\ heap[a] \in Size
    BY <1>1, <2>1 DEF OwnInv, InCall, Tracking
  <2>3. \A u \in Threads : u # t => ~(InCall(u) /\ Has(u, a))
    BY <1>1, <2>1, <2>2 DEF OwnInv, InCall, Has
  <2>4. ~Announcing(a) /\ ~Freed(a)
    BY <1>1, <2>3 DEF Announcing, Freed, InCall, Has
  <2>5. announced[a] = Live(a)
    BY <2>1, <2>4 DEF QueueOrderMatchesHeap, Latched
  <2> QED
    BY <2>2, <2>4, <2>5 DEF Live
<1>2. ASSUME pc[Tracker] = "push"
      PROVE  announced[trace] = None
  BY <1>2, OwnTrace DEF QueueOrderMatchesHeap, Latched, Live
<1> QED
  BY <1>1, <1>2 DEF FreeInv

\* A call that is about to queue a deallocation has its block, and its block's
\* announcement, to itself until it has done so.
THEOREM FreesAreAnnounced == Spec => []FreeInv
<1>1. Init => FreeInv
  BY ThreadFacts DEF Init, FreeInv
<1>2. TypeOK /\ OwnInv /\ QueueOrderMatchesHeap /\ ~Latched => FreeInv
  BY FreeIsAnnounced
<1>3. /\ TypeOK /\ LifeInv /\ OwnInv /\ FreeInv /\ [Next]_vars
      /\ (~Latched' => FreeInv')
      => FreeInv'
  <2> SUFFICES ASSUME TypeOK, LifeInv, OwnInv, FreeInv, [Next]_vars,
                      ~Latched' => FreeInv'
               PROVE  FreeInv'
    OBVIOUS
  <2> USE ThreadFacts, ValueAssumption
  <2>1. CASE ~Latched'
    BY <2>1
  <2>2. CASE Latch
    BY <2>2 DEF Latch, Goto, TypeOK, FreeInv, queueVars
  <2>3. ASSUME Latched, NEW t \in Program, pc'[t] = "push",
               event'[t].type = "Deallocate"
        PROVE  announced'[event'[t].address] = heap'[event'[t].address]
    <3> DEFINE a == event[t].address
    <3>1. pc[t] = "push" /\ event'[t] = event[t]
      BY <2>3, NoNewPush
    <3>2. event[t] # NoEvent /\ a \in Addr /\ InCall(t)
      BY <3>1 DEF TypeOK, Event, InCall, Tracking
    <3>3. announced[a] = heap[a] /\ heap[a] \in Size
      BY <2>3, <3>1, <3>2 DEF FreeInv, OwnInv
    <3>4. \A u \in Threads : u # t => ~(InCall(u) /\ Has(u, a))
      BY <3>2, <3>3 DEF OwnInv, InCall, Has
    <3>5. CASE SameCalls
      BY <3>1, <3>3, <3>5 DEF SameCalls
    <3>6. CASE \E u \in Program, b \in Addr, s \in Size : New(u, b, s)
      <4>1. heap'[a] = heap[a] /\ announced' = announced
        BY <3>2, <3>3, <3>6 DEF New, TypeOK, queueVars
      <4> QED
        BY <3>1, <3>3, <4>1
    <3>7. CASE \E u \in Program, b \in Addr, s \in Entry : Delete(u, b, s)
      BY <3>1, <3>3, <3>7 DEF Delete, queueVars
    <3>8. ASSUME NEW u \in Threads, Ends(u)
          PROVE  announced'[a] = announced[a] /\ heap' = heap
      <4>1. /\ pc[u] \in Tracking /\ event[u] # NoEvent /\ pc'[u] # "push"
            /\ heap' = heap
        BY <3>8, ReturnMoves DEF Ends
      <4>2. event[u].address # a /\ event[u].address \in Addr
        BY <2>3, <3>4, <4>1 DEF InCall, Has, TypeOK, Event
      <4>3. announced'[a] = announced[a]
        BY <3>2, <3>8, <4>2 DEF Ends, Push, TypeOK
      <4> QED
        BY <4>1, <4>3
    <3>9. ASSUME NEW u \in Threads, RealFree(u)
          PROVE  announced'[a] = announced[a] /\ heap'[a] = heap[a]
      <4>1. event[u].address # a
        BY <3>1, <3>4, <3>9 DEF RealFree, InCall, Has, TypeOK
      <4> QED
        BY <3>2, <3>9, <4>1 DEF RealFree, TypeOK, queueVars
    <3>10. CASE TakeEvent
      BY <3>1, <3>2, <3>3, <3>10 DEF TakeEvent, TypeOK
    <3>11. CASE Handle
      BY <3>1, <3>3, <3>11 DEF Handle, queueVars
    <3> QED
      BY <3>1, <3>3, <3>5, <3>6, <3>7, <3>8, <3>9, <3>10, <3>11, HeapSteps
  <2>4. ASSUME Latched, pc'[Tracker] = "push"
        PROVE  announced'[trace'] = None
    <3>1. pc[Tracker] = "push" /\ event'[Tracker] = event[Tracker]
      BY <2>4, NoNewPush
    <3>2. announced[trace] = None
      BY <3>1 DEF FreeInv
    <3>3. /\ event[Tracker].address = trace /\ trace \in Addr
          /\ \A u \in Program : ~(InCall(u) /\ Has(u, trace))
      BY <3>1, OwnTrace
    <3>4. CASE SameCalls
      BY <3>2, <3>4 DEF SameCalls
    <3>5. ASSUME NEW u \in Threads, Ends(u)
          PROVE  announced'[trace] = None /\ trace' = trace
      <4>1. /\ pc[u] \in Tracking /\ event[u] # NoEvent /\ pc'[u] # "push"
            /\ trace' = trace
        BY <3>5, ReturnMoves DEF Ends
      <4>2. u \in Program
        BY <2>4, <4>1
      <4>3. event[u].address # trace
        BY <3>3, <4>1, <4>2 DEF InCall, Has
      <4>4. announced'[trace] = announced[trace]
        BY <3>3, <3>5, <4>3 DEF Ends, Push, TypeOK
      <4> QED
        BY <3>2, <4>1, <4>4
    <3>6. ASSUME NEW u \in Threads, RealFree(u)
          PROVE  announced' = announced /\ trace' = trace
      BY <3>1, <3>6 DEF RealFree, queueVars
    <3>7. CASE TakeEvent \/ Handle
      BY <3>1, <3>7 DEF TakeEvent, Handle
    <3>8. ASSUME \E u \in Program, b \in Addr :
                   \/ \E s \in Size : New(u, b, s)
                   \/ \E s \in Entry : Delete(u, b, s)
          PROVE  announced' = announced /\ trace' = trace
      BY <3>8 DEF New, Delete, queueVars
    <3> QED
      BY <3>2, <3>4, <3>5, <3>6, <3>7, <3>8, HeapSteps
  <2> QED
    BY <2>1, <2>2, <2>3, <2>4, LatchedForGood DEF FreeInv
<1> QED
  BY <1>1, <1>2, <1>3, TypeCorrect, LifeCycle, CallsOwnTheirBlocks,
     EventsFollowTheHeap, PTL DEF Spec

\* The entry v is what the tracker expects to find when it handles the free e.
Known(e, v) == v # None /\ e.size \in {None, v}

\* Positions of earlier events about the address of the event at position i.
Earlier(i) == {j \in 1 .. (i - 1) : queue[j].address = queue[i].address}

IsFree(e) == e.by = "program" /\ e.type = "Deallocate"

\* A free of the program finds its entry, one of the tracker thread finds none.
Meets(e, v) ==
  /\ IsFree(e) => Known(e, v)
  /\ e.by = "tracker" => v = None

\* What the map will hold for a when the tracker comes to the queue.
MapBefore(a) ==
  IF pc[Tracker] = "handle" /\ Has(Tracker, a) THEN Effect(event[Tracker])
  ELSE allocations[a]

\* The event before this one about its address, or the map, has what it is to
\* find.
KnownAt(i) ==
  /\ \A j \in Earlier(i) :
       (\A k \in Earlier(i) : k <= j) => Meets(queue[i], Effect(queue[j]))
  /\ Earlier(i) = {} => Meets(queue[i], MapBefore(queue[i].address))

\* The tracker prints "[FREE?]" for each event of its own that it meets: the map
\* has no entry that it could erase.
OwnFreesAreUnknown ==
  pc[Tracker] = "handle" /\ event[Tracker].by = "tracker" =>
    allocations[event[Tracker].address] = None

\* Every event on its way to the tracker will find what it should.
KnownInv ==
  /\ \A i \in 1 .. Len(queue) : KnownAt(i)
  /\ CorrectFreesAreKnown
  /\ OwnFreesAreUnknown

\* What a free will find in the map is settled when it is queued, by the event
\* before it about its address.
THEOREM FreesMeetTheirEntries == Spec => []KnownInv
<1>1. Init => KnownInv
  BY ThreadFacts DEF Init, Ch!Init, KnownInv, CorrectFreesAreKnown,
                    OwnFreesAreUnknown
<1>2. /\ TypeOK /\ LifeInv /\ OwnInv /\ MapCatchesUp /\ FreeInv
      /\ KnownInv /\ [Next]_vars
      => KnownInv'
  <2> SUFFICES ASSUME TypeOK, LifeInv, OwnInv, MapCatchesUp, FreeInv,
                      KnownInv, [Next]_vars
               PROVE  KnownInv'
    OBVIOUS
  <2> USE ThreadFacts, ValueAssumption
  <2>1. CASE Quiet
    BY <2>1 DEF Quiet, KnownInv, KnownAt, MapBefore, Earlier, Has,
                CorrectFreesAreKnown, OwnFreesAreUnknown
  <2>2. ASSUME NEW t \in Threads, Push(t), ~stopped PROVE KnownInv'
    <3> DEFINE e == event[t]
    <3>1. /\ queue' = Append(queue, e) /\ queue \in Seq(Event)
          /\ e \in Event /\ e # NoEvent /\ e.address \in Addr
          /\ pc[t] = "push" /\ UNCHANGED allocations
      BY <2>2 DEF Push, Ch!Push, Ch!Accept, Ch!Refuse, TypeOK, Event
    <3>2. /\ pc'[Tracker] = "handle" <=> pc[Tracker] = "handle"
          /\ pc[Tracker] = "handle" => event'[Tracker] = event[Tracker]
      BY <2>2 DEF Push, Return, Goto, TypeOK
    <3>3. /\ Len(queue') = Len(queue) + 1 /\ Len(queue) \in Nat
          /\ queue'[Len(queue')] = e
          /\ \A i \in 1 .. Len(queue) : queue'[i] = queue[i]
      BY <3>1
    <3>4. Meets(e, announced[e.address])
      <4>1. InCall(t)
        BY <3>1 DEF InCall, Tracking
      <4>2. ASSUME IsFree(e) PROVE Known(e, announced[e.address])
        <5>1. t \in Program
          BY <4>1, <4>2 DEF IsFree, OwnInv
        <5>2. /\ heap[e.address] \in Size /\ e.size \in {None, heap[e.address]}
              /\ announced[e.address] = heap[e.address]
          BY <3>1, <4>1, <4>2, <5>1 DEF IsFree, OwnInv, FreeInv
        <5> QED
          BY <5>2 DEF Known
      <4>3. ASSUME e.by = "tracker" PROVE announced[e.address] = None
        <5>1. t = Tracker
          BY <4>1, <4>3 DEF OwnInv
        <5> QED
          BY <3>1, <4>1, <5>1 DEF OwnInv, FreeInv
      <4> QED
        BY <4>2, <4>3 DEF Meets
    <3> HIDE DEF e
    <3>5. ASSUME NEW i \in 1 .. Len(queue) PROVE KnownAt(i)'
      <4>1. Earlier(i)' = Earlier(i)
        BY <3>3 DEF Earlier
      <4>2. queue'[i] = queue[i] /\ \A j \in Earlier(i) : queue'[j] = queue[j]
        BY <3>3 DEF Earlier
      <4>3. MapBefore(queue[i].address)' = MapBefore(queue[i].address)
        BY <3>1, <3>2, <4>2 DEF MapBefore, Has
      <4>4. KnownAt(i)
        BY DEF KnownInv
      <4> QED
        BY <4>1, <4>2, <4>3, <4>4 DEF KnownAt
    <3>6. ASSUME NEW i, i = Len(queue') PROVE KnownAt(i)'
      <4>1. queue'[i] = e
        BY <3>3, <3>6
      <4>2. /\ Earlier(i)' = About(e.address)
            /\ \A j \in About(e.address) : queue'[j] = queue[j]
        BY <3>3, <3>6, <4>1 DEF Earlier, About
      <4>3. /\ \A j \in About(e.address) :
                 (\A k \in About(e.address) : k <= j) =>
                    announced[e.address] = Effect(queue[j])
            /\ About(e.address) = {} =>
                 announced[e.address] = MapBefore(e.address)
        BY <3>1 DEF MapCatchesUp, MapBefore
      <4>4. MapBefore(queue[i].address)' = MapBefore(e.address)
        BY <3>1, <3>2, <4>1 DEF MapBefore, Has
      <4> QED
        BY <3>4, <4>1, <4>2, <4>3, <4>4 DEF KnownAt
    <3>7. CorrectFreesAreKnown' /\ OwnFreesAreUnknown'
      BY <3>1, <3>2 DEF KnownInv, CorrectFreesAreKnown, OwnFreesAreUnknown
    <3>8. \A i \in 1 .. Len(queue') : i = Len(queue') \/ i \in 1 .. Len(queue)
      BY <3>3
    <3> QED
      BY <3>5, <3>6, <3>7, <3>8 DEF KnownInv
  <2>3. CASE TakeEvent
    <3>1. /\ queue # <<>> /\ queue' = Tail(queue) /\ queue \in Seq(Event)
          /\ pc[Tracker] = "wait" /\ pc'[Tracker] = "handle"
          /\ event'[Tracker] = Head(queue)
          /\ Head(queue) # NoEvent
          /\ UNCHANGED allocations
      BY <2>3, EventAssumption DEF TakeEvent, Ch!Take, Goto, TypeOK
    <3>2. /\ Len(queue) \in Nat /\ Len(queue) >= 1
          /\ Len(queue') = Len(queue) - 1
          /\ \A i \in 1 .. Len(queue') : queue'[i] = queue[i + 1]
          /\ Head(queue) = queue[1]
      BY <3>1
    <3>3. CorrectFreesAreKnown' /\ OwnFreesAreUnknown'
      <4>1. Earlier(1) = {} /\ 1 \in 1 .. Len(queue)
        BY <3>2 DEF Earlier
      <4> QED
        BY <3>1, <3>2, <4>1
           DEF KnownInv, KnownAt, MapBefore, Meets, IsFree, Known,
               CorrectFreesAreKnown, OwnFreesAreUnknown
    <3>4. ASSUME NEW i \in 1 .. Len(queue') PROVE KnownAt(i)'
      <4>1. /\ i \in Nat /\ i + 1 \in 1 .. Len(queue)
            /\ queue'[i] = queue[i + 1]
        BY <3>2
      <4>2. /\ \A j \in Earlier(i)' :
                 j \in Nat /\ j + 1 \in Earlier(i + 1) /\ queue'[j] = queue[j + 1]
            /\ \A j \in Earlier(i + 1) :
                 j \in Nat /\ (j = 1 \/ j - 1 \in Earlier(i)')
            /\ 1 \in Earlier(i + 1) <=> queue[1].address = queue[i + 1].address
        <5>1. \A j : j \in Earlier(i + 1) <=>
                     /\ j \in Nat /\ 1 <= j /\ j <= i
                     /\ queue[j].address = queue[i + 1].address
          BY <4>1 DEF Earlier
        <5>2. \A j : j \in Earlier(i)' <=>
                     /\ j \in Nat /\ 1 <= j /\ j + 1 <= i
                     /\ queue'[j].address = queue[i + 1].address
          BY <4>1 DEF Earlier
        <5>3. \A j \in Nat : 1 <= j /\ j + 1 <= i => queue'[j] = queue[j + 1]
          BY <3>2, <4>1
        <5>4. ASSUME NEW j \in Earlier(i)'
              PROVE  j \in Nat /\ j + 1 \in Earlier(i + 1) /\ queue'[j] = queue[j + 1]
          BY <4>1, <5>1, <5>2, <5>3
        <5>5. ASSUME NEW j \in Earlier(i + 1), j # 1
              PROVE  j - 1 \in Earlier(i)'
          <6>1. /\ j - 1 \in Nat /\ 1 <= j - 1 /\ (j - 1) + 1 <= i
                /\ (j - 1) + 1 = j
            BY <4>1, <5>1, <5>5
          <6>2. queue'[j - 1] = queue[j]
            BY <5>3, <6>1
          <6> QED
            BY <5>1, <5>2, <6>1, <6>2
        <5>6. 1 \in Earlier(i + 1) <=> queue[1].address = queue[i + 1].address
          BY <4>1, <5>1
        <5> QED
          BY <5>1, <5>4, <5>5, <5>6
      <4>3. KnownAt(i + 1)
        BY <4>1 DEF KnownInv
      <4>4. ASSUME NEW j \in Earlier(i)', \A k \in Earlier(i)' : k <= j
            PROVE  Meets(queue'[i], Effect(queue'[j]))
        <5>1. \A k \in Earlier(i + 1) : k <= j + 1
          BY <4>2, <4>4
        <5> QED
          BY <4>1, <4>2, <4>3, <4>4, <5>1 DEF KnownAt
      <4>5. ASSUME Earlier(i)' = {}
            PROVE  Meets(queue'[i], MapBefore(queue[i].address)')
        <5>1. MapBefore(queue[i].address)' =
                IF queue[1].address = queue[i + 1].address
                THEN Effect(queue[1]) ELSE allocations[queue[i + 1].address]
          BY <3>1, <3>2, <4>1 DEF MapBefore, Has
        <5>2. CASE queue[1].address = queue[i + 1].address
          <6>1. 1 \in Earlier(i + 1) /\ \A k \in Earlier(i + 1) : k <= 1
            BY <4>2, <4>5, <5>2
          <6> QED
            BY <4>1, <4>3, <4>5, <5>1, <5>2, <6>1 DEF KnownAt
        <5>3. CASE queue[1].address # queue[i + 1].address
          <6>1. Earlier(i + 1) = {}
            BY <4>2, <4>5, <5>3
          <6>2. MapBefore(queue[i + 1].address) = allocations[queue[i + 1].address]
            BY <3>1 DEF MapBefore
          <6> QED
            BY <4>1, <4>3, <4>5, <5>1, <5>3, <6>1, <6>2 DEF KnownAt
        <5> QED
          BY <5>2, <5>3
      <4> QED
        BY <4>4, <4>5 DEF KnownAt
    <3> QED
      BY <3>3, <3>4 DEF KnownInv
  <2>4. CASE Handle
    <3>1. /\ pc[Tracker] = "handle" /\ pc'[Tracker] # "handle"
          /\ event[Tracker] # NoEvent /\ event[Tracker].address \in Addr
          /\ allocations \in [Addr -> Entry]
          /\ allocations' = [allocations EXCEPT ![event[Tracker].address] =
                                                  Effect(event[Tracker])]
          /\ queue' = queue
      BY <2>4 DEF Handle, Goto, TypeOK, Event, queueVars
    <3>2. ASSUME NEW i \in 1 .. Len(queue) PROVE KnownAt(i)'
      <4>1. queue[i].address \in Addr
        <5>1. queue[i] \in Event
          BY DEF TypeOK
        <5> QED
          BY <5>1 DEF Event
      <4>2. MapBefore(queue[i].address)' = MapBefore(queue[i].address)
        BY <3>1, <4>1 DEF MapBefore, Has
      <4> QED
        BY <3>1, <4>2 DEF KnownInv, KnownAt, Earlier
    <3> QED
      BY <3>1, <3>2 DEF KnownInv, CorrectFreesAreKnown, OwnFreesAreUnknown
  <2> QED
    BY <2>1, <2>2, <2>3, <2>4, StepKinds
<1> QED
  BY <1>1, <1>2, TypeCorrect, LifeCycle, CallsOwnTheirBlocks,
     MapLagsByQueue, FreesAreAnnounced, PTL DEF Spec

\* A program that frees correctly is never blamed: when the tracker comes to a
\* free of the program, its map has the block, with the right size
\* (Tracker.cpp:59-79).
THEOREM CorrectProgramsAreNotBlamed == Spec => []CorrectFreesAreKnown
<1>1. KnownInv => CorrectFreesAreKnown
  BY DEF KnownInv
<1> QED
  BY <1>1, FreesMeetTheirEntries, PTL

\* The events that the tracker thread causes itself, contrary to README.md:30, do
\* no harm but a line in the log: none of them erases the entry of a block of the
\* program that has come to be at the same address (TrackerThread.cpp:58,
\* Tracker.cpp:59-66).
THEOREM OwnEventsDoNoHarm == Spec => []OwnFreesAreUnknown
<1>1. KnownInv => OwnFreesAreUnknown
  BY DEF KnownInv
<1> QED
  BY <1>1, FreesMeetTheirEntries, PTL

=============================================================================
