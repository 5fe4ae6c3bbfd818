-------------------------- MODULE EventQueueProofs --------------------------
(***************************************************************************)
(* The safety properties of EventQueue, proved for any number of pushing   *)
(* and stopping threads and any set of events.                             *)
(***************************************************************************)
EXTENDS EventQueue, TLAPS

-----------------------------------------------------------------------------
(* Type correctness and ownership of the mutex                             *)

\* The queue starts empty and open, its mutex free and no thread in a call.
LEMMA InitTypeOK == Init => TypeOK
<1> SUFFICES ASSUME Init PROVE TypeOK
  OBVIOUS
<1>1. NoThread \notin Threads
  BY ThreadAssumption DEF Threads
<1>2. queue \in Seq(Event)
  BY DEF Init
<1>3. \A t \in Threads : pc[t] \in Holding <=> mutex = t
  BY <1>1 DEF Init, Holding
<1>4. \A t \in Threads : pc[t] = "push" <=> event[t] # NoEvent
  BY DEF Init
<1>5. pc \in [Threads -> PC] /\ event \in [Threads -> Event \cup {NoEvent}]
  BY DEF Init, PC
<1> QED
  BY <1>2, <1>3, <1>4, <1>5 DEF Init, TypeOK

\* A thread in a critical section owns the mutex, in every reachable state of
\* EventQueue.cpp, whoever pushes, pops and stops.
THEOREM TypeCorrect == Spec => []TypeOK
<1>1. Init => TypeOK
  BY InitTypeOK
<1>2. TypeOK /\ [Next]_vars => TypeOK'
  <2> SUFFICES ASSUME TypeOK, [Next]_vars
               PROVE  TypeOK'
    OBVIOUS
  <2>0. /\ Worker \in Threads /\ NoThread \notin Threads
        /\ Pushers \subseteq Threads /\ Stoppers \subseteq Threads
    BY ThreadAssumption DEF Threads
  <2> USE <2>0, EventAssumption DEF TypeOK, PC, Holding
  <2>1. ASSUME NEW t \in Pushers, NEW e \in unsent, PushLock(t, e)
        PROVE  TypeOK'
    BY <2>1 DEF PushLock
  <2>2. ASSUME NEW t \in Pushers, PushRefuse(t) PROVE TypeOK'
    BY <2>2 DEF PushRefuse
  <2>3. ASSUME NEW t \in Pushers, PushAccept(t) PROVE TypeOK'
    <3>1. event[t] \in Event
      BY <2>3 DEF PushAccept
    <3>2. queue' \in Seq(Event)
      BY <2>3, <3>1 DEF PushAccept
    <3> QED
      BY <2>3, <3>2 DEF PushAccept
  <2>4. ASSUME NEW t \in Pushers, PushNotify(t) PROVE TypeOK'
    BY <2>4 DEF PushNotify
  <2>5. CASE PopLock
    BY <2>5 DEF PopLock
  <2>6. CASE PopNotReady
    BY <2>6 DEF PopNotReady
  <2>7. CASE PopBlock
    BY <2>7 DEF PopBlock
  <2>8. CASE SpuriousWake
    BY <2>8 DEF SpuriousWake
  <2>9. CASE PopTake
    <3>1. queue' \in Seq(Event)
      BY <2>9 DEF PopTake
    <3> QED
      BY <2>9, <3>1 DEF PopTake
  <2>10. CASE PopClosed
    BY <2>10 DEF PopClosed
  <2>11. ASSUME NEW t \in Stoppers, StopLock(t) PROVE TypeOK'
    BY <2>11 DEF StopLock
  <2>12. ASSUME NEW t \in Stoppers, StopSet(t) PROVE TypeOK'
    BY <2>12 DEF StopSet
  <2>13. ASSUME NEW t \in Stoppers, StopNotify(t) PROVE TypeOK'
    BY <2>13 DEF StopNotify
  <2>14. CASE UNCHANGED vars
    BY <2>14 DEF vars
  <2> QED
    BY <2>1, <2>2, <2>3, <2>4, <2>5, <2>6, <2>7, <2>8, <2>9, <2>10, <2>11,
       <2>12, <2>13, <2>14
       DEF Next, PushRest, Pop, StopRest, Terminated
<1> QED
  BY <1>1, <1>2, PTL DEF Spec

-----------------------------------------------------------------------------
(* No wake-up is lost                                                      *)

\* The predicate the worker found false is still false when it blocks: this is
\* what checking and blocking under one lock buys (EventQueue.cpp:26-31).
ParkedUnready == pc[Worker] = "park" => ~Ready

WaitInv ==
  /\ TypeOK
  /\ NoLostWakeup
  /\ ParkedUnready
  /\ Worker \in waiting => pc[Worker] = "wait"

\* Whatever the interleaving, a worker that sleeps on a non-empty or stopped
\* queue has a notification coming (EventQueue.cpp:19, 28-31, 51).
THEOREM WakeupsAreNotLost == Spec => []NoLostWakeup
<1>1. Init => WaitInv
  BY InitTypeOK, ThreadAssumption
     DEF Init, WaitInv, NoLostWakeup, ParkedUnready, Ready, Threads
<1>2. WaitInv /\ TypeOK' /\ [Next]_vars => WaitInv'
  <2> SUFFICES ASSUME WaitInv, TypeOK', [Next]_vars
               PROVE  WaitInv'
    OBVIOUS
  <2>0. /\ Worker \in Threads /\ Worker \notin Stoppers
        /\ Pushers \subseteq Threads /\ Stoppers \subseteq Threads
    BY ThreadAssumption DEF Threads
  <2> USE <2>0 DEF WaitInv, TypeOK, NoLostWakeup, ParkedUnready, Ready, Holding
  <2>1. ASSUME NEW t \in Pushers, NEW e \in unsent, PushLock(t, e)
        PROVE  WaitInv'
    BY <2>1 DEF PushLock
  <2>2. ASSUME NEW t \in Pushers, PushRefuse(t) PROVE WaitInv'
    BY <2>2 DEF PushRefuse
  <2>3. ASSUME NEW t \in Pushers, PushAccept(t) PROVE WaitInv'
    <3>1. t \in Threads /\ pc'[t] = "notify" /\ pc[Worker] # "park"
      BY <2>3 DEF PushAccept
    <3> QED
      BY <2>3, <3>1 DEF PushAccept
  <2>4. ASSUME NEW t \in Pushers, PushNotify(t) PROVE WaitInv'
    <3>1. Worker \notin waiting'
      BY <2>4 DEF PushNotify
    <3> QED
      BY <2>4, <3>1 DEF PushNotify
  <2>5. CASE PopLock
    BY <2>5 DEF PopLock
  <2>6. CASE PopNotReady
    BY <2>6 DEF PopNotReady
  <2>7. CASE PopBlock
    BY <2>7 DEF PopBlock
  <2>8. CASE SpuriousWake
    BY <2>8 DEF SpuriousWake
  <2>9. CASE PopTake
    BY <2>9 DEF PopTake
  <2>10. CASE PopClosed
    BY <2>10 DEF PopClosed
  <2>11. ASSUME NEW t \in Stoppers, StopLock(t) PROVE WaitInv'
    BY <2>11 DEF StopLock
  <2>12. ASSUME NEW t \in Stoppers, StopSet(t) PROVE WaitInv'
    <3>1. t \in Threads /\ pc'[t] = "notifyAll" /\ pc[Worker] # "park"
      BY <2>12 DEF StopSet
    <3> QED
      BY <2>12, <3>1 DEF StopSet
  <2>13. ASSUME NEW t \in Stoppers, StopNotify(t) PROVE WaitInv'
    BY <2>13 DEF StopNotify
  <2>14. CASE UNCHANGED vars
    BY <2>14 DEF vars
  <2> QED
    BY <2>1, <2>2, <2>3, <2>4, <2>5, <2>6, <2>7, <2>8, <2>9, <2>10, <2>11,
       <2>12, <2>13, <2>14
       DEF Next, PushRest, Pop, StopRest, Terminated
<1>3. WaitInv => NoLostWakeup
  BY DEF WaitInv
<1> QED
  BY <1>1, <1>2, <1>3, TypeCorrect, PTL DEF Spec

-----------------------------------------------------------------------------
(* The worker leaves a drained queue                                       *)

\* Nothing that was accepted is left behind when the tracker thread ends, and
\* nothing is accepted after it ended (EventQueue.cpp:13-16, 33-36).
THEOREM WorkerLeavesDrainedQueue == Spec => []ExitedDrained
<1>1. Init => ExitedDrained
  BY DEF Init, ExitedDrained, Threads
<1>2. TypeOK /\ ExitedDrained /\ [Next]_vars => ExitedDrained'
  BY ThreadAssumption
     DEF TypeOK, ExitedDrained, Next, vars, PushRest, Pop, StopRest, Terminated,
         Threads, PushLock, PushRefuse, PushAccept, PushNotify, PopLock,
         PopNotReady, PopBlock, SpuriousWake, PopTake, PopClosed, StopLock,
         StopSet, StopNotify
<1> QED
  BY <1>1, <1>2, TypeCorrect, PTL DEF Spec

-----------------------------------------------------------------------------
(* The monitor implements the channel                                      *)

\* Every step of the monitor is a step of the FIFO channel of EventChannel.tla
\* or leaves it alone: std::queue under the mutex is all the code relies on.
THEOREM MonitorImplementsChannel == Spec => ImplementsChannel
<1>1. Init => Channel!Init
  BY DEF Init, Channel!Init
<1>2. TypeOK /\ [Next]_vars => [Channel!Next]_(Channel!vars)
  <2> SUFFICES ASSUME TypeOK, [Next]_vars
               PROVE  Channel!Next \/ UNCHANGED Channel!vars
    OBVIOUS
  <2> USE DEF Channel!Next, Channel!vars
  <2>1. ASSUME NEW t \in Pushers, PushAccept(t) PROVE Channel!Next
    <3>1. event[t] \in Event
      BY <2>1, ThreadAssumption, EventAssumption
         DEF PushAccept, TypeOK, Threads
    <3>2. Channel!Accept(event[t])
      BY <2>1 DEF PushAccept, Channel!Accept
    <3> QED
      BY <3>1, <3>2 DEF Channel!Push
  <2>2. CASE PopTake
    BY <2>2 DEF PopTake, Channel!Take
  <2>3. ASSUME NEW t \in Stoppers, StopSet(t) PROVE Channel!Next
    BY <2>3 DEF StopSet, Channel!Stop
  <2>4. CASE UNCHANGED <<queue, stopped>>
    BY <2>4
  <2> QED
    BY <2>1, <2>2, <2>3, <2>4
       DEF Next, vars, PushRest, Pop, StopRest, Terminated, PushLock,
           PushRefuse, PushNotify, PopLock, PopNotReady, PopBlock,
           SpuriousWake, PopClosed, StopLock, StopNotify
<1> QED
  BY <1>1, <1>2, TypeCorrect, PTL DEF Spec, ImplementsChannel, Channel!Spec

=============================================================================
