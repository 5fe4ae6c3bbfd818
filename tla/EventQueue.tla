----------------------------- MODULE EventQueue -----------------------------
(***************************************************************************)
(* EventQueue: the monitor between the threads of the host program, which  *)
(* push allocation events, and the one tracker thread, which pops them     *)
(* (MemoryAnalyzerEngine/EventQueue.cpp, and the loop around waitAndPop()  *)
(* in TrackerThread.cpp).                                                  *)
(*                                                                         *)
(* One step is what a thread does between two points where another thread  *)
(* can see or change the shared state: acquiring the mutex, the critical   *)
(* section that ends by releasing it, evaluating the wait predicate,       *)
(* blocking (which releases the mutex in the same step, as                 *)
(* std::condition_variable::wait does) and notifying, which the code does  *)
(* after it has released the mutex.                                        *)
(***************************************************************************)
EXTENDS Naturals, Sequences, FiniteSets

CONSTANTS
  Event,     \* the events that can be pushed, each at most once
  Pushers,   \* threads that call push()
  Worker,    \* the thread running TrackerThread::run
  Stoppers,  \* threads that call stop(), each once
  NoThread,  \* the mutex is free
  NoEvent    \* no event in hand

ASSUME ThreadAssumption ==
  /\ Worker \notin Stoppers
  /\ Pushers \cap Stoppers = {}
  /\ NoThread \notin Pushers \cup Stoppers \cup {Worker}

ASSUME EventAssumption == NoEvent \notin Event

Threads == Pushers \cup Stoppers \cup {Worker}

VARIABLES
  queue,    \* the std::queue
  stopped,  \* the flag stop() sets
  mutex,    \* the thread that owns the mutex, or NoThread
  waiting,  \* threads blocked in condition.wait
  pc,       \* where each thread is
  event,    \* the argument of the push() a thread is in
  unsent    \* events nobody has pushed yet

vars == <<queue, stopped, mutex, waiting, pc, event, unsent>>

\* The places at which a thread owns the mutex.
Holding == {"push", "check", "park", "stop"}

\* "idle": outside the queue.  "push", "stop": in the critical section of that
\* call.  "notify": push() before notify_one.  "check": about to evaluate the
\* wait predicate.  "park": found it false.  "wait": blocked.  "notifyAll":
\* stop() before notify_all.  "done": stop() returned.  "exited": the worker's
\* loop is over.
PC == Holding \cup {"idle", "notify", "wait", "notifyAll", "done", "exited"}

Init ==
  /\ queue = <<>>
  /\ stopped = FALSE
  /\ mutex = NoThread
  /\ waiting = {}
  /\ pc = [t \in Threads |-> "idle"]
  /\ event = [t \in Threads |-> NoEvent]
  /\ unsent = Event

-----------------------------------------------------------------------------
(* Mutants: actions below with one plausible bug each.  They are no part   *)
(* of the specification; they show which property notices the bug.         *)

\* push() does not notify.
PushAcceptSilently(t) ==
  /\ pc[t] = "push"
  /\ ~stopped
  /\ queue' = Append(queue, event[t])
  /\ mutex' = NoThread
  /\ pc' = [pc EXCEPT ![t] = "idle"]
  /\ event' = [event EXCEPT ![t] = NoEvent]
  /\ UNCHANGED <<stopped, waiting, unsent>>

\* waitAndPop() hands out the newest event.
PopTakeNewest ==
  /\ pc[Worker] = "check"
  /\ queue # <<>>
  /\ queue' = SubSeq(queue, 1, Len(queue) - 1)
  /\ mutex' = NoThread
  /\ pc' = [pc EXCEPT ![Worker] = "idle"]
  /\ UNCHANGED <<stopped, waiting, event, unsent>>

\* waitAndPop() returns nullopt as soon as the queue is stopped.
PopClosedUndrained ==
  /\ pc[Worker] = "check"
  /\ stopped
  /\ mutex' = NoThread
  /\ pc' = [pc EXCEPT ![Worker] = "exited"]
  /\ UNCHANGED <<queue, stopped, waiting, event, unsent>>

\* stop() does not notify.
StopNotifyNobody(t) ==
  /\ pc[t] = "notifyAll"
  /\ pc' = [pc EXCEPT ![t] = "done"]
  /\ UNCHANGED <<queue, stopped, mutex, waiting, event, unsent>>

-----------------------------------------------------------------------------
(* push()                                                                  *)

PushLock(t, e) ==
  /\ pc[t] = "idle"
  /\ mutex = NoThread
  /\ mutex' = t
  /\ pc' = [pc EXCEPT ![t] = "push"]
  /\ event' = [event EXCEPT ![t] = e]
  /\ unsent' = unsent \ {e}
  /\ UNCHANGED <<queue, stopped, waiting>>

\* The early return: the lock is released and nobody is notified.
PushRefuse(t) ==
  /\ pc[t] = "push"
  /\ stopped
  /\ mutex' = NoThread
  /\ pc' = [pc EXCEPT ![t] = "idle"]
  /\ event' = [event EXCEPT ![t] = NoEvent]
  /\ UNCHANGED <<queue, stopped, waiting, unsent>>

PushAccept(t) ==
  /\ pc[t] = "push"
  /\ ~stopped
  /\ queue' = Append(queue, event[t])
  /\ mutex' = NoThread
  /\ pc' = [pc EXCEPT ![t] = "notify"]
  /\ event' = [event EXCEPT ![t] = NoEvent]
  /\ UNCHANGED <<stopped, waiting, unsent>>

\* notify_one: wakes one blocked thread if there is one, and is lost otherwise.
PushNotify(t) ==
  /\ pc[t] = "notify"
  /\ pc' = [pc EXCEPT ![t] = "idle"]
  /\ \/ waiting = {} /\ UNCHANGED waiting
     \/ \E w \in waiting : waiting' = waiting \ {w}
  /\ UNCHANGED <<queue, stopped, mutex, event, unsent>>

-----------------------------------------------------------------------------
(* waitAndPop(), called by the worker until it returns nullopt             *)

Ready == queue # <<>> \/ stopped

\* Entering the call, and re-acquiring the mutex after a wake-up.
PopLock ==
  /\ \/ pc[Worker] = "idle"
     \/ pc[Worker] = "wait" /\ Worker \notin waiting
  /\ mutex = NoThread
  /\ mutex' = Worker
  /\ pc' = [pc EXCEPT ![Worker] = "check"]
  /\ UNCHANGED <<queue, stopped, waiting, event, unsent>>

PopNotReady ==
  /\ pc[Worker] = "check"
  /\ ~Ready
  /\ pc' = [pc EXCEPT ![Worker] = "park"]
  /\ UNCHANGED <<queue, stopped, mutex, waiting, event, unsent>>

PopBlock ==
  /\ pc[Worker] = "park"
  /\ waiting' = waiting \cup {Worker}
  /\ mutex' = NoThread
  /\ pc' = [pc EXCEPT ![Worker] = "wait"]
  /\ UNCHANGED <<queue, stopped, event, unsent>>

\* A condition variable may wake a thread nobody notified.
SpuriousWake ==
  /\ Worker \in waiting
  /\ waiting' = waiting \ {Worker}
  /\ UNCHANGED <<queue, stopped, mutex, pc, event, unsent>>

PopTake ==
  /\ pc[Worker] = "check"
  /\ queue # <<>>
  /\ queue' = Tail(queue)
  /\ mutex' = NoThread
  /\ pc' = [pc EXCEPT ![Worker] = "idle"]
  /\ UNCHANGED <<stopped, waiting, event, unsent>>

\* nullopt: the loop of TrackerThread::run ends.
PopClosed ==
  /\ pc[Worker] = "check"
  /\ queue = <<>>
  /\ stopped
  /\ mutex' = NoThread
  /\ pc' = [pc EXCEPT ![Worker] = "exited"]
  /\ UNCHANGED <<queue, stopped, waiting, event, unsent>>

-----------------------------------------------------------------------------
(* stop()                                                                  *)

StopLock(t) ==
  /\ pc[t] = "idle"
  /\ mutex = NoThread
  /\ mutex' = t
  /\ pc' = [pc EXCEPT ![t] = "stop"]
  /\ UNCHANGED <<queue, stopped, waiting, event, unsent>>

StopSet(t) ==
  /\ pc[t] = "stop"
  /\ stopped' = TRUE
  /\ mutex' = NoThread
  /\ pc' = [pc EXCEPT ![t] = "notifyAll"]
  /\ UNCHANGED <<queue, waiting, event, unsent>>

StopNotify(t) ==
  /\ pc[t] = "notifyAll"
  /\ waiting' = {}
  /\ pc' = [pc EXCEPT ![t] = "done"]
  /\ UNCHANGED <<queue, stopped, mutex, event, unsent>>

-----------------------------------------------------------------------------
(* The specification                                                       *)

\* The rest of a push() once its thread owns the mutex.
PushRest(t) == PushRefuse(t) \/ PushAccept(t) \/ PushNotify(t)

Pop == PopLock \/ PopNotReady \/ PopBlock \/ PopTake \/ PopClosed

StopRest(t) == StopSet(t) \/ StopNotify(t)

\* Every call is over: the only state in which nothing is left to do.
Terminated ==
  /\ pc[Worker] = "exited"
  /\ \A t \in Threads \ {Worker} : pc[t] \in {"idle", "done"}
  /\ unsent = {}
  /\ UNCHANGED vars

Next ==
  \/ \E t \in Pushers : \/ \E e \in unsent : PushLock(t, e)
                        \/ PushRest(t)
  \/ Pop
  \/ SpuriousWake
  \/ \E t \in Stoppers : StopLock(t) \/ StopRest(t)
  \/ Terminated

\* A thread inside a call keeps running and the worker keeps calling
\* waitAndPop(); nobody has to push or to stop.
Fairness ==
  /\ \A t \in Pushers : WF_vars(PushRest(t))
  /\ WF_vars(Pop)
  /\ \A t \in Stoppers : WF_vars(StopRest(t))

Spec == Init /\ [][Next]_vars /\ Fairness

-----------------------------------------------------------------------------
(* Properties                                                              *)

\* The shape of the state, and ownership: the mutex belongs to exactly the
\* thread that is in a critical section.
TypeOK ==
  /\ queue \in Seq(Event)
  /\ stopped \in BOOLEAN
  /\ mutex \in Threads \cup {NoThread}
  /\ waiting \subseteq {Worker}
  /\ pc \in [Threads -> PC]
  /\ event \in [Threads -> Event \cup {NoEvent}]
  /\ unsent \subseteq Event
  /\ \A t \in Threads : pc[t] \in Holding <=> mutex = t
  /\ \A t \in Threads : pc[t] = "push" <=> event[t] # NoEvent

\* No wake-up is lost: push() and stop() notify after they released the mutex
\* (EventQueue.cpp:19, :51), and the worker may block in between; whenever it
\* is blocked although there is something to return, a notification is still
\* on its way.
NoLostWakeup ==
  (Worker \in waiting /\ Ready) =>
    \E t \in Threads : pc[t] \in {"notify", "notifyAll"}

\* The worker leaves its loop only when everything accepted was handed out, and
\* nothing is accepted behind its back afterwards (EventQueue.cpp:13, :33).
ExitedDrained == pc[Worker] = "exited" => stopped /\ queue = <<>>

\* Stopping the queue ends the tracker thread, so the join in
\* TrackerThread::stop (TrackerThread.cpp:22) returns.
StopEndsWorker == stopped ~> pc[Worker] = "exited"

Channel == INSTANCE EventChannel

\* The monitor implements the channel of EventChannel.tla: events come out in
\* the order in which they were accepted, none is lost, none is accepted once
\* the queue is stopped (EventQueue.cpp:13-16).
ImplementsChannel == Channel!Spec

\* The worker gets every accepted event, whether or not the queue is ever
\* stopped: neither the mutex nor the wait keeps it away for good.
ChannelDelivers == Channel!Delivers

=============================================================================
