---------------------------- MODULE EventChannel ----------------------------
(***************************************************************************)
(* What EventQueue (MemoryAnalyzerEngine/EventQueue.h) promises the code   *)
(* around it, without its mutex and condition variable: a FIFO channel     *)
(* that can be closed.  A closed channel silently refuses new events and   *)
(* still hands out the ones it accepted before.                            *)
(*                                                                         *)
(* EventQueue.tla is the implementation and refines this module;           *)
(* Tracking.tla composes this module with the threads that use it.         *)
(***************************************************************************)
EXTENDS Sequences

CONSTANT Event  \* the values of AllocationEvent

VARIABLES
  queue,    \* accepted and not yet handed to the tracker thread
  stopped   \* the channel is closed

vars == <<queue, stopped>>

Init ==
  /\ queue = <<>>
  /\ stopped = FALSE

\* push() on an open channel.
Accept(e) ==
  /\ ~stopped
  /\ queue' = Append(queue, e)
  /\ UNCHANGED stopped

\* push() on a closed channel: the event is dropped.
Refuse ==
  /\ stopped
  /\ UNCHANGED vars

\* A call of push(), whatever becomes of the event.
Push(e) == Accept(e) \/ Refuse

\* waitAndPop() returning an event: the oldest one.
Take ==
  /\ queue # <<>>
  /\ queue' = Tail(queue)
  /\ UNCHANGED stopped

\* waitAndPop() returning std::nullopt.
Closed == stopped /\ queue = <<>>

\* stop(), which may be called again.
Stop ==
  /\ stopped' = TRUE
  /\ UNCHANGED queue

Next ==
  \/ \E e \in Event : Push(e)
  \/ Take
  \/ Stop

Spec == Init /\ [][Next]_vars

\* The reader keeps asking, so every accepted event is handed out.
Delivers == WF_vars(Take)

=============================================================================
