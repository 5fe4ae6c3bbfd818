----------------------------- MODULE Reentrancy -----------------------------
(***************************************************************************)
(* The analyzer allocates, and its allocations enter its own hooks.  Each  *)
(* thread of MemoryAnalyzerCore is its stack of calls: an operator new or  *)
(* delete (NewDelete.cpp), what it runs of Runtime.cpp and EventQueue.cpp, *)
(* and the operators that are called in turn from there; TrackerThread's   *)
(* loop; Runtime::shutdown.  InterceptorGuard counts per thread,           *)
(* TrackingGuard is a flag per thread.                                     *)
(*                                                                         *)
(* The interposed functions of macOS (InterposeHooks.cpp) run the same     *)
(* calls, with Session for Runtime.  There the first use of either guard   *)
(* on a thread allocates the storage of its thread_locals, and a key that  *)
(* needs no storage is set while a hook runs.                              *)
(*                                                                         *)
(* Blocks and the tracker's map are left to Tracking: here an event is the *)
(* operator that pushed it, and only an allocation's has a stack trace to  *)
(* free.                                                                   *)
(***************************************************************************)
EXTENDS Naturals, Sequences, FiniteSets

CONSTANTS
  Caller,    \* threads of the program
  Main,      \* the one that returns from main
  Worker,    \* the tracker thread
  Nobody,
  MaxCalls,  \* bound: operators the program calls; on macOS it may be another
  MaxDepth   \* bound: calls on a stack

ASSUME ReentrancyAssumption ==
  /\ Main \in Caller /\ Worker \notin Caller
  /\ Nobody \notin Caller \cup {Worker, "done"}
  /\ "done" \notin Caller \cup {Worker}
  /\ MaxCalls \in [BOOLEAN -> Nat] /\ MaxDepth \in Nat

Thread == Caller \cup {Worker}

VARIABLES
  stack,        \* the calls a thread is in, innermost last
  depth,        \* InterceptorGuard::depth
  disabled,     \* TrackingGuard::disabled
  once,         \* initOnce: nobody, the thread that runs it, or "done"
  initialized,
  complete,     \* shutdownComplete
  mutex,        \* the owner of the queue's mutex
  queue,
  stopped,
  calls,        \* how many operators the program has called
  darwin,       \* the process runs on macOS, with the injected library
  key,          \* threads that have guardKey set
  storage       \* threads that have storage for their thread_locals

life == <<initialized, complete, stopped, calls>>
state == <<life, darwin, key, storage>>
vars == <<stack, depth, disabled, once, mutex, queue, state>>

\* A call of the function fn has come to a place; whether it has allocated
\* there, and the event it handles.
Call(fn, at) == [fn |-> fn, at |-> at, nested |-> FALSE, event |-> "none"]

Operator == {"new", "delete"}

Top(t) == stack[t][Len(stack[t])]
At(t, fns, place) == stack[t] # <<>> /\ Top(t).fn \in fns /\ Top(t).at = place

\* The innermost call goes on.
Moved(t, place) ==
  [stack EXCEPT ![t][Len(stack[t])] = [@ EXCEPT !.at = place, !.nested = FALSE]]
Returned(t) == [stack EXCEPT ![t] = SubSeq(@, 1, Len(@) - 1)]

Enter(t) == depth' = [depth EXCEPT ![t] = @ + 1]
Leave(t) == depth' = [depth EXCEPT ![t] = @ - 1]

Init ==
  /\ stack = [t \in Thread |-> <<>>]
  /\ depth = [t \in Thread |-> 0]
  /\ disabled = [t \in Thread |-> FALSE]
  /\ once = Nobody
  /\ initialized = FALSE
  /\ complete = FALSE
  /\ mutex = Nobody
  /\ queue = <<>>
  /\ stopped = FALSE
  /\ calls = 0
  /\ darwin \in BOOLEAN
  /\ key = {}
  /\ storage = {}

-----------------------------------------------------------------------------
(* Mutants: definitions below with one plausible bug each.                 *)

\* The body of call_once has no guard.
OnceWithoutGuard(t) ==
  /\ At(t, Operator, "once") /\ once = Nobody
  /\ once' = t
  /\ stack' = [stack EXCEPT ![t] = Append(@, Call("initialize", "body"))]
  /\ UNCHANGED <<depth, disabled, mutex, queue, state>>

\* The event of a deallocation has a stack trace too.
AllocatesTracesForAll(c) ==
  CASE c.at \in {"body", "copy", "handle", "report"} -> Operator
    [] c.at = "capture" -> {"new"}
    [] c.at = "locked" -> IF stopped THEN {} ELSE {"new"}
    [] c.at \in {"destroy", "discard"} -> {"delete"}
    [] OTHER -> {}

\* The tracker handles an event without TrackingGuard.
PopWithoutTrackingGuard(t) ==
  /\ At(t, {"run"}, "copy") /\ queue # <<>>
  /\ queue' = Tail(queue)
  /\ mutex' = Nobody
  /\ Leave(t)
  /\ stack' = [Moved(t, "handle") EXCEPT ![t][1].event = Head(queue)]
  /\ UNCHANGED <<disabled, once, state>>

\* A hook finds out whether it is in a hook but does not say that it is one.
SetKeyForgotten(t) ==
  /\ darwin /\ At(t, Operator, "enter") /\ t \notin key
  /\ stack' = Moved(t, "test")
  /\ UNCHANGED <<depth, disabled, once, mutex, queue, state>>

\* TrackingGuard is not taken back.
HandleKeepsDisabled(t) ==
  /\ At(t, {"run"}, "handle")
  /\ stack' = Moved(t, "discard")
  /\ UNCHANGED <<depth, disabled, once, mutex, queue, state>>

-----------------------------------------------------------------------------
(* Allocations                                                             *)

\* The operators a call may use where it is: the constructors of the first
\* use, the stack trace, the nodes of the queue and the copy of an event, the
\* map and the output, the report; and the traces of events that end.
Allocates(c) ==
  CASE c.at \in {"body", "copy", "handle", "report"} -> Operator
    [] c.at = "capture" -> IF c.fn = "new" THEN {"new"} ELSE {}
    [] c.at = "locked" -> IF stopped THEN {} ELSE {"new"}
    [] c.at = "destroy" -> IF c.fn = "new" THEN {"delete"} ELSE {}
    [] c.at = "discard" -> IF c.event = "new" THEN {"delete"} ELSE {}
    [] OTHER -> {}

Nested(t) ==
  /\ stack[t] # <<>> /\ Len(stack[t]) < MaxDepth
  /\ ~Top(t).nested
  /\ \E op \in Allocates(Top(t)) :
       stack' = [stack EXCEPT ![t] =
         Append([@ EXCEPT ![Len(@)].nested = TRUE], Call(op, "enter"))]
  /\ UNCHANGED <<depth, disabled, once, mutex, queue, state>>

\* The program calls an operator.
Use(t) ==
  /\ t \in Caller /\ stack[t] = <<>> /\ calls < MaxCalls[darwin]
  /\ \E op \in Operator : stack' = [stack EXCEPT ![t] = <<Call(op, "enter")>>]
  /\ calls' = calls + 1
  /\ UNCHANGED <<depth, disabled, once, mutex, queue, initialized, complete,
                 stopped, darwin, key, storage>>

-----------------------------------------------------------------------------
(* macOS                                                                   *)

\* This thread comes to a guard for the first time.
LacksStorage(t) ==
  darwin /\ t \notin storage /\ Top(t).at \in {"test", "pop"}

\* Reentry: a hook in a hook does nothing, before it comes to any guard.
Reenter(t) ==
  /\ darwin /\ At(t, Operator, "enter") /\ t \in key
  /\ stack' = Returned(t)
  /\ UNCHANGED <<depth, disabled, once, mutex, queue, state>>

SetKey(t) ==
  /\ darwin /\ At(t, Operator, "enter") /\ t \notin key
  /\ key' = key \cup {t}
  /\ stack' = Moved(t, "test")
  /\ UNCHANGED <<depth, disabled, once, mutex, queue, life, darwin, storage>>

\* The storage is a block from malloc, which is hooked like every other one.
AllocateStorage(t) ==
  /\ stack[t] # <<>> /\ LacksStorage(t) /\ ~Top(t).nested
  /\ Len(stack[t]) < MaxDepth
  /\ stack' = [stack EXCEPT ![t] =
       Append([@ EXCEPT ![Len(@)].nested = TRUE], Call("new", "enter"))]
  /\ UNCHANGED <<depth, disabled, once, mutex, queue, state>>

\* malloc has returned; if a hook in it came to a guard too, that one has
\* stored a block before.
StoreStorage(t) ==
  /\ stack[t] # <<>> /\ LacksStorage(t) /\ Top(t).nested
  /\ storage' = storage \cup {t}
  /\ stack' = Moved(t, Top(t).at)
  /\ UNCHANGED <<depth, disabled, once, mutex, queue, life, darwin, key>>

\* The key of the outermost hook goes with it.
HookReturns(t) == stack' = Returned(t) /\ key' = key \ {t}

-----------------------------------------------------------------------------
(* trackAllocation and trackDeallocation                                   *)

\* A call has come to the test of both guards.
Tests(t) ==
  At(t, Operator, IF darwin THEN "test" ELSE "enter") /\ ~LacksStorage(t)

Disabled(t) == depth[t] > 0 \/ disabled[t]

\* Tracking is off on this thread, or for good.
Ignore(t) ==
  /\ Tests(t)
  /\ Disabled(t) \/ (~initialized /\ complete)
  /\ HookReturns(t)
  /\ UNCHANGED <<depth, disabled, once, mutex, queue, life, darwin, storage>>

\* ensureInitialized finds all in place; or else comes to call_once.
Ensure(t) ==
  /\ Tests(t) /\ ~Disabled(t)
  /\ \/ initialized /\ Enter(t) /\ stack' = Moved(t, "capture")
     \/ /\ ~initialized /\ ~complete
        /\ stack' = Moved(t, "once")
        /\ UNCHANGED depth
  /\ UNCHANGED <<disabled, once, mutex, queue, state>>

\* This thread is the one to run the body of call_once, under a guard.
Initialize(t) ==
  /\ At(t, Operator, "once") /\ once = Nobody
  /\ once' = t
  /\ Enter(t)
  /\ stack' = [stack EXCEPT ![t] = Append(@, Call("initialize", "body"))]
  /\ UNCHANGED <<disabled, mutex, queue, state>>

\* The tracker thread starts, initialized is set, the guard goes.
Initialized(t) ==
  /\ At(t, {"initialize"}, "body")
  /\ stack' = [Returned(t) EXCEPT ![Worker] = <<Call("run", "pop")>>]
  /\ initialized' = TRUE
  /\ once' = "done"
  /\ Leave(t)
  /\ UNCHANGED <<disabled, mutex, queue, complete, stopped, calls, darwin, key,
                 storage>>

\* call_once returns; initialized may have been cleared by a shutdown.
AfterOnce(t) ==
  /\ At(t, Operator, "once") /\ once = "done"
  /\ \/ initialized /\ Enter(t) /\ stack' = Moved(t, "capture") /\ UNCHANGED key
     \/ ~initialized /\ HookReturns(t) /\ UNCHANGED depth
  /\ UNCHANGED <<disabled, once, mutex, queue, life, darwin, storage>>

\* The event is complete: push() takes a guard of its own.
Captured(t) ==
  /\ At(t, Operator, "capture")
  /\ Enter(t)
  /\ stack' = Moved(t, "lock")
  /\ UNCHANGED <<disabled, once, mutex, queue, state>>

Lock(t) ==
  /\ At(t, Operator, "lock") /\ mutex = Nobody
  /\ mutex' = t
  /\ stack' = Moved(t, "locked")
  /\ UNCHANGED <<depth, disabled, once, queue, state>>

\* The event is in the queue unless that is stopped; push() returns.
Pushed(t) ==
  /\ At(t, Operator, "locked")
  /\ queue' = IF stopped THEN queue ELSE Append(queue, Top(t).fn)
  /\ mutex' = Nobody
  /\ Leave(t)
  /\ stack' = Moved(t, "destroy")
  /\ UNCHANGED <<disabled, once, state>>

\* The event is destroyed before the guard.
Tracked(t) ==
  /\ At(t, Operator, "destroy")
  /\ Leave(t)
  /\ HookReturns(t)
  /\ UNCHANGED <<disabled, once, mutex, queue, life, darwin, storage>>

-----------------------------------------------------------------------------
(* TrackerThread::run                                                      *)

\* waitAndPop has a guard and, when it goes on, the mutex.
Wake(t) ==
  /\ At(t, {"run"}, "pop") /\ ~LacksStorage(t)
  /\ mutex = Nobody /\ (queue # <<>> \/ stopped)
  /\ mutex' = t
  /\ Enter(t)
  /\ stack' = Moved(t, "copy")
  /\ UNCHANGED <<disabled, once, queue, state>>

\* It returns a copy of the first event; the handler begins with its guard.
Pop(t) ==
  /\ At(t, {"run"}, "copy") /\ queue # <<>>
  /\ queue' = Tail(queue)
  /\ mutex' = Nobody
  /\ Leave(t)
  /\ disabled' = [disabled EXCEPT ![t] = TRUE]
  /\ stack' = [Moved(t, "handle") EXCEPT ![t][1].event = Head(queue)]
  /\ UNCHANGED <<once, state>>

\* Or nullopt, and the thread ends.
End(t) ==
  /\ At(t, {"run"}, "copy") /\ queue = <<>>
  /\ mutex' = Nobody
  /\ Leave(t)
  /\ stack' = Returned(t)
  /\ UNCHANGED <<disabled, once, queue, state>>

\* onAllocate or onDeallocate returns.
Handled(t) ==
  /\ At(t, {"run"}, "handle")
  /\ disabled' = [disabled EXCEPT ![t] = FALSE]
  /\ stack' = Moved(t, "discard")
  /\ UNCHANGED <<depth, once, mutex, queue, state>>

\* The event goes out of scope, under no guard.
Discarded(t) ==
  /\ At(t, {"run"}, "discard")
  /\ stack' = [Moved(t, "pop") EXCEPT ![t][1].event = "none"]
  /\ UNCHANGED <<depth, disabled, once, mutex, queue, state>>

-----------------------------------------------------------------------------
(* Runtime::shutdown                                                       *)

Shutdown(t) ==
  /\ t = Main /\ stack[t] = <<>> /\ initialized
  /\ initialized' = FALSE
  /\ stack' = [stack EXCEPT ![t] = <<Call("shutdown", "stop")>>]
  /\ UNCHANGED <<depth, disabled, once, mutex, queue, complete, stopped, calls,
                 darwin, key, storage>>

Stop(t) ==
  /\ At(t, {"shutdown"}, "stop") /\ mutex = Nobody
  /\ stopped' = TRUE
  /\ stack' = Moved(t, "join")
  /\ UNCHANGED <<depth, disabled, once, mutex, queue, initialized, complete,
                 calls, darwin, key, storage>>

Join(t) ==
  /\ At(t, {"shutdown"}, "join") /\ stack[Worker] = <<>>
  /\ stack' = Moved(t, "report")
  /\ UNCHANGED <<depth, disabled, once, mutex, queue, state>>

Reported(t) ==
  /\ At(t, {"shutdown"}, "report")
  /\ complete' = TRUE
  /\ stack' = Returned(t)
  /\ UNCHANGED <<depth, disabled, once, mutex, queue, initialized, stopped,
                 calls, darwin, key, storage>>

-----------------------------------------------------------------------------

Step(t) ==
  \/ Nested(t) \/ Ignore(t) \/ Ensure(t) \/ Initialize(t) \/ Initialized(t)
  \/ AfterOnce(t) \/ Captured(t) \/ Lock(t) \/ Pushed(t) \/ Tracked(t)
  \/ Wake(t) \/ Pop(t) \/ End(t) \/ Handled(t) \/ Discarded(t)
  \/ Stop(t) \/ Join(t) \/ Reported(t)
  \/ Reenter(t) \/ SetKey(t) \/ AllocateStorage(t) \/ StoreStorage(t)

Next == \E t \in Thread : Use(t) \/ Shutdown(t) \/ Step(t)

Spec == Init /\ [][Next]_vars

\* A thread inside a call, and the tracker thread, run on.  The calls being
\* finitely many, nobody waits for the mutex for ever.
FairSpec == Spec /\ \A t \in Thread : WF_vars(Step(t))

-----------------------------------------------------------------------------
(* Properties                                                              *)

\* The guards a call holds where it is.
Guards(c) ==
  CASE c.at \in {"capture", "destroy", "body", "copy"} -> 1
    [] c.at \in {"lock", "locked"} -> 2
    [] OTHER -> 0

\* The counter of a thread is the number of guards its calls hold, and the flag
\* says whether the tracker is inside a handler: no inner guard takes back what
\* an outer one still needs.
TypeOK ==
  \A t \in Thread :
    /\ depth[t] = Cardinality({guard \in (1 .. Len(stack[t])) \X {1, 2} :
                                 guard[2] <= Guards(stack[t][guard[1]])})
    /\ disabled[t] <=> \E i \in 1 .. Len(stack[t]) : stack[t][i].at = "handle"
    /\ mutex = t <=> \E i \in 1 .. Len(stack[t]) :
                       stack[t][i].at \in {"locked", "copy"}
    /\ once = t <=> \E i \in 1 .. Len(stack[t]) : stack[t][i].at = "body"
    /\ t \in key <=> /\ darwin
                     /\ \E i \in 1 .. Len(stack[t]) :
                          /\ stack[t][i].fn \in Operator
                          /\ stack[t][i].at # "enter"

\* No thread comes to the mutex while it holds it, or to call_once while it
\* runs its body (Runtime.cpp:60-68).
NoSelfDeadlock ==
  \A t \in Thread : stack[t] # <<>> =>
    /\ Top(t).at \in {"lock", "pop", "stop"} => mutex # t
    /\ Top(t).at = "once" => once # t

\* What the analyzer allocates is not announced (README.md:30), with two
\* exceptions: the traces of events the tracker thread is done with, and on
\* macOS the storage of that thread's guards, which no hook is around.
OwnAllocationsAreSilent ==
  \A t \in Thread : \A i \in 2 .. Len(stack[t]) :
    LET call == stack[t][i]
        within == stack[t][i - 1].at
    IN  call.fn \in Operator /\ call.at \notin {"enter", "test", "once"}
          => within = "discard" \/ (darwin /\ within = "pop")

\* Where a guard's first use allocates, that allocation does not come to the
\* guard again without end (InterposeHooks.cpp:15-21): once more at most.
FirstUseEnds ==
  \A t \in Thread :
    LET uses == {i \in 1 .. Len(stack[t]) : stack[t][i].at \in {"test", "pop"}}
    IN  Cardinality({i \in uses : stack[t][i].nested}) <= 2

\* These exceptions do not keep the tracker thread busy for ever: once the
\* program pauses, the queue runs empty.
TrackerCatchesUp == queue # <<>> ~> queue = <<>>

=============================================================================
