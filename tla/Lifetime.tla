------------------------------ MODULE Lifetime ------------------------------
(***************************************************************************)
(* The analyzer's own lifetime in a process that starts and ends: static   *)
(* objects of the program and of the analyzer are constructed, and what    *)
(* exit() has to run is a stack of their destructors and of the handlers   *)
(* given to atexit.  On Linux and macOS Runtime::shutdown (Runtime.cpp) or *)
(* Session::shutdown (Session.cpp) is such a handler.  On Windows the hook *)
(* of ExitProcess calls it, on whichever thread comes there, and the       *)
(* analyzer's own objects are destroyed after all threads are gone.        *)
(*                                                                         *)
(* The tracker thread and its queue are those SyncTracker.tla promises: an *)
(* event takes effect when it is pushed, unless the queue is stopped.      *)
(***************************************************************************)
EXTENDS SymbolResolver, Sequences, SequencesExt

CONSTANTS
  Thread,  \* threads of the program
  Main,    \* the one that runs main and exit()
  Eager,   \* static objects that allocate in their constructor
  Lazy     \* those that allocate later; either free what they have when
           \* they are destroyed

Object == Eager \cup Lazy

\* The statics of the analyzer, in the order doInitialize constructs them.
Statics == <<"Tracker", "EventQueue", "SymbolResolver", "TrackerThread">>

ASSUME LifetimeAssumption ==
  /\ Main \in Thread
  /\ Eager \cap Lazy = {}
  /\ Object \cap (Range(Statics) \cup {"shutdown"}) = {}

\* Where a thread is inside doInitialize: at the construction of a static, or past
\* them all.
InOnce == Range(Statics) \cup {"start", "register", "publish"}

VARIABLES
  mode,         \* how shutdown is reached: "atexit" or "ExitProcess"
  phase,        \* of the process
  place,        \* where each thread is
  hand,         \* what the tracked call of a thread is about
  holds,        \* objects that hold a block
  handlers,     \* what exit() has to run, last one first
  alive,        \* static objects of the analyzer that can be used
  initialized, shutdownComplete,
  initOnce,     \* of the body of call_once: "none", "running" or "done"
  stopped,      \* of the event queue
  worker,       \* TrackerThread::worker
  known,        \* objects whose block is in the tracker's map
  reports,      \* the reports written: the objects whose block each one lists
  raced         \* history: what threads did in an order that nothing rules out

programVars == <<place, hand, holds, handlers>>
sessionVars == <<alive, initialized, shutdownComplete, initOnce, stopped>>
trackerVars == <<worker, known, reports>>
lifetimeVars == <<mode, phase, programVars, sessionVars, trackerVars, raced>>

\* Where a thread is inside shutdown().
InShutdown ==
  {"latch", "stop", "join", "joining", "report", "symbolize", "complete"}

NoCall == <<"use", Main>>

LifetimeInit ==
  /\ mode \in {"atexit", "ExitProcess"}
  /\ phase = "static"
  /\ place = [t \in Thread |-> "idle"]
  /\ hand = [t \in Thread |-> NoCall]
  /\ holds = {}
  /\ handlers = <<>>
  /\ alive = {}
  /\ initialized = FALSE
  /\ shutdownComplete = FALSE
  /\ initOnce = "none"
  /\ stopped = FALSE
  /\ worker = "none"
  /\ known = {}
  /\ reports = {}
  /\ raced = {}

Goto(t, p) == place' = [place EXCEPT ![t] = p]

\* What is done with static objects that were destroyed is undefined.
Uses(statics) ==
  IF statics \subseteq alive THEN phase' = phase ELSE phase' \in {phase, "aborted"}

\* Tracking begins while another thread is about to end it, or the process.
LateStart(if) == IF if THEN {"lateStart"} ELSE {}

-----------------------------------------------------------------------------
(* Mutants: actions below with one plausible bug each.                     *)

\* Nothing is tracked any more once exit() has begun.
TestStopsAtExit(t) ==
  /\ place[t] = "test"
  /\ Goto(t, IF phase = "exit" \/ shutdownComplete THEN "done"
             ELSE IF initialized THEN "push" ELSE "once")
  /\ UNCHANGED <<mode, phase, hand, holds, handlers, sessionVars,
                 trackerVars, raced>>

\* shutdown() does not reset initialized.
LatchNothing(t) ==
  /\ place[t] = "latch"
  /\ Goto(t, "stop")
  /\ UNCHANGED <<mode, phase, hand, holds, handlers, sessionVars,
                 trackerVars, raced>>

\* TrackerThread::stop does not join.
LeaveUnjoined(t) ==
  /\ place[t] = "join"
  /\ Goto(t, "report")
  /\ UNCHANGED <<mode, phase, hand, holds, handlers, sessionVars,
                 trackerVars, raced>>

-----------------------------------------------------------------------------
(* Tracked calls                                                           *)

\* A thread comes to trackAllocation or trackDeallocation.
Call(t, kind, o) ==
  /\ hand' = [hand EXCEPT ![t] = <<kind, o>>]
  /\ Goto(t, "test")

\* ensureInitialized().
Test(t) ==
  /\ place[t] = "test"
  /\ Goto(t, IF initialized THEN "push"
             ELSE IF shutdownComplete THEN "done" ELSE "once")
  /\ UNCHANGED <<mode, phase, hand, holds, handlers, sessionVars,
                 trackerVars, raced>>

\* call_once runs doInitialize on the first thread; others wait for its end, but
\* exit() and ExitProcess do not.
EnterOnce(t) ==
  /\ place[t] = "once" /\ initOnce = "none"
  /\ initOnce' = "running"
  /\ Goto(t, Statics[1])
  /\ raced' = raced \cup LateStart(\E u \in Thread : place[u] = "kill")
  /\ UNCHANGED <<mode, phase, hand, holds, handlers, alive, initialized,
                 shutdownComplete, stopped, trackerVars>>

\* A static is constructed and its destructor registered; on Windows with the
\* DLL, out of reach of exit().  The symbol resolver is initialized at once, which
\* dbghelp may refuse.
ConstructStatic(t, i) ==
  /\ place[t] = Statics[i]
  /\ alive' = alive \cup {Statics[i]}
  /\ handlers' = IF mode = "atexit" THEN Append(handlers, Statics[i]) ELSE handlers
  /\ ready' \in CASE Statics[i] # "SymbolResolver" -> {ready}
                  [] mode = "atexit" -> {TRUE}
                  [] OTHER -> BOOLEAN
  /\ Goto(t, IF i < Len(Statics) THEN Statics[i + 1] ELSE "start")
  /\ UNCHANGED <<mode, phase, hand, holds, initialized, shutdownComplete,
                 initOnce, stopped, trackerVars, raced>>

\* TrackerThread::start.
Start(t) ==
  /\ place[t] = "start"
  /\ Uses({"Tracker", "EventQueue", "TrackerThread"})
  /\ worker' = "running"
  /\ Goto(t, IF mode = "atexit" THEN "register" ELSE "publish")
  /\ UNCHANGED <<mode, hand, holds, handlers, sessionVars, known, reports,
                 raced>>

\* atexit(&shutdown), except on Windows.
Register(t) ==
  /\ place[t] = "register"
  /\ handlers' = Append(handlers, "shutdown")
  /\ Goto(t, "publish")
  /\ UNCHANGED <<mode, phase, hand, holds, sessionVars, trackerVars, raced>>

\* initialized is set, and call_once returns.
Publish(t) ==
  /\ place[t] = "publish"
  /\ initialized' = TRUE
  /\ initOnce' = "done"
  /\ Goto(t, IF hand[t][1] = "initialize" THEN "done" ELSE "push")
  /\ UNCHANGED <<mode, phase, hand, holds, handlers, alive,
                 shutdownComplete, stopped, trackerVars, raced>>

\* It has run already.
AfterOnce(t) ==
  /\ place[t] = "once" /\ initOnce = "done"
  /\ Goto(t, IF initialized /\ hand[t][1] # "initialize"
             THEN "push" ELSE "done")
  /\ UNCHANGED <<mode, phase, hand, holds, handlers, sessionVars,
                 trackerVars, raced>>

\* EventQueue::push.
Push(t) ==
  LET kind == hand[t][1]
      o == hand[t][2]
  IN  /\ place[t] = "push"
      /\ known' = IF stopped THEN known
                  ELSE CASE kind \in {"construct", "acquire"} -> known \cup {o}
                         [] kind = "destroy" -> known \ {o}
                         [] OTHER -> known
      /\ Uses({"EventQueue"})
      /\ raced' = raced \cup (IF "EventQueue" \in alive THEN {} ELSE {"push"})
      /\ Goto(t, "done")
      /\ UNCHANGED <<mode, hand, holds, handlers, sessionVars, worker,
                     reports>>

\* The call returns.  A constructor returns with it, and the destructor of the
\* object is registered; exit() goes on after a destructor.
Done(t) ==
  LET kind == hand[t][1]
      o == hand[t][2]
  IN  /\ place[t] = "done"
      /\ holds' = CASE kind \in {"construct", "acquire"} -> holds \cup {o}
                    [] kind = "destroy" -> holds \ {o}
                    [] OTHER -> holds
      /\ handlers' = IF kind = "construct"
                     THEN Append(handlers, o) ELSE handlers
      /\ hand' = [hand EXCEPT ![t] = NoCall]
      /\ Goto(t, IF kind = "destroy" THEN "unwind" ELSE "idle")
      /\ UNCHANGED <<mode, phase, sessionVars, trackerVars, raced>>

-----------------------------------------------------------------------------
(* The program                                                             *)

Idle(t) == place[t] = "idle"

\* RuntimeInitializer of MemoryAnalyzerCore, at any point among the static
\* objects; the preloaded analyzer has none.
RuntimeInitializer ==
  /\ mode = "atexit" /\ phase = "static" /\ Idle(Main)
  /\ hand' = [hand EXCEPT ![Main] = <<"initialize", Main>>]
  /\ Goto(Main, IF shutdownComplete THEN "done" ELSE "once")
  /\ UNCHANGED <<mode, phase, holds, handlers, sessionVars, trackerVars,
                 raced>>

\* A static object is constructed, before main or when a function first uses it.
Construct(o) ==
  /\ phase \in {"static", "main"} /\ Idle(Main) /\ o \notin Range(handlers)
  /\ IF o \in Eager
     THEN Call(Main, "construct", o) /\ UNCHANGED <<handlers>>
     ELSE /\ handlers' = Append(handlers, o)
          /\ UNCHANGED <<place, hand>>
  /\ UNCHANGED <<mode, phase, holds, sessionVars, trackerVars, raced>>

Acquire(o) ==
  /\ phase = "main" /\ Idle(Main) /\ o \in (Lazy \cap Range(handlers)) \ holds
  /\ Call(Main, "acquire", o)
  /\ UNCHANGED <<mode, phase, holds, handlers, sessionVars, trackerVars,
                 raced>>

\* Another thread allocates or frees something, also while Main is in exit().
UseMemory(t) ==
  /\ t # Main /\ phase \in {"main", "exit"} /\ Idle(t)
  /\ Call(t, "use", t)
  /\ UNCHANGED <<mode, phase, holds, handlers, sessionVars, trackerVars,
                 raced>>

StartMain ==
  /\ phase = "static" /\ Idle(Main)
  /\ phase' = "main"
  /\ UNCHANGED <<mode, programVars, sessionVars, trackerVars, raced>>

-----------------------------------------------------------------------------
(* The end of the process                                                  *)

\* exit(), or the return of main.
CallExit ==
  /\ phase = "main" /\ Idle(Main)
  /\ phase' = "exit"
  /\ Goto(Main, "unwind")
  /\ UNCHANGED <<mode, hand, holds, handlers, sessionVars, trackerVars,
                 raced>>

\* A std::thread that is destroyed unjoined, as TrackerThread's member would
\* be, ends the process.
Destroyed(static) ==
  /\ alive' = alive \ {static}
  /\ phase' = IF static = "TrackerThread" /\ worker = "running" THEN "aborted"
              ELSE phase

\* exit() runs the newest handler.  It waits for no other thread.
Unwind ==
  /\ place[Main] = "unwind" /\ handlers # <<>>
  /\ handlers' = Front(handlers)
  /\ LET h == Last(handlers)
     IN  /\ raced' = raced \cup LateStart(/\ h \in Range(Statics)
                                          /\ initOnce = "running")
         /\ \/ /\ h \in holds
               /\ Call(Main, "destroy", h)
               /\ UNCHANGED <<phase, alive>>
            \/ /\ h \in Object \ holds
               /\ UNCHANGED <<place, hand, phase, alive>>
            \/ /\ h = "shutdown"
               /\ Goto(Main, "shutdown")
               /\ UNCHANGED <<hand, phase, alive>>
            \/ /\ h \in Range(Statics)
               /\ Destroyed(h)
               /\ UNCHANGED <<place, hand>>
  /\ UNCHANGED <<mode, holds, initialized, shutdownComplete, initOnce,
                 stopped, trackerVars>>

\* All is run: the process ends, or on Windows comes to ExitProcess.
ExitReturns ==
  /\ place[Main] = "unwind" /\ handlers = <<>>
  /\ IF mode = "atexit"
     THEN /\ phase' = "ended"
          /\ raced' = raced \cup LateStart(initOnce = "running")
          /\ UNCHANGED place
     ELSE Goto(Main, "shutdown") /\ UNCHANGED <<phase, raced>>
  /\ UNCHANGED <<mode, hand, holds, handlers, sessionVars, trackerVars>>

\* A thread calls ExitProcess itself.
CallExitProcess(t) ==
  /\ mode = "ExitProcess" /\ phase \in {"main", "exit"} /\ Idle(t)
  /\ phase' = "exit"
  /\ Goto(t, "shutdown")
  /\ UNCHANGED <<mode, hand, holds, handlers, sessionVars, trackerVars,
                 raced>>

\* realExitProcess: the other threads are gone, and then the analyzer's statics.
RealExitProcess(t) ==
  /\ place[t] = "kill"
  /\ phase' = IF worker = "running" THEN "aborted" ELSE "ended"
  /\ alive' = {}
  /\ UNCHANGED <<mode, programVars, initialized, shutdownComplete, initOnce,
                 stopped, trackerVars, raced>>

-----------------------------------------------------------------------------
(* Runtime::shutdown and Session::shutdown                                 *)

Overlaps(t) == \E u \in Thread \ {t} : place[u] \in InShutdown

\* Back in exit(), or in the hook.
ShutdownReturns(t) == Goto(t, IF mode = "atexit" THEN "unwind" ELSE "kill")

\* Nothing keeps two threads from being here at once.
IfInitialized(t) ==
  /\ place[t] = "shutdown"
  /\ IF initialized THEN Goto(t, "latch") ELSE ShutdownReturns(t)
  /\ raced' = raced \cup (IF Overlaps(t) THEN {"overlap"} ELSE {})
                   \cup LateStart(~initialized /\ initOnce = "running")
  /\ UNCHANGED <<mode, phase, hand, holds, handlers, sessionVars,
                 trackerVars>>

Latch(t) ==
  /\ place[t] = "latch"
  /\ initialized' = FALSE
  /\ Goto(t, "stop")
  /\ UNCHANGED <<mode, phase, hand, holds, handlers, alive,
                 shutdownComplete, initOnce, stopped, trackerVars, raced>>

StopQueue(t) ==
  /\ place[t] = "stop"
  /\ Uses({"EventQueue", "TrackerThread"})
  /\ stopped' = TRUE
  /\ Goto(t, "join")
  /\ UNCHANGED <<mode, hand, holds, handlers, alive, initialized,
                 shutdownComplete, initOnce, trackerVars, raced>>

\* joinable(), and then join().
Join(t) ==
  /\ place[t] = "join"
  /\ Goto(t, IF worker = "running" THEN "joining" ELSE "report")
  /\ UNCHANGED <<mode, phase, hand, holds, handlers, sessionVars,
                 trackerVars, raced>>

\* Two threads that join the same thread: both may return, or one may end the
\* process with an exception.
Joined(t) ==
  /\ place[t] = "joining"
  /\ LET another == \E u \in Thread \ {t} : place[u] = "joining"
     IN  phase' \in IF another \/ worker = "joined" THEN {phase, "aborted"}
                   ELSE {phase}
  /\ worker' = "joined"
  /\ Goto(t, "report")
  /\ UNCHANGED <<mode, hand, holds, handlers, sessionVars, known,
                 reports, raced>>

\* reportLeaks() reads the map; symbolizing what it lists is SymbolResolver's.
Report(t) ==
  /\ place[t] = "report"
  /\ Uses({"Tracker"})
  /\ reports' = reports \cup {known}
  /\ Goto(t, "symbolize")
  /\ UNCHANGED <<mode, hand, holds, handlers, sessionVars, worker, known,
                 raced>>

\* SymbolResolver::shutdown and the latch at the end.
Complete(t) ==
  /\ place[t] = "complete"
  /\ ready' = FALSE
  /\ shutdownComplete' = TRUE
  /\ ShutdownReturns(t)
  /\ UNCHANGED <<mode, phase, hand, holds, handlers, alive, initialized,
                 initOnce, stopped, trackerVars, raced>>

\* The steps that leave the symbol resolver alone.
LifetimeCall(t) ==
  \/ Test(t) \/ EnterOnce(t) \/ Start(t) \/ Register(t) \/ Publish(t)
  \/ AfterOnce(t) \/ Push(t) \/ Done(t)
  \/ IfInitialized(t) \/ Latch(t) \/ StopQueue(t) \/ Join(t) \/ Joined(t)
  \/ Report(t) \/ RealExitProcess(t)

-----------------------------------------------------------------------------
(* Properties                                                              *)

Over == phase \in {"ended", "aborted"}

\* No tracked call that is told the analyzer is there finds the queue it is to
\* push to destroyed (NewDelete.cpp:79-99): exit() runs shutdown() before the
\* destructors of what shutdown() uses.  A call told so earlier may be too late,
\* and exit() may have overtaken doInitialize.
NoNewCallTouchesDestroyed ==
  [][\A t \in Thread : place'[t] = "push" /\ place[t] # "push"
                         => "EventQueue" \in alive' \/ "lateStart" \in raced'
    ]_<<place, alive, raced>>

\* Where shutdown() is an atexit handler, what a static object acquired in its
\* constructor is in no report: the first acquisition registered shutdown(), so
\* that the destructor, registered after it, runs before it.
StaticOwnersAreFreed ==
  mode = "atexit" => \A report \in reports : report \cap Eager = {}

\* A process that was tracked ends with a report, unless two threads ended it or
\* one began to track while another was about to end it; and what the analyzer
\* does aborts it only then, or when a thread pushed too late.
ReportUnlessRaced ==
  /\ phase = "ended" => \/ worker = "none" \/ reports # {}
                        \/ raced \cap {"overlap", "lateStart"} # {}
  /\ phase = "aborted" => raced # {}

=============================================================================
