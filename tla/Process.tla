------------------------------- MODULE Process -------------------------------
(***************************************************************************)
(* A tracked program from its start to its end, with what is around it.    *)
(* It is started by MemoryAnalyzerLauncher, and then ends in the hook of   *)
(* ExitProcess, or without a launcher, and then ends in a handler of       *)
(* exit().  On the way out the report has a frame resolved, by a child of  *)
(* the process or by dbghelp, while the other threads run on.              *)
(***************************************************************************)
EXTENDS Lifetime, Launcher

vars == <<lifetimeVars, resolverVars, launcherVars>>

Init ==
  /\ LifetimeInit
  /\ ResolverInit
  /\ LauncherInit
  /\ mode = "atexit" => argv = <<>>
  /\ mode = "ExitProcess" => fds[Stdout] = "output"

Launched == mode = "ExitProcess"

\* The program runs.
Running == ~Over /\ (Launched => target = "running")

-----------------------------------------------------------------------------
(* The steps of the parts                                                  *)

LauncherSteps == Launched /\ LauncherStep /\ UNCHANGED <<lifetimeVars,
                                                         resolverVars>>

Load == Launched /\ LoadLibrary /\ UNCHANGED <<lifetimeVars, resolverVars>>

Killed == Launched /\ Kill /\ UNCHANGED <<lifetimeVars, resolverVars>>

\* What a thread does by itself, once it has come to it.
Continue(t) ==
  /\ Running
  /\ UNCHANGED launcherVars
  /\ \/ LifetimeCall(t) /\ UNCHANGED resolverVars
     \/ /\ Complete(t) \/ \E i \in DOMAIN Statics : ConstructStatic(t, i)
        /\ UNCHANGED <<resolver, descriptors, reading, forked, answer, faults>>

\* exit() goes on.
ExitGoesOn ==
  /\ Running
  /\ Unwind \/ ExitReturns
  /\ UNCHANGED <<resolverVars, launcherVars>>

\* What the program chooses to do.
ProgramStep ==
  /\ Running
  /\ \/ RuntimeInitializer \/ StartMain \/ CallExit
     \/ \E o \in Object : Construct(o) \/ Acquire(o)
     \/ \E t \in Thread : UseMemory(t) \/ CallExitProcess(t)
  /\ UNCHANGED <<resolverVars, launcherVars>>

-----------------------------------------------------------------------------
(* reportLeaks symbolizes                                                  *)

\* Bound: a process resolves one frame.
Symbolize(t) ==
  /\ Running /\ place[t] = "symbolize" /\ answer = "unknown"
  /\ IF Launched THEN ResolveInProcess ELSE Resolve
  /\ UNCHANGED <<lifetimeVars, launcherVars>>

\* There was no frame, or the resolver has answered, or refused.
SymbolizeEnds(t) ==
  /\ Running /\ place[t] = "symbolize" /\ resolver = "idle"
  /\ Goto(t, "complete")
  /\ UNCHANGED <<mode, phase, hand, holds, handlers, sessionVars,
                 trackerVars, raced, resolverVars, launcherVars>>

\* resolve(), and the signals and other waits that spoil it; another thread
\* that forks.
ResolveGoesOn == ResolverStep /\ UNCHANGED <<lifetimeVars, launcherVars>>

SignalComes == Interrupted /\ UNCHANGED <<lifetimeVars, launcherVars>>

OtherForks == BystanderForked /\ UNCHANGED <<lifetimeVars, launcherVars>>

OtherEnds == BystanderEnds /\ UNCHANGED <<lifetimeVars, launcherVars>>

ChildGoesOn == ChildStep /\ UNCHANGED <<lifetimeVars, launcherVars>>

\* The end of the process, as the launcher sees it; abort() has a code of its
\* own.
ProcessEnds ==
  /\ Launched /\ Over /\ target = "running"
  /\ TargetEnds(IF phase = "ended" THEN 0 ELSE 3)
  /\ UNCHANGED <<lifetimeVars, resolverVars>>

Next ==
  \/ LauncherSteps \/ Load \/ Killed \/ ProgramStep \/ ExitGoesOn
  \/ \E t \in Thread : Continue(t) \/ Symbolize(t) \/ SymbolizeEnds(t)
  \/ ResolveGoesOn \/ SignalComes \/ OtherForks \/ OtherEnds \/ ChildGoesOn
  \/ ProcessEnds

\* A scheduled thread goes on, the system calls return, and the child, the
\* loader thread and the launcher are scheduled too.  Nothing is assumed of
\* what the program chooses to do, of signals, and of other threads' children.
Fairness ==
  /\ \A t \in Thread : WF_vars(Continue(t)) /\ WF_vars(SymbolizeEnds(t))
  /\ WF_vars(ExitGoesOn)
  /\ WF_vars(ResolveGoesOn)
  /\ WF_vars(ChildGoesOn)
  /\ WF_vars(LauncherSteps)
  /\ WF_vars(Load)
  /\ WF_vars(ProcessEnds)

Spec == Init /\ [][Next]_vars /\ Fairness

-----------------------------------------------------------------------------
(* Properties                                                              *)

\* A process that has called exit() ends, and its launcher returns: the report
\* waits for nothing for ever.  Two things outside the analyzer can make it
\* wait: a child that another thread forked in between and that never ends
\* keeps the pipe open, and one forked while a thread changed the environment
\* never gets its lock.
ExitEnds ==
  [](~locked) /\ []<>(bystander = {}) =>
    (phase = "exit" ~> Over /\ (Launched => launcher = "left"))

=============================================================================
