------------------------------ MODULE Launcher ------------------------------
(***************************************************************************)
(* MemoryAnalyzerLauncher (Windows/Launcher.cpp): it starts the target     *)
(* suspended, has a remote thread load the analyzer into it, resumes it,   *)
(* and forwards its exit code.  Every call of the operating system may     *)
(* fail.  The target is external: here it is created, killed or resumed,   *)
(* and says with which code it ended.                                      *)
(***************************************************************************)
EXTENDS CommandLine

CONSTANTS
  Argv,   \* what may be given as argv[2] and after: sequences of arguments
  Base,   \* addresses where the target may load the analyzer
  Dword   \* 2 to the width of a thread's exit code

ASSUME LauncherAssumption ==
  /\ \A argv \in Argv : argv \in Seq(Seq(Char))
  /\ Base \subseteq Nat \ {0}
  /\ Dword \in Nat \ {0}

VARIABLES
  launcher,  \* where the launcher is; "left": it has returned
  argv,      \* its arguments, until they are used
  path,      \* fullDll: "full", or "garbage" if the array was not written
  handles,   \* the handles it holds
  memory,    \* it has a block of memory in the target
  loader,    \* the remote thread
  result,    \* what LoadLibraryW returned there
  injected,  \* what injectDll returns
  target,    \* the target process
  hooked,    \* the analyzer is loaded in it
  intact,    \* history: the target got its arguments as they were given
  exitCode   \* that of the target and, when it has left, of the launcher

launcherVars == <<launcher, argv, path, handles, memory, loader, result,
                  injected, target, hooked, intact, exitCode>>

\* STILL_ACTIVE: the code of a process that has not ended.
NoCode == 259

LauncherInit ==
  /\ launcher = "start"
  /\ argv \in Argv
  /\ path = "full"
  /\ handles = {}
  /\ memory = FALSE
  /\ loader = "none"
  /\ result = 0
  /\ injected = FALSE
  /\ target = "none"
  /\ hooked = FALSE
  /\ intact = FALSE
  /\ exitCode = [target |-> NoCode, launcher |-> NoCode]

\* wmain returns.
LeaveWith(code) ==
  /\ launcher' = "left"
  /\ argv' = <<>>
  /\ exitCode' = [exitCode EXCEPT !.launcher = code]

-----------------------------------------------------------------------------
(* Mutants: actions below with one plausible bug each.                     *)

\* The loader thread's result is taken for a success whatever it is.
TakeResultUnseen ==
  /\ launcher = "loading" /\ loader = "ended"
  /\ injected' = TRUE
  /\ handles' = handles \ {"loader"}
  /\ launcher' = "free"
  /\ UNCHANGED <<argv, path, memory, loader, result, target, hooked, intact,
                 exitCode>>

\* A failed injection closes the handles of the target and leaves it there.
GiveUpWithoutTerminate ==
  /\ launcher = "giveUp"
  /\ handles' = {}
  /\ LeaveWith(4)
  /\ UNCHANGED <<path, memory, loader, result, injected, target, hooked,
                 intact>>

-----------------------------------------------------------------------------
(* wmain up to CreateProcessW                                              *)

Usage ==
  /\ launcher = "start" /\ argv = <<>>
  /\ LeaveWith(2)
  /\ UNCHANGED <<path, handles, memory, loader, result, injected, target,
                 hooked, intact>>

BadPath ==
  /\ launcher = "start" /\ argv # <<>>
  /\ LeaveWith(2)
  /\ UNCHANGED <<path, handles, memory, loader, result, injected, target,
                 hooked, intact>>

\* For a path longer than MAX_PATH, GetFullPathNameW returns its length, which
\* is not 0, and writes nothing.
FullPath ==
  /\ launcher = "start" /\ argv # <<>>
  /\ path' \in {"full", "garbage"}
  /\ launcher' = "create"
  /\ UNCHANGED <<argv, handles, memory, loader, result, injected, target,
                 hooked, intact, exitCode>>

\* No program has a name with a quote in it, or one that ends in a backslash.
IsProgram(name) ==
  /\ name # <<>>
  /\ Last(name) # "backslash"
  /\ \A i \in 1 .. Len(name) : name[i] # "quote"

CreateProcessFails ==
  /\ launcher = "create"
  /\ LeaveWith(3)
  /\ UNCHANGED <<path, handles, memory, loader, result, injected, target,
                 hooked, intact>>

CreateProcess ==
  /\ launcher = "create" /\ IsProgram(Head(argv))
  /\ target' = "suspended"
  /\ handles' = {"process", "thread"}
  /\ intact' = (Parsed(Line(argv)) = argv)
  /\ argv' = <<>>
  /\ launcher' = "inject"
  /\ UNCHANGED <<path, memory, loader, result, injected, hooked, exitCode>>

-----------------------------------------------------------------------------
(* injectDll                                                               *)

\* The string of its argument is made from the array; if that was not written,
\* reading it may go wrong.
ReadGarbage ==
  /\ launcher = "inject" /\ path = "garbage"
  /\ launcher' = "crashed"
  /\ handles' = {}
  /\ UNCHANGED <<argv, path, memory, loader, result, injected, target, hooked,
                 intact, exitCode>>

\* VirtualAllocEx, which like the next two fails in a process that has ended.
AllocateMemory ==
  /\ launcher = "inject"
  /\ \/ target = "suspended" /\ launcher' = "write" /\ memory' = TRUE
     \/ launcher' = "giveUp" /\ UNCHANGED memory
  /\ UNCHANGED <<argv, path, handles, loader, result, injected, target, hooked,
                 intact, exitCode>>

\* WriteProcessMemory.
WriteMemory ==
  /\ launcher = "write"
  /\ \/ target = "suspended" /\ launcher' = "thread"
     \/ launcher' = "free"
  /\ UNCHANGED <<argv, path, handles, memory, loader, result, injected, target,
                 hooked, intact, exitCode>>

\* CreateRemoteThread.
CreateThread ==
  /\ launcher = "thread"
  /\ \/ /\ target = "suspended"
        /\ loader' = "running"
        /\ handles' = handles \cup {"loader"}
        /\ launcher' = "loading"
     \/ launcher' = "free" /\ UNCHANGED <<loader, handles>>
  /\ UNCHANGED <<argv, path, memory, result, injected, target, hooked, intact,
                 exitCode>>

\* In the target: LoadLibraryW, with DllMain, returns where the analyzer is.
LoadLibrary ==
  /\ loader = "running"
  /\ loader' = "ended"
  /\ \/ path = "full" /\ hooked' = TRUE /\ result' \in Base
     \/ result' = 0 /\ UNCHANGED hooked
  /\ UNCHANGED <<launcher, argv, path, handles, memory, injected, target,
                 intact, exitCode>>

\* The thread's exit code is that address cut to a DWORD.
TakeResult ==
  /\ launcher = "loading" /\ loader = "ended"
  /\ injected' = (result % Dword # 0)
  /\ handles' = handles \ {"loader"}
  /\ launcher' = "free"
  /\ UNCHANGED <<argv, path, memory, loader, result, target, hooked, intact,
                 exitCode>>

\* VirtualFreeEx, and injectDll returns.
FreeMemory ==
  /\ launcher = "free"
  /\ memory' = FALSE
  /\ launcher' = IF injected THEN "resume" ELSE "giveUp"
  /\ UNCHANGED <<argv, path, handles, loader, result, injected, target, hooked,
                 intact, exitCode>>

-----------------------------------------------------------------------------
(* wmain after the injection                                               *)

\* TerminateProcess, unless the process has ended already.
GiveUp ==
  /\ launcher = "giveUp"
  /\ target' = "ended"
  /\ handles' = {}
  /\ launcher' = "left"
  /\ exitCode' = [target |-> IF target = "ended" THEN exitCode.target ELSE 4,
                  launcher |-> 4]
  /\ UNCHANGED <<argv, path, memory, loader, result, injected, hooked, intact>>

\* ResumeThread, whose failure nobody looks at: the target stays suspended.
Resume ==
  /\ launcher = "resume"
  /\ target' \in IF target = "suspended" THEN {"running", target} ELSE {target}
  /\ launcher' = "wait"
  /\ UNCHANGED <<argv, path, handles, memory, loader, result, injected, hooked,
                 intact, exitCode>>

Forward ==
  /\ launcher = "wait" /\ target = "ended"
  /\ handles' = {}
  /\ LeaveWith(exitCode.target)
  /\ UNCHANGED <<path, memory, loader, result, injected, target, hooked,
                 intact>>

-----------------------------------------------------------------------------
(* The target                                                              *)

\* The target ends with a code; a thread that still runs in it ends with the
\* same code.
TargetEnds(code) ==
  /\ target' = "ended"
  /\ exitCode' = [exitCode EXCEPT !.target = code]
  /\ loader' = IF loader = "running" THEN "ended" ELSE loader
  /\ result' = IF loader = "running" THEN code ELSE result
  /\ UNCHANGED <<launcher, argv, path, handles, memory, injected, hooked,
                 intact>>

\* Somebody kills it before it has run.
Kill == target = "suspended" /\ TargetEnds(1)

LauncherStep ==
  \/ Usage \/ BadPath \/ FullPath \/ CreateProcessFails \/ CreateProcess
  \/ ReadGarbage \/ AllocateMemory \/ WriteMemory \/ CreateThread
  \/ TakeResult \/ FreeMemory \/ GiveUp \/ Resume \/ Forward

LauncherNext == LauncherStep \/ LoadLibrary \/ Kill

-----------------------------------------------------------------------------
(* Properties                                                              *)

\* The target reads from its command line the arguments the launcher was given
\* for it: "Standard CommandLineToArgvW-compatible quoting" (Launcher.cpp:16).
ArgumentsArrive == target # "none" => intact

\* "the hooks are in place before the target's own code (even its CRT startup)
\* runs" (Launcher.cpp:5-6), whichever step of the injection failed.
NeverRunsUnhooked == target = "running" => hooked

\* When the launcher has returned, it has closed its handles, and the target is
\* not left suspended; if the target ran, the launcher's exit code is the
\* target's ("the target's exit code is forwarded", Launcher.cpp:6-7).
LauncherLeavesNothing ==
  launcher = "left" =>
    /\ handles = {}
    /\ target \in {"none", "ended"}
    /\ exitCode.launcher # 4 => exitCode.target \in {NoCode, exitCode.launcher}

=============================================================================
