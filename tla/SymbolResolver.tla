--------------------------- MODULE SymbolResolver ---------------------------
(***************************************************************************)
(* SymbolResolver::resolve: one frame of a stack trace is turned into a    *)
(* function and a line.  On Linux and macOS that is a pipe, a child that   *)
(* runs addr2line or atos, and a read up to the end of what it writes; on  *)
(* Windows a call of dbghelp.  The program's other threads run on, and may *)
(* fork too: their child then has the ends of the pipe as well.            *)
(***************************************************************************)
EXTENDS Naturals, FiniteSets, FiniteSetsExt

CONSTANTS
  Fd,      \* file descriptors a process can have
  Stdout,  \* the one that is standard output
  Pieces   \* in how many pieces the tool writes its answer; the first one is
           \* the function

ASSUME DescriptorAssumption ==
  /\ Fd \subseteq Nat /\ Stdout \in Fd
  /\ IsFiniteSet(Fd) /\ Cardinality(Fd) >= 3

ASSUME PiecesAssumption == Pieces \in Nat \ {0}

VARIABLES
  ready,      \* SymbolResolver::initialized
  resolver,   \* where resolve() is
  fds,        \* the descriptors of the process: what each one refers to
  outPipe,    \* the numbers of the two ends
  pipe,       \* how many pieces are in the pipe
  got,        \* how many have been read
  status,     \* of the child, as the process knows it
  child,      \* the forked child
  bystander,  \* the ends that a child forked by another thread holds
  locked,     \* the child's copy of the environment's lock is held, for good
  answer,     \* what resolve() returned
  faults      \* history: what went wrong

descriptors == <<fds, outPipe>>
reading == <<pipe, got, status>>
forked == <<child, bystander, locked>>
resolverVars ==
  <<ready, resolver, descriptors, reading, forked, answer, faults>>

Ends == {"read", "write"}

NoDescriptors == [d \in Fd |-> "free"]

NoChild ==
  [at |-> "none", fds |-> NoDescriptors, wrote |-> 0, status |-> "none"]

\* Standard output may have been closed by whoever started the program.
ResolverInit ==
  /\ ready = FALSE
  /\ resolver = "idle"
  /\ fds \in {[NoDescriptors EXCEPT ![Stdout] = o] : o \in {"output", "free"}}
  /\ outPipe = [read |-> Stdout, write |-> Stdout]
  /\ pipe = 0
  /\ got = 0
  /\ status = "none"
  /\ child = NoChild
  /\ bystander = {}
  /\ locked = FALSE
  /\ answer = "unknown"
  /\ faults = {}

Closed(table, d) == [table EXCEPT ![d] = "free"]

\* Some process has this end of the pipe open.
IsOpen(end) ==
  \/ \E d \in Fd : fds[d] = end \/ child.fds[d] = end
  \/ end \in bystander

ReturnAnswer(a) == resolver' = "idle" /\ answer' = a

-----------------------------------------------------------------------------
(* Mutants: actions below with one plausible bug each.                     *)

\* The path of a failed fork closes one end only.
ForkFailsLeaky ==
  /\ resolver = "fork"
  /\ fds' = Closed(fds, outPipe.read)
  /\ ReturnAnswer("none")
  /\ faults' = faults \cup {"fork"}
  /\ UNCHANGED <<ready, outPipe, reading, forked>>

\* The exit status of the child is not looked at.
ParseWhatever ==
  /\ resolver = "parse"
  /\ ReturnAnswer(IF got = 0 THEN "none"
                  ELSE IF got = Pieces THEN "full" ELSE "part")
  /\ UNCHANGED <<ready, descriptors, reading, forked, faults>>

\* The process keeps its own writing end while it reads.
CloseWriteForgotten ==
  /\ resolver = "closeWrite"
  /\ resolver' = "read"
  /\ UNCHANGED <<ready, descriptors, reading, forked, answer, faults>>

-----------------------------------------------------------------------------
(* The process                                                             *)

\* PlatformStackTrace::symbolize calls resolve() for a frame.
Resolve ==
  /\ resolver = "idle" /\ ready
  /\ resolver' = "lookup"
  /\ UNCHANGED <<ready, descriptors, reading, forked, answer, faults>>

\* dbghelp answers, or knows nothing; the buffer is freed on either path.
ResolveInProcess ==
  /\ resolver = "idle" /\ ready
  /\ \/ answer' = "full" /\ UNCHANGED faults
     \/ answer' = "none" /\ faults' = faults \cup {"module"}
  /\ UNCHANGED <<ready, resolver, descriptors, reading, forked>>

\* dladdr knows no module for the address.
NoModule ==
  /\ resolver = "lookup"
  /\ ReturnAnswer("none")
  /\ faults' = faults \cup {"module"}
  /\ UNCHANGED <<ready, descriptors, reading, forked>>

\* pipe() takes the two lowest descriptors that are free.
MakePipe ==
  LET free == {d \in Fd : fds[d] = "free"}
      r == Min(free)
      w == Min(free \ {r})
  IN  /\ resolver = "lookup"
      /\ fds' = [fds EXCEPT ![r] = "read", ![w] = "write"]
      /\ outPipe' = [read |-> r, write |-> w]
      /\ pipe' = 0 /\ got' = 0 /\ status' = "none"
      /\ resolver' = "fork"
      /\ UNCHANGED <<ready, forked, answer, faults>>

PipeFails ==
  /\ resolver = "lookup"
  /\ ReturnAnswer("none")
  /\ faults' = faults \cup {"pipe"}
  /\ UNCHANGED <<ready, descriptors, reading, forked>>

ForkFails ==
  /\ resolver = "fork"
  /\ fds' = Closed(Closed(fds, outPipe.read), outPipe.write)
  /\ ReturnAnswer("none")
  /\ faults' = faults \cup {"fork"}
  /\ UNCHANGED <<ready, outPipe, reading, forked>>

\* The child is a copy of the calling thread alone.  If another thread is
\* changing the environment at that moment, the copy of its lock stays held.
Fork ==
  /\ resolver = "fork"
  /\ child' = [NoChild EXCEPT !.at = "redirect", !.fds = fds]
  /\ locked' \in BOOLEAN
  /\ resolver' = "closeWrite"
  /\ UNCHANGED <<ready, descriptors, reading, bystander, answer, faults>>

CloseWrite ==
  /\ resolver = "closeWrite"
  /\ fds' = Closed(fds, outPipe.write)
  /\ resolver' = "read"
  /\ UNCHANGED <<ready, outPipe, reading, forked, answer, faults>>

\* read() gives some of what is there, and blocks while there is nothing.
Read ==
  /\ resolver = "read" /\ pipe > 0
  /\ \E n \in 1 .. pipe : pipe' = pipe - n /\ got' = got + n
  /\ UNCHANGED <<ready, resolver, descriptors, status, forked, answer, faults>>

\* It returns 0, or -1 because a signal came while it waited: the loop ends.
ReadEnds ==
  /\ resolver = "read" /\ pipe = 0 /\ ~IsOpen("write")
  /\ resolver' = "closeRead"
  /\ UNCHANGED <<ready, descriptors, reading, forked, answer, faults>>

ReadInterrupted ==
  /\ resolver = "read" /\ pipe = 0 /\ IsOpen("write")
  /\ resolver' = "closeRead"
  /\ faults' = faults \cup {"read"}
  /\ UNCHANGED <<ready, descriptors, reading, forked, answer>>

CloseRead ==
  /\ resolver = "closeRead"
  /\ fds' = Closed(fds, outPipe.read)
  /\ resolver' = "reap"
  /\ UNCHANGED <<ready, outPipe, reading, forked, answer, faults>>

\* waitpid() reaps the child.
Reap ==
  /\ resolver = "reap" /\ child.at = "exited"
  /\ status' = child.status
  /\ child' = NoChild
  /\ resolver' = "parse"
  /\ UNCHANGED <<ready, descriptors, pipe, got, bystander, locked,
                 answer, faults>>

\* A signal comes first: status keeps its 0, which means a child that exited
\* with 0.
ReapInterrupted ==
  /\ resolver = "reap" /\ child.at # "exited"
  /\ status' = "ok"
  /\ resolver' = "parse"
  /\ faults' = faults \cup {"wait"}
  /\ UNCHANGED <<ready, descriptors, pipe, got, forked, answer>>

\* The child was reaped elsewhere, by another thread of the program or, where
\* SIGCHLD is ignored, by the system: status keeps its 0 here too.
ReapedElsewhere ==
  /\ resolver = "reap" /\ child.at = "exited"
  /\ status' = "ok"
  /\ child' = NoChild
  /\ resolver' = "parse"
  /\ faults' = faults \cup {"reaped"}
  /\ UNCHANGED <<ready, descriptors, pipe, got, bystander, locked, answer>>

Parse ==
  /\ resolver = "parse"
  /\ ReturnAnswer(IF status # "ok" \/ got = 0 THEN "none"
                  ELSE IF got = Pieces THEN "full" ELSE "part")
  /\ UNCHANGED <<ready, descriptors, reading, forked, faults>>

-----------------------------------------------------------------------------
(* The child                                                               *)

\* dup2 and both close(): what is left of the pipe is standard output, unless
\* an end of the pipe had that number, which is then closed again.
Redirect ==
  LET table == [child.fds EXCEPT ![Stdout] = "write"]
  IN  /\ child.at = "redirect"
      /\ child' = [child EXCEPT !.at = "environment",
                     !.fds = Closed(Closed(table, outPipe.read), outPipe.write)]
      /\ UNCHANGED <<ready, resolver, descriptors, reading, bystander, locked,
                     answer, faults>>

\* unsetenv().
Unsetenv ==
  /\ child.at = "environment" /\ ~locked
  /\ child' = [child EXCEPT !.at = "exec"]
  /\ UNCHANGED <<ready, resolver, descriptors, reading, bystander, locked,
                 answer, faults>>

ChildExits(s) == child' = [child EXCEPT !.at = "exited", !.fds = NoDescriptors,
                                             !.status = s]

\* execlp() runs the tool, or the child exits with 127.
Exec ==
  /\ child.at = "exec"
  /\ \/ child' = [child EXCEPT !.at = "tool"] /\ UNCHANGED faults
     \/ ChildExits("bad") /\ faults' = faults \cup {"exec"}
  /\ UNCHANGED <<ready, resolver, descriptors, reading, bystander, locked,
                 answer>>

\* The tool writes; without a reader that kills it, without standard output it
\* has no effect.
ToolWrites ==
  /\ child.at = "tool" /\ child.wrote < Pieces
  /\ LET piped == child.fds[Stdout] = "write"
     IN  IF piped /\ ~IsOpen("read")
         THEN ChildExits("bad") /\ UNCHANGED pipe
         ELSE /\ child' = [child EXCEPT !.wrote = @ + 1]
              /\ pipe' = IF piped THEN pipe + 1 ELSE pipe
  /\ UNCHANGED <<ready, resolver, descriptors, got, status, bystander, locked,
                 answer, faults>>

ToolExits ==
  /\ child.at = "tool"
  /\ \/ child.wrote = Pieces /\ ChildExits("ok") /\ UNCHANGED faults
     \/ ChildExits("bad") /\ faults' = faults \cup {"tool"}
  /\ UNCHANGED <<ready, resolver, descriptors, reading, bystander, locked,
                 answer>>

ChildStep == Redirect \/ Unsetenv \/ Exec \/ ToolWrites \/ ToolExits

-----------------------------------------------------------------------------
(* A child of another thread                                               *)

\* It gets the ends the process has open, and keeps them over an exec.  Bound:
\* one such child at a time.
BystanderForked ==
  /\ resolver \in {"fork", "closeWrite", "read"} /\ bystander = {}
  /\ bystander' = {fds[d] : d \in Fd} \cap Ends
  /\ UNCHANGED <<ready, resolver, descriptors, reading, child, locked, answer,
                 faults>>

BystanderEnds ==
  /\ bystander # {}
  /\ bystander' = {}
  /\ UNCHANGED <<ready, resolver, descriptors, reading, child, locked, answer,
                 faults>>

\* The steps of resolve(), and what spoils its waits.  Those of macOS are the
\* same; only its tool and what it writes differ.
ResolverStep ==
  \/ NoModule \/ MakePipe \/ PipeFails \/ ForkFails \/ Fork \/ CloseWrite
  \/ Read \/ ReadEnds \/ CloseRead \/ Reap \/ Parse

Interrupted == ReadInterrupted \/ ReapInterrupted \/ ReapedElsewhere

-----------------------------------------------------------------------------
(* Properties                                                              *)

\* Each path of resolve() closes its descriptors and reaps its child; only an
\* interrupted wait leaves that behind.
ResolveLeavesNoTrace ==
  resolver = "idle" =>
    /\ \A d \in Fd : fds[d] = "free" \/ (d = Stdout /\ fds[d] = "output")
    /\ child.at # "none" => "wait" \in faults

\* No half answer is taken for a whole one unless a signal cut a wait short or
\* somebody else reaped the child, and if nothing goes wrong the answer comes,
\* whole, although other threads fork in between and although read() may return
\* less than was written.
AnswerIsRight ==
  (resolver = "idle" /\ answer # "unknown") =>
    /\ answer = "part" => faults \cap {"read", "wait", "reaped"} # {}
    /\ faults = {} /\ fds[Stdout] = "output"
         => answer = "full"

=============================================================================
