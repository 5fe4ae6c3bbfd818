----------------------------- MODULE ProcessProofs -----------------------------
(***************************************************************************)
(* The safety properties of Process, proved for any number of threads,     *)
(* static objects and descriptors.  There are three invariants, one for    *)
(* each part, which the composition only connects.  That arguments reach   *)
(* the target unchanged is a theorem about the command line alone.         *)
(***************************************************************************)
EXTENDS Process, FiniteSetTheorems, SequenceTheorems, WellFoundedInduction,
        TLAPS

-----------------------------------------------------------------------------
(* The launcher's invariant                                                *)

LauncherTypes ==
  /\ launcher \in {"start", "create", "inject", "write", "thread", "loading",
                   "free", "giveUp", "resume", "wait", "left", "crashed"}
  /\ loader \in {"none", "running", "ended"}
  /\ result \in Nat
  /\ injected \in BOOLEAN
  /\ target \in {"none", "suspended", "running", "ended"}
  /\ hooked \in BOOLEAN
  /\ exitCode \in [target : Nat, launcher : Nat]

\* Nothing has been done yet.
NotCreated ==
  handles = {} /\ target = "none" /\ exitCode.target = NoCode

\* What the launcher takes for a success is one, or there is no target any more:
\* one that is killed gives its own code to the loader thread.
LauncherInv ==
  /\ LauncherTypes
  /\ launcher \in {"start", "create"} => NotCreated
  /\ loader = "running" => launcher = "loading" /\ target # "ended"
  /\ result # 0 => hooked \/ target = "ended"
  /\ injected => hooked \/ target = "ended"
  /\ launcher = "resume" => injected
  /\ NeverRunsUnhooked
  /\ LauncherLeavesNothing

-----------------------------------------------------------------------------
(* The resolver's invariant                                                *)

\* Where resolve() holds which ends of its pipe.
HoldsBoth == resolver \in {"fork", "closeWrite"}
HoldsRead == resolver \in {"read", "closeRead"}
AfterPipe == HoldsBoth \/ HoldsRead \/ resolver \in {"reap", "parse"}

Child ==
  [at : {"none", "redirect", "environment", "exec", "tool", "exited"},
   fds : [Fd -> {"free", "output", "read", "write"}],
   wrote : Nat, status : {"none", "ok", "bad"}]

ResolverTypes ==
  /\ ready \in BOOLEAN
  /\ resolver \in {"idle", "lookup", "fork", "closeWrite", "read", "closeRead",
                   "reap", "parse"}
  /\ fds \in [Fd -> {"free", "output", "read", "write"}]
  /\ outPipe \in [read : Fd, write : Fd]
  /\ pipe \in Nat /\ got \in Nat
  /\ status \in {"none", "ok", "bad"}
  /\ child \in Child
  /\ bystander \subseteq Ends
  /\ locked \in BOOLEAN
  /\ answer \in {"unknown", "none", "part", "full"}
  /\ faults \subseteq {"module", "pipe", "fork", "read", "wait", "exec", "tool",
                       "reaped"}

\* The descriptor is as it was before resolve().
Clean(d) == fds[d] = "free" \/ (d = Stdout /\ fds[d] = "output")

FdInv ==
  /\ HoldsBoth \/ HoldsRead => fds[outPipe.read] = "read"
  /\ HoldsBoth => fds[outPipe.write] = "write"
  /\ \A d \in Fd :
       \/ Clean(d)
       \/ (HoldsBoth \/ HoldsRead) /\ d = outPipe.read
       \/ HoldsBoth /\ d = outPipe.write

\* What the child writes goes into the pipe.
Piped == Stdout \notin {outPipe.read, outPipe.write}

Waiting == resolver \in {"closeWrite", "read", "closeRead", "reap"}

\* The child, and what it has of the pipe: its end for writing, until it exits.
ChildInv ==
  /\ child.at # "none" => Waiting \/ "wait" \in faults
  /\ Waiting => child.at # "none"
  /\ resolver \in {"lookup", "fork"} => child.at = "none"
  /\ resolver # "idle" => answer = "unknown"
  /\ resolver = "idle" /\ answer = "unknown" => child.at = "none"
  /\ child.at = "redirect" => child.fds[outPipe.write] = "write"
  /\ child.at \in {"environment", "exec", "tool"} =>
       (child.fds[Stdout] = "write" <=> Piped)
  /\ AfterPipe /\ fds[Stdout] = "output" => Piped

\* What has been written is in the pipe or has been read.
CountInv ==
  /\ child.at \in {"redirect", "environment", "exec"} => child.wrote = 0
  /\ child.at = "exited" =>
       IF child.status = "ok" THEN child.wrote = Pieces
       ELSE faults \cap {"exec", "tool", "read", "wait"} # {}
  /\ Waiting => IF Piped THEN pipe + got = child.wrote ELSE pipe = 0 /\ got = 0
  /\ resolver = "fork" => pipe = 0 /\ got = 0

\* The end of file came when all was written.
DrainedInv ==
  /\ resolver \in {"closeRead", "reap"} /\ "read" \notin faults =>
       pipe = 0 /\ (Piped => child.at = "exited")
  /\ resolver = "parse" /\ faults \cap {"read", "wait", "reaped"} = {} =>
       /\ status = "ok" => got \in {0, Pieces}
       /\ faults = {} /\ Piped => status = "ok" /\ got = Pieces

ResolverInv ==
  /\ ResolverTypes /\ FdInv /\ ChildInv /\ CountInv /\ DrainedInv
  /\ ResolveLeavesNoTrace /\ AnswerIsRight

-----------------------------------------------------------------------------
(* The invariant of the analyzer's lifetime                                *)

Places == {"idle", "test", "once", "push", "done", "unwind", "shutdown", "kill"}
            \cup InOnce \cup InShutdown

\* What exit() can have to run.
Handler == Object \cup Range(Statics) \cup {"shutdown"}

LifetimeTypes ==
  /\ mode \in {"atexit", "ExitProcess"}
  /\ phase \in {"static", "main", "exit", "ended", "aborted"}
  /\ place \in [Thread -> Places]
  /\ hand \in [Thread -> {"use", "initialize", "construct", "acquire",
                           "destroy"}
                           \X (Object \cup Thread)]
  /\ holds \subseteq Object
  /\ handlers \in Seq(Handler)
  /\ initialized \in BOOLEAN
  /\ shutdownComplete \in BOOLEAN
  /\ initOnce \in {"none", "running", "done"}
  /\ stopped \in BOOLEAN
  /\ worker \in {"none", "running", "joined"}

Calling(t) == place[t] \in {"test", "once", "push", "done"} \cup InOnce

\* What the calls are about: something that exit() has not to destroy yet, or
\* not any more.  Only Main comes to exit().
ProgramInv ==
  /\ \A t \in Thread \ {Main} :
       (Calling(t) => hand[t][1] = "use") /\ place[t] # "unwind"
  /\ Calling(Main) =>
       /\ hand[Main][1] = "construct" => hand[Main][2] \in Eager
       /\ hand[Main][1] = "acquire" => hand[Main][2] \in Lazy
       /\ hand[Main][1] = "destroy" => hand[Main][2] \in Object
       /\ hand[Main][1] \in {"construct", "destroy"} =>
            \A i \in 1 .. Len(handlers) : handlers[i] # hand[Main][2]

\* What doInitialize has yet to register at this place.
Ahead(p) ==
  CASE p = "Tracker" -> Range(Statics) \cup {"shutdown"}
    [] p = "EventQueue" ->
         {"EventQueue", "SymbolResolver", "TrackerThread", "shutdown"}
    [] p = "SymbolResolver" -> {"SymbolResolver", "TrackerThread", "shutdown"}
    [] p = "TrackerThread" -> {"TrackerThread", "shutdown"}
    [] p \in {"start", "register"} -> {"shutdown"}
    [] OTHER -> {}

\* Each thing is registered once, and those of the analyzer in their order.
HandlersInv ==
  /\ \A i, j \in 1 .. Len(handlers) : handlers[i] = handlers[j] => i = j
  /\ \A i \in 1 .. Len(handlers) :
       handlers[i] \in Object \/ (mode = "atexit" /\ initOnce # "none")
  /\ \A i, j \in 1 .. Len(handlers) :
       handlers[i] \in Range(Statics) /\ handlers[j] = "shutdown" => i < j
  /\ \A t \in Thread : place[t] \in InOnce =>
       \A i \in 1 .. Len(handlers) : handlers[i] \notin Ahead(place[t])

\* One thread is inside doInitialize, once; until it is through nothing is tracked
\* and nothing to shut down.  Each shutdown stops, joins and reports.
OnceInv ==
  /\ \A t, u \in Thread :
       place[t] \in InOnce /\ place[u] \in InOnce => t = u
  /\ \A t \in Thread :
       /\ place[t] \in InOnce => initOnce = "running"
       /\ place[t] \in {"register", "publish"} => worker = "running"
       /\ place[t] = "register" => mode = "atexit"
       /\ place[t] \in InShutdown \ {"latch"} => ~initialized
       /\ place[t] = "report" => worker = "joined"
       /\ place[t] \in {"symbolize", "complete"} =>
            worker = "joined" /\ reports # {}
  /\ initOnce = "none" => worker = "none"
  /\ initOnce = "running" => \E t \in Thread : place[t] \in InOnce
  /\ initOnce # "done" =>
       /\ ~initialized /\ ~stopped /\ worker # "joined" /\ known = {}
       /\ \A t \in Thread : place[t] # "push" /\ place[t] \notin InShutdown
  /\ initOnce = "done" => worker # "none"
  /\ stopped => ~initialized
  /\ initOnce = "done" /\ ~initialized =>
       \/ \E t \in Thread : place[t] \in {"stop", "join", "joining", "report"}
       \/ worker = "joined" /\ reports # {}

\* Two threads ended the process, or tracking began while one was about to.
Overtaken == raced \cap {"overlap", "lateStart"} # {}

\* What only that can bring about.
RaceInv ==
  /\ \A t, u \in Thread :
       t # u /\ place[t] \in InShutdown /\ place[u] \in InShutdown => Overtaken
  /\ \A t \in Thread :
       /\ place[t] = "joining" /\ worker = "joined" => Overtaken
       /\ place[t] = "kill" => \/ initOnce = "none" \/ Overtaken
                               \/ worker = "joined" /\ reports # {}

\* shutdown() is registered.
Pending == \E i \in 1 .. Len(handlers) : handlers[i] = "shutdown"

\* It has been registered.
Armed == initOnce = "done" \/ \E t \in Thread : place[t] = "publish"

\* Main constructs a static object.
Constructing == Calling(Main) /\ hand[Main][1] = "construct"

\* shutdown() is registered until Main runs it, and tracking is on until then,
\* if exit() has not overtaken doInitialize; if it has, nothing was tracked before.
PendingInv ==
  mode = "atexit" =>
    /\ \A t \in Thread : place[t] \in {"shutdown"} \cup InShutdown => t = Main
    /\ \A t \in Thread : place[t] # "kill"
    /\ Armed /\ "lateStart" \notin raced =>
         (Pending <=> /\ initOnce = "done" => initialized
                      /\ place[Main] \notin {"shutdown", "latch"})
    /\ place[Main] = "shutdown" => Armed
    /\ phase \in {"static", "main"} =>
         /\ initOnce = "done" => initialized
         /\ place[Main] \notin {"unwind", "shutdown"} \cup InShutdown
         /\ Calling(Main) => hand[Main][1] # "destroy"
    /\ phase = "exit" => ~Constructing
    /\ "lateStart" \in raced =>
         phase \notin {"static", "main"} /\ known \cap Eager = {}

\* The statics that were constructed are there while they are needed.
AliveInv ==
  "lateStart" \notin raced /\ (mode = "atexit" \/ ~Over) =>
    /\ \A t \in Thread : place[t] \in InOnce =>
         Range(Statics) \ Ahead(place[t]) \subseteq alive
    /\ \/ initialized
       \/ \E t \in Thread : place[t] \in InShutdown \ {"symbolize", "complete"}
       => Range(Statics) \subseteq alive

\* What a static object acquired in its constructor is in the tracker's map
\* only while the object is registered above shutdown(), or is about to be, or
\* is being destroyed in a call that will be tracked.
Owned(o) ==
  \/ /\ o \in holds
     /\ \E i, j \in 1 .. Len(handlers) :
          j < i /\ handlers[j] = "shutdown" /\ handlers[i] = o
  \/ /\ Pending /\ hand[Main] = <<"construct", o>> /\ place[Main] = "done"
  \/ /\ Pending /\ hand[Main] = <<"destroy", o>>
     /\ place[Main] \in {"test", "push"}

OwnersInv == mode = "atexit" => \A o \in known \cap Eager : Owned(o)

LifetimeInv ==
  /\ LifetimeTypes /\ ProgramInv /\ HandlersInv /\ OnceInv /\ RaceInv
  /\ PendingInv /\ AliveInv /\ OwnersInv
  /\ StaticOwnersAreFreed /\ ReportUnlessRaced

-----------------------------------------------------------------------------
(* Recursion                                                               *)

\* Every set of numbers that is not empty has a least one.
LEMMA LeastNumber ==
  ASSUME NEW S \in SUBSET Nat, S # {}
  PROVE  \E m \in S : \A k \in S : m <= k
<1> DEFINE R == OpToRel(<, Nat)
<1>1. IsWellFoundedOn(R, Nat)
  BY NatLessThanWellFounded
<1>2. \A k, m \in Nat : k < m => <<k, m>> \in R
  BY DEF OpToRel
<1> HIDE DEF R
<1>3. PICK m \in S : \A k \in S : ~(<<k, m>> \in R)
  BY <1>1, WFMin
<1>4. \A k \in S : ~(k < m)
  BY <1>2, <1>3
<1>5. QED
  BY <1>4

\* A set of numbers that has 0, and the successor of each of its members up to
\* n, has all numbers up to n.
LEMMA UpTo ==
  ASSUME NEW n \in Nat, NEW S, 0 \in S,
         \A i \in 0 .. n - 1 : i \in S => i + 1 \in S
  PROVE  \A i \in 0 .. n : i \in S
<1> DEFINE R == {i \in 0 .. n : i \notin S}
<1> SUFFICES ASSUME R # {}
             PROVE  FALSE
  OBVIOUS
<1>1. R \in SUBSET Nat /\ \A i \in R : i \in 0 .. n /\ i \notin S
  OBVIOUS
<1>2. \A i \in 0 .. n : i \notin S => i \in R
  OBVIOUS
<1> HIDE DEF R
<1>3. PICK m \in R : \A k \in R : m <= k
  BY <1>1, LeastNumber
<1>4. m # 0 /\ m - 1 \in 0 .. n - 1
  BY <1>1, <1>3
<1>5. m - 1 \in S
  BY <1>1, <1>2, <1>3, <1>4
<1>6. (m - 1) + 1 = m
  BY <1>1, <1>3
<1>7. QED
  BY <1>1, <1>3, <1>4, <1>5, <1>6

\* What defines the concatenation of the first i of s, for i up to n.
Flattening(f, s, n) ==
  f = [i \in 1 .. n |-> IF i = 1 THEN s[i] ELSE f[i - 1] \o s[i]]

LEMMA FlatteningParts ==
  ASSUME NEW f, NEW s, NEW n \in Nat, Flattening(f, s, n)
  PROVE  /\ DOMAIN f = 1 .. n
         /\ n > 0 => f[1] = s[1]
         /\ \A i \in 1 .. n - 1 : f[i + 1] = f[i] \o s[i + 1]
<1> DEFINE g == [i \in 1 .. n |-> IF i = 1 THEN s[i] ELSE f[i - 1] \o s[i]]
<1>1. f = g
  BY DEF Flattening
<1>2. /\ DOMAIN g = 1 .. n
      /\ n > 0 => g[1] = s[1]
  OBVIOUS
<1>3. ASSUME NEW i \in 1 .. n - 1
      PROVE  g[i + 1] = f[i] \o s[i + 1]
  <2>1. i + 1 \in 1 .. n /\ i + 1 # 1 /\ (i + 1) - 1 = i
    OBVIOUS
  <2>2. g[i + 1] = f[(i + 1) - 1] \o s[i + 1]
    BY <2>1, Zenon
  <2> QED BY <2>1, <2>2, Zenon
<1> HIDE DEF g
<1>4. QED
  BY <1>1, <1>2, <1>3

LEMMA FlatteningExists ==
  ASSUME NEW s, NEW n \in Nat
  PROVE  \E f : Flattening(f, s, n)
<1> DEFINE S == {k \in Nat : \E f : Flattening(f, s, k)}
<1>1. 0 \in S
  <2>1. Flattening([i \in 1 .. 0 |-> s[i]], s, 0)
    BY DEF Flattening
  <2> QED BY <2>1
<1>2. ASSUME NEW k \in 0 .. n - 1, k \in S
      PROVE  k + 1 \in S
  <2>1. PICK f : Flattening(f, s, k)
    BY <1>2
  <2>2. /\ k > 0 => f[1] = s[1]
        /\ \A i \in 1 .. k - 1 : f[i + 1] = f[i] \o s[i + 1]
    BY <2>1, k \in Nat, FlatteningParts
  <2> DEFINE new(i) == IF i = 1 THEN s[i] ELSE f[i - 1] \o s[i]
             g == [i \in 1 .. k + 1 |-> new(i)]
  <2>3. ASSUME NEW i \in 1 .. k
        PROVE  g[i] = f[i]
    <3>1. g[i] = new(i)
      OBVIOUS
    <3>2. CASE i = 1
      BY <2>2, <3>1, <3>2
    <3>3. CASE i # 1
      <4>1. i - 1 \in 1 .. k - 1 /\ (i - 1) + 1 = i
        BY <3>3
      <4>2. f[i] = f[i - 1] \o s[i]
        BY <2>2, <4>1
      <4> QED BY <3>1, <3>3, <4>2
    <3> QED BY <3>2, <3>3
  <2>4. ASSUME NEW i \in 1 .. k + 1
        PROVE  new(i) = IF i = 1 THEN s[i] ELSE g[i - 1] \o s[i]
    <3>1. CASE i = 1
      BY <3>1
    <3>2. CASE i # 1
      <4>1. i - 1 \in 1 .. k
        BY <3>2
      <4>2. g[i - 1] = f[i - 1]
        BY <2>3, <4>1
      <4> HIDE DEF g
      <4> QED BY <3>2, <4>2
    <3> QED BY <3>1, <3>2
  <2>5. g = [i \in 1 .. k + 1 |-> new(i)]
    OBVIOUS
  <2> HIDE DEF g, new
  <2>6. g = [i \in 1 .. k + 1 |-> IF i = 1 THEN s[i] ELSE g[i - 1] \o s[i]]
    BY <2>4, <2>5, Zenon
  <2>7. Flattening(g, s, k + 1)
    BY <2>6, Zenon DEF Flattening
  <2> QED BY <2>7
<1> HIDE DEF S
<1>3. n \in S
  BY <1>1, <1>2, UpTo
<1>4. QED
  BY <1>3 DEF S

\* FlattenSeq of the community modules is the concatenation, part by part: f[i]
\* is that of the first i of the n parts.
Joins(f, s, n, S) ==
  /\ f \in [1 .. n -> Seq(S)]
  /\ f[1] = s[1]
  /\ \A i \in 1 .. n - 1 : f[i + 1] = f[i] \o s[i + 1]
  /\ FlattenSeq(s) = f[n]

LEMMA Flattened ==
  ASSUME NEW S, NEW s \in Seq(Seq(S)), s # <<>>
  PROVE  \E f : Joins(f, s, Len(s), S)
<1> DEFINE f == CHOOSE g : Flattening(g, s, Len(s))
<1>1. Len(s) \in Nat /\ Len(s) > 0 /\ Len(s) # 0
  BY EmptySeq
<1>2. Flattening(f, s, Len(s))
  BY <1>1, FlatteningExists
<1>3. FlattenSeq(s) = f[Len(s)]
  BY <1>1 DEF FlattenSeq, Flattening
<1> HIDE DEF f
<1>4. /\ DOMAIN f = 1 .. Len(s)
      /\ f[1] = s[1]
      /\ \A i \in 1 .. Len(s) - 1 : f[i + 1] = f[i] \o s[i + 1]
  BY <1>1, <1>2, FlatteningParts
<1>5. \A i \in 1 .. Len(s) : s[i] \in Seq(S)
  OBVIOUS
<1>6. \A i \in 1 .. Len(s) : f[i] \in Seq(S)
  <2> DEFINE T == {i \in 0 .. Len(s) : i = 0 \/ f[i] \in Seq(S)}
  <2>1. ASSUME NEW i \in 0 .. Len(s) - 1, i \in T
        PROVE  i + 1 \in T
    <3>1. i + 1 \in 1 .. Len(s)
      OBVIOUS
    <3>2. s[i + 1] \in Seq(S)
      BY <1>5, <3>1
    <3>3. CASE i = 0
      BY <3>1, <3>3, <1>4, <1>5
    <3>4. CASE i # 0
      <4>1. f[i] \in Seq(S) /\ i \in 1 .. Len(s) - 1
        BY <2>1, <3>4
      <4>2. f[i] \o s[i + 1] \in Seq(S)
        BY <3>2, <4>1, ConcatProperties
      <4>3. f[i + 1] \in Seq(S)
        BY <1>4, <4>1, <4>2
      <4> QED BY <3>1, <4>3
    <3> QED BY <3>3, <3>4
  <2>2. 0 \in T
    BY <1>1
  <2> HIDE DEF T
  <2>3. \A i \in 0 .. Len(s) : i \in T
    BY <1>1, <2>1, <2>2, UpTo
  <2> QED BY <2>3 DEF T
<1>7. f = [i \in 1 .. Len(s) |-> f[i]]
  BY <1>2, <1>4 DEF Flattening
<1>8. f \in [1 .. Len(s) -> Seq(S)]
  BY <1>4, <1>6, <1>7
<1>9. QED
  BY <1>3, <1>4, <1>8 DEF Joins

\* What defines the states after the first i characters of line, i up to n.
ReadingUpTo(r, line, n) ==
  r = [i \in 0 .. n |->
         IF i = 0 THEN NothingRead ELSE ReadChar(r[i - 1], line[i])]

LEMMA ReadingParts ==
  ASSUME NEW r, NEW line, NEW n \in Nat, ReadingUpTo(r, line, n)
  PROVE  /\ r[0] = NothingRead
         /\ \A i \in 0 .. n - 1 : r[i + 1] = ReadChar(r[i], line[i + 1])
<1> DEFINE g == [i \in 0 .. n |->
                   IF i = 0 THEN NothingRead ELSE ReadChar(r[i - 1], line[i])]
<1>1. r = g
  BY DEF ReadingUpTo
<1>2. g[0] = NothingRead
  OBVIOUS
<1>3. ASSUME NEW i \in 0 .. n - 1
      PROVE  g[i + 1] = ReadChar(r[i], line[i + 1])
  <2>1. i + 1 \in 0 .. n /\ i + 1 # 0 /\ (i + 1) - 1 = i
    OBVIOUS
  <2>2. g[i + 1] = ReadChar(r[(i + 1) - 1], line[i + 1])
    BY <2>1, Zenon
  <2> QED BY <2>1, <2>2, Zenon
<1> HIDE DEF g
<1>4. QED
  BY <1>1, <1>2, <1>3, Zenon

LEMMA ReadingExists ==
  ASSUME NEW line, NEW n \in Nat
  PROVE  \E r : ReadingUpTo(r, line, n)
<1> DEFINE S == {k \in Nat : \E r : ReadingUpTo(r, line, k)}
<1>1. 0 \in S
  <2> DEFINE g == [i \in 0 .. 0 |-> NothingRead]
  <2>1. g = [i \in 0 .. 0 |-> IF i = 0 THEN NothingRead
                              ELSE ReadChar(g[i - 1], line[i])]
    <3>1. \A i \in 0 .. 0 : i = 0
      OBVIOUS
    <3> QED BY <3>1, Zenon
  <2> HIDE DEF g
  <2>2. ReadingUpTo(g, line, 0)
    BY <2>1, Zenon DEF ReadingUpTo
  <2> QED BY <2>2
<1>2. ASSUME NEW k \in 0 .. n - 1, k \in S
      PROVE  k + 1 \in S
  <2>1. PICK r : ReadingUpTo(r, line, k)
    BY <1>2
  <2>2. /\ r[0] = NothingRead
        /\ \A i \in 0 .. k - 1 : r[i + 1] = ReadChar(r[i], line[i + 1])
    BY <2>1, k \in Nat, ReadingParts
  <2> DEFINE new(i) ==
               IF i = 0 THEN NothingRead ELSE ReadChar(r[i - 1], line[i])
             g == [i \in 0 .. k + 1 |-> new(i)]
  <2>3. ASSUME NEW i \in 0 .. k
        PROVE  g[i] = r[i]
    <3>1. g[i] = new(i)
      OBVIOUS
    <3>2. CASE i = 0
      BY <2>2, <3>1, <3>2
    <3>3. CASE i # 0
      <4>1. i - 1 \in 0 .. k - 1 /\ (i - 1) + 1 = i
        BY <3>3
      <4>2. r[i] = ReadChar(r[i - 1], line[i])
        BY <2>2, <4>1, Zenon
      <4> QED BY <3>1, <3>3, <4>2, Zenon
    <3> QED BY <3>2, <3>3
  <2>4. ASSUME NEW i \in 0 .. k + 1
        PROVE  new(i) = IF i = 0 THEN NothingRead
                        ELSE ReadChar(g[i - 1], line[i])
    <3>1. CASE i = 0
      BY <3>1
    <3>2. CASE i # 0
      <4>1. i - 1 \in 0 .. k
        BY <3>2
      <4>2. g[i - 1] = r[i - 1]
        BY <2>3, <4>1
      <4> HIDE DEF g
      <4> QED BY <3>2, <4>2, Zenon
    <3> QED BY <3>1, <3>2
  <2>5. g = [i \in 0 .. k + 1 |-> new(i)]
    OBVIOUS
  <2> HIDE DEF g, new
  <2>6. g = [i \in 0 .. k + 1 |->
               IF i = 0 THEN NothingRead ELSE ReadChar(g[i - 1], line[i])]
    BY <2>4, <2>5, Zenon
  <2>7. ReadingUpTo(g, line, k + 1)
    BY <2>6, Zenon DEF ReadingUpTo
  <2> QED BY <2>7
<1> HIDE DEF S
<1>3. n \in S
  BY <1>1, <1>2, UpTo
<1>4. QED
  BY <1>3 DEF S

LEMMA ReadingIs ==
  ASSUME NEW line, Len(line) \in Nat
  PROVE  \E r : ReadingUpTo(r, line, Len(line)) /\ Reading(line) = r[Len(line)]
<1> DEFINE r == CHOOSE g : ReadingUpTo(g, line, Len(line))
<1>1. ReadingUpTo(r, line, Len(line))
  BY ReadingExists
<1>2. Reading(line) = r[Len(line)]
  BY Zenon DEF Reading, ReadingUpTo
<1> HIDE DEF r
<1>3. QED
  BY <1>1, <1>2

\* Nothing is read from the empty line, and one more character takes the parser
\* one step on.
LEMMA ReadsNothing == Reading(<<>>) = NothingRead
<1>1. Len(<<>>) = 0
  OBVIOUS
<1>2. QED
  BY <1>1, ReadingIs, ReadingParts, Zenon

LEMMA ReadsNext ==
  ASSUME NEW line \in Seq(Char), NEW c \in Char
  PROVE  Reading(Append(line, c)) = ReadChar(Reading(line), c)
<1> DEFINE n == Len(line)
           longer == Append(line, c)
<1>1. /\ n \in Nat
      /\ Len(longer) = n + 1
      /\ \A i \in 1 .. n : longer[i] = line[i]
      /\ longer[n + 1] = c
  BY AppendProperties
<1> HIDE DEF longer
<1>2. PICK r : ReadingUpTo(r, line, n) /\ Reading(line) = r[n]
  BY <1>1, ReadingIs
<1>3. PICK q : ReadingUpTo(q, longer, n + 1) /\ Reading(longer) = q[n + 1]
  <2>1. n + 1 \in Nat
    BY <1>1
  <2> QED BY <1>1, <2>1, ReadingIs
<1> HIDE DEF n
<1>4. /\ r[0] = NothingRead
      /\ \A i \in 0 .. n - 1 : r[i + 1] = ReadChar(r[i], line[i + 1])
  BY <1>1, <1>2, ReadingParts
<1>5. /\ q[0] = NothingRead
      /\ \A i \in 0 .. n : q[i + 1] = ReadChar(q[i], longer[i + 1])
  <2>1. n + 1 \in Nat /\ (n + 1) - 1 = n
    BY <1>1
  <2>2. \A i \in 0 .. (n + 1) - 1 : q[i + 1] = ReadChar(q[i], longer[i + 1])
    BY <1>3, <2>1, ReadingParts
  <2>3. q[0] = NothingRead
    BY <1>3, <2>1, ReadingParts
  <2> QED BY <2>1, <2>2, <2>3
<1>6. \A i \in 0 .. n : q[i] = r[i]
  <2> DEFINE S == {i \in 0 .. n : q[i] = r[i]}
  <2>1. 0 \in S
    BY <1>1, <1>4, <1>5
  <2>2. ASSUME NEW i \in 0 .. n - 1, i \in S
        PROVE  i + 1 \in S
    <3>1. i \in 0 .. n /\ i + 1 \in 0 .. n /\ i + 1 \in 1 .. n
      BY <1>1
    <3>2. q[i] = r[i] /\ longer[i + 1] = line[i + 1]
      BY <1>1, <2>2, <3>1
    <3>3. q[i + 1] = r[i + 1]
      BY <1>4, <1>5, <3>1, <3>2, Zenon
    <3> QED BY <3>1, <3>3
  <2> HIDE DEF S
  <2>3. \A i \in 0 .. n : i \in S
    BY <1>1, <2>1, <2>2, UpTo
  <2> QED BY <2>3 DEF S
<1>7. n \in 0 .. n
  BY <1>1
<1>8. Reading(longer) = ReadChar(Reading(line), c)
  BY <1>1, <1>2, <1>3, <1>5, <1>6, <1>7, Zenon
<1>9. QED
  BY <1>8 DEF longer

-----------------------------------------------------------------------------
(* One character                                                           *)

\* A state of the parser: between two arguments, or in one, quoted or not.
At(args, arg, where, slashes) ==
  [args |-> args, arg |-> arg, inside |-> where # "between",
   inQuotes |-> where = "quoted", slashes |-> slashes]

\* Those of args have been read, and the next one has not begun.
Between(args) == At(args, <<>>, "between", 0)

LEMMA ReadsQuote ==
  ASSUME NEW A, NEW x, NEW w, NEW n
  PROVE  ReadChar(At(A, x, w, n), "quote") =
           At(A, x \o Backslashes(n \div 2)
                   \o (IF n % 2 = 1 THEN <<"quote">> ELSE <<>>),
              IF (w = "quoted") = (n % 2 = 1) THEN "quoted" ELSE "unquoted", 0)
<1> DEFINE y == x \o Backslashes(n \div 2)
                  \o (IF n % 2 = 1 THEN <<"quote">> ELSE <<>>)
           r == ((w = "quoted") = (n % 2 = 1))
           s == [At(A, x, w, n) EXCEPT !.arg = y, !.inQuotes = r,
                                       !.inside = TRUE, !.slashes = 0]
<1>1. ReadChar(At(A, x, w, n), "quote") = s
  BY Zenon DEF ReadChar, At
<1>2. r \in BOOLEAN
  OBVIOUS
<1> HIDE DEF y, r
<1>3. s \in [args : {A}, arg : {x, y}, inside : BOOLEAN, inQuotes : BOOLEAN,
             slashes : {n, 0}]
  BY <1>2 DEF At
<1>4. /\ s.args = A /\ s.arg = y /\ s.inside = TRUE /\ s.inQuotes = r
      /\ s.slashes = 0
  BY <1>2 DEF At
<1> HIDE DEF s
<1>5. s = At(A, y, IF r THEN "quoted" ELSE "unquoted", 0)
  BY <1>2, <1>3, <1>4 DEF At
<1>6. QED
  BY <1>1, <1>5 DEF y, r

LEMMA ReadsBackslash ==
  ASSUME NEW A, A # <<>>, NEW x, NEW w, NEW n
  PROVE  ReadChar(At(A, x, w, n), "backslash") =
           At(A, x, IF w = "quoted" THEN "quoted" ELSE "unquoted", n + 1)
BY DEF ReadChar, At

LEMMA ReadsOther ==
  ASSUME NEW A, NEW x, NEW w, NEW n, NEW c,
         \/ c = "other"
         \/ c = "blank" /\ w = "quoted"
         \/ c = "backslash" /\ A = <<>>
  PROVE  ReadChar(At(A, x, w, n), c) =
           At(A, x \o Backslashes(n) \o <<c>>,
              IF w = "quoted" THEN "quoted" ELSE "unquoted", 0)
BY DEF ReadChar, At

LEMMA EndsArgument ==
  ASSUME NEW A, NEW x, NEW w, w # "between", NEW n
  PROVE  EndOfArgument(At(A, x, w, n)) =
           Between(Append(A, x \o Backslashes(n)))
BY DEF EndOfArgument, At, Between, NothingRead

LEMMA ReadsBlank ==
  ASSUME NEW A, NEW x, NEW n
  PROVE  ReadChar(At(A, x, "unquoted", n), "blank") =
           Between(Append(A, x \o Backslashes(n)))
<1>1. ReadChar(At(A, x, "unquoted", n), "blank") =
        EndOfArgument(At(A, x, "unquoted", n))
  BY DEF ReadChar, At
<1>2. QED
  BY <1>1, EndsArgument

\* What is left to add when the argument read so far is x and n backslashes.
LEMMA BackslashesAre ==
  ASSUME NEW n \in Nat
  PROVE  /\ Backslashes(n) \in Seq(Char)
         /\ Backslashes(n + 1) = Backslashes(n) \o <<"backslash">>
<1>1. \A m \in Nat : /\ Backslashes(m) \in Seq(Char)
                     /\ Len(Backslashes(m)) = m
                     /\ \A i \in 1 .. m : Backslashes(m)[i] = "backslash"
  BY DEF Backslashes, Char
<1>2. <<"backslash">> \in Seq(Char) /\ Len(<<"backslash">>) = 1
  BY DEF Char
<1>3. n + 1 \in Nat
  OBVIOUS
<1> DEFINE s == Backslashes(n + 1)
           t == Backslashes(n) \o <<"backslash">>
<1>4. /\ t \in Seq(Char)
      /\ Len(t) = n + 1
      /\ \A i \in 1 .. n + 1 : t[i] = IF i <= n THEN Backslashes(n)[i]
                                     ELSE <<"backslash">>[i - n]
  BY <1>1, <1>2, ConcatProperties
<1>5. /\ s \in Seq(Char) /\ Len(s) = n + 1
      /\ \A i \in 1 .. n + 1 : s[i] = "backslash"
  BY <1>1, <1>3
<1> HIDE DEF s, t
<1>6. \A i \in 1 .. n + 1 : t[i] = "backslash"
  <2>1. ASSUME NEW i \in 1 .. n
        PROVE  t[i] = "backslash"
    <3>1. i \in 1 .. n + 1 /\ i <= n
      OBVIOUS
    <3> QED BY <1>1, <1>4, <3>1
  <2>2. t[n + 1] = "backslash"
    BY <1>4
  <2> QED BY <2>1, <2>2
<1>7. s = t
  BY <1>4, <1>5, <1>6, SeqEqual
<1>8. QED
  BY <1>1, <1>7 DEF s, t

LEMMA NoBackslashes == Backslashes(0) = <<>>
BY DEF Backslashes

LEMMA Associative ==
  ASSUME NEW s \in Seq(Char), NEW t \in Seq(Char), NEW u \in Seq(Char)
  PROVE  (s \o t) \o u = s \o (t \o u)
BY ConcatAssociative

\* Concatenation by a name of its own, for the prover to reason about by the
\* two lemmas alone.
Cat(s, t) == s \o t

LEMMA CatProperties ==
  ASSUME NEW s \in Seq(Char), NEW t \in Seq(Char)
  PROVE  Cat(s, t) \in Seq(Char)
BY ConcatProperties DEF Cat

LEMMA CatAssociative ==
  ASSUME NEW s \in Seq(Char), NEW t \in Seq(Char), NEW u \in Seq(Char)
  PROVE  Cat(Cat(s, t), u) = Cat(s, Cat(t, u))
BY Associative DEF Cat

\* A blank between two parts.
LEMMA AssociativeWithBlank ==
  ASSUME NEW s \in Seq(Char), NEW t \in Seq(Char)
  PROVE  Append(s, "blank") \o t = s \o (<<"blank">> \o t)
<1> DEFINE blank == <<"blank">>
<1>1. "blank" \in Char /\ blank \in Seq(Char)
  BY DEF Char
<1>2. Append(s, "blank") = s \o blank
  BY <1>1, AppendIsConcat
<1> HIDE DEF blank
<1>3. Cat(Cat(s, blank), t) = Cat(s, Cat(blank, t))
  BY <1>1, CatAssociative
<1> QED BY <1>2, <1>3 DEF blank, Cat

\* An argument between quotes.
LEMMA AssociativeWithQuotes ==
  ASSUME NEW s \in Seq(Char), NEW t \in Seq(Char)
  PROVE  Append(Append(s, "quote") \o t, "quote") =
           s \o (<<"quote">> \o t \o <<"quote">>)
<1> DEFINE quote == <<"quote">>
<1>1. "quote" \in Char /\ quote \in Seq(Char)
  BY DEF Char
<1>2. Append(s, "quote") = s \o quote
  BY <1>1, AppendIsConcat
<1>3. Append(s, "quote") \o t \in Seq(Char)
  BY <1>1, AppendProperties, ConcatProperties
<1>4. Append(Append(s, "quote") \o t, "quote") =
        (Append(s, "quote") \o t) \o quote
  BY <1>1, <1>3, AppendIsConcat
<1> HIDE DEF quote
<1>5. Cat(Cat(Cat(s, quote), t), quote) = Cat(s, Cat(Cat(quote, t), quote))
  BY <1>1, CatProperties, CatAssociative
<1> QED BY <1>2, <1>4, <1>5 DEF quote, Cat

\* One more argument.
LEMMA OneMore ==
  ASSUME NEW args \in Seq(Seq(Char)), NEW a \in Seq(Char)
  PROVE  Append(args, a) # <<>>
BY AppendProperties

\* One more character.
LEMMA ReadsOne ==
  ASSUME NEW line \in Seq(Char), NEW read \in Seq(Char), NEW c \in Char
  PROVE  /\ Append(read, c) \in Seq(Char)
         /\ Reading(line \o Append(read, c)) =
              ReadChar(Reading(line \o read), c)
<1>1. <<c>> \in Seq(Char)
  OBVIOUS
<1>2. line \o (read \o <<c>>) = (line \o read) \o <<c>>
  BY <1>1, ConcatAssociative
<1>3. line \o read \in Seq(Char)
  BY ConcatProperties
<1>4. /\ Append(read, c) = read \o <<c>>
      /\ Append(line \o read, c) = (line \o read) \o <<c>>
  BY <1>3, AppendIsConcat
<1>5. line \o Append(read, c) = Append(line \o read, c)
  BY <1>2, <1>4
<1>6. Reading(Append(line \o read, c)) = ReadChar(Reading(line \o read), c)
  BY <1>3, ReadsNext
<1>7. Append(read, c) \in Seq(Char)
  BY AppendProperties
<1>8. QED
  BY <1>5, <1>6, <1>7

-----------------------------------------------------------------------------
(* One argument                                                            *)

\* Whether the backslashes from j on are doubled.
LEMMA RunContinues ==
  ASSUME NEW arg \in Seq(Char), NEW j \in 1 .. Len(arg), arg[j] = "backslash"
  PROVE  RunsIntoQuote(arg, j) <=> RunsIntoQuote(arg, j + 1)
<1>1. ASSUME RunsIntoQuote(arg, j), NEW m \in j + 1 .. Len(arg),
             \A k \in j + 1 .. m - 1 : arg[k] = "backslash"
      PROVE  arg[m] \in {"backslash", "quote"}
  <2>1. \A k \in j .. m - 1 : k = j \/ k \in j + 1 .. m - 1
    OBVIOUS
  <2>2. \A k \in j .. m - 1 : arg[k] = "backslash"
    BY <1>1, <2>1
  <2>3. m \in j .. Len(arg)
    OBVIOUS
  <2> QED BY <1>1, <2>2, <2>3 DEF RunsIntoQuote
<1>2. ASSUME RunsIntoQuote(arg, j + 1), NEW m \in j .. Len(arg),
             \A k \in j .. m - 1 : arg[k] = "backslash"
      PROVE  arg[m] \in {"backslash", "quote"}
  <2>1. CASE m = j
    BY <2>1
  <2>2. CASE m # j
    <3>1. m \in j + 1 .. Len(arg) /\ \A k \in j + 1 .. m - 1 : k \in j .. m - 1
      BY <2>2
    <3> QED BY <1>2, <3>1 DEF RunsIntoQuote
  <2> QED BY <2>1, <2>2
<1>3. RunsIntoQuote(arg, j) => RunsIntoQuote(arg, j + 1)
  BY <1>1 DEF RunsIntoQuote
<1>4. RunsIntoQuote(arg, j + 1) => RunsIntoQuote(arg, j)
  BY <1>2 DEF RunsIntoQuote
<1>5. QED
  BY <1>3, <1>4

LEMMA RunAtQuote ==
  ASSUME NEW arg \in Seq(Char), NEW j \in 1 .. Len(arg), arg[j] = "quote"
  PROVE  RunsIntoQuote(arg, j)
<1>1. ASSUME NEW m \in j .. Len(arg), \A k \in j .. m - 1 : arg[k] = "backslash"
      PROVE  arg[m] \in {"backslash", "quote"}
  <2>1. CASE m = j
    BY <2>1
  <2>2. CASE m # j
    <3>1. j \in j .. m - 1
      BY <2>2
    <3> QED BY <1>1, <3>1
  <2> QED BY <2>1, <2>2
<1>2. QED
  BY <1>1 DEF RunsIntoQuote

LEMMA NoRun ==
  ASSUME NEW arg \in Seq(Char), NEW j \in 1 .. Len(arg),
         arg[j] \in {"other", "blank"}
  PROVE  ~RunsIntoQuote(arg, j)
<1>1. j \in j .. Len(arg) /\ \A k \in j .. j - 1 : arg[k] = "backslash"
  OBVIOUS
<1>2. QED
  BY <1>1 DEF RunsIntoQuote

LEMMA ProgramHasNoRun ==
  ASSUME NEW arg \in Seq(Char), IsProgram(arg), NEW j \in 1 .. Len(arg)
  PROVE  ~RunsIntoQuote(arg, j)
<1> DEFINE S == {m \in j .. Len(arg) : arg[m] # "backslash"}
<1>1. Len(arg) \in S
  BY DEF IsProgram, Last
<1>2. S \in SUBSET Nat /\ S # {}
  BY <1>1
<1>3. PICK m \in S : \A k \in S : m <= k
  BY <1>2, LeastNumber
<1>4. \A k \in j .. m - 1 : arg[k] = "backslash"
  BY <1>3
<1>5. m \in j .. Len(arg) /\ arg[m] \notin {"backslash", "quote"}
  BY <1>3 DEF IsProgram
<1>6. QED
  BY <1>4, <1>5 DEF RunsIntoQuote

\* The argument as read so far, backslashes included.
SoFar(x, n) == x \o Backslashes(n)

LEMMA SoFarIs ==
  ASSUME NEW x \in Seq(Char), NEW n \in Nat
  PROVE  /\ SoFar(x, n) \in Seq(Char)
         /\ SoFar(x, 0) = x
         /\ SoFar(x, n + 1) = Append(SoFar(x, n), "backslash")
<1>1. /\ Backslashes(n) \in Seq(Char)
      /\ Backslashes(n + 1) = Backslashes(n) \o <<"backslash">>
  BY BackslashesAre
<1>2. <<"backslash">> \in Seq(Char) /\ "backslash" \in Char
  BY DEF Char
<1>3. x \o Backslashes(n) \in Seq(Char)
  BY <1>1, ConcatProperties
<1>4. x \o (Backslashes(n) \o <<"backslash">>) =
        (x \o Backslashes(n)) \o <<"backslash">>
  BY <1>1, <1>2, ConcatAssociative
<1>5. Append(x \o Backslashes(n), "backslash") =
        (x \o Backslashes(n)) \o <<"backslash">>
  BY <1>2, <1>3, AppendIsConcat
<1>6. x \o Backslashes(0) = x
  BY NoBackslashes, ConcatEmptySeq
<1>7. QED
  BY <1>1, <1>3, <1>4, <1>5, <1>6 DEF SoFar

\* After line the parser has the arguments A and, of the next one, arg.
ReadTo(line, A, arg) ==
  \E x \in Seq(Char), n \in Nat :
    /\ Reading(line) = At(A, x, "unquoted", n)
    /\ SoFar(x, n) = arg

LEMMA ReadsBareChar ==
  ASSUME NEW line \in Seq(Char), NEW read \in Seq(Char), NEW A,
         NEW x \in Seq(Char), NEW w \in {"between", "unquoted"}, NEW n \in Nat,
         NEW c \in {"backslash", "other"},
         Reading(line \o read) = At(A, x, w, n),
         SoFar(x, n) = read
  PROVE  ReadTo(line \o Append(read, c), A, Append(read, c))
<1>1. c \in Char
  BY DEF Char
<1>2. Reading(line \o Append(read, c)) = ReadChar(At(A, x, w, n), c)
  BY <1>1, ReadsOne
<1>3. CASE c = "backslash" /\ A # <<>>
  <2>1. ReadChar(At(A, x, w, n), c) = At(A, x, "unquoted", n + 1)
    BY <1>3, ReadsBackslash
  <2>2. SoFar(x, n + 1) = Append(read, c)
    BY <1>3, SoFarIs
  <2>3. n + 1 \in Nat
    OBVIOUS
  <2> QED BY <1>2, <2>1, <2>2, <2>3 DEF ReadTo
<1>4. CASE c = "other" \/ A = <<>>
  <2>1. ReadChar(At(A, x, w, n), c) =
          At(A, x \o Backslashes(n) \o <<c>>, "unquoted", 0)
    BY <1>4, ReadsOther
  <2>2. x \o Backslashes(n) \o <<c>> = Append(read, c)
    BY <1>1, AppendIsConcat DEF SoFar
  <2>3. Append(read, c) \in Seq(Char)
    BY <1>1, ReadsOne
  <2>4. SoFar(Append(read, c), 0) = Append(read, c)
    BY <2>3, SoFarIs
  <2> QED BY <1>2, <2>1, <2>2, <2>3, <2>4 DEF ReadTo
<1>5. QED
  BY <1>3, <1>4

\* A prefix of the argument, and the next character.
LEMMA NextOfPrefix ==
  ASSUME NEW S, NEW arg \in Seq(S), NEW i \in 0 .. Len(arg) - 1
  PROVE  /\ SubSeq(arg, 1, i) \in Seq(S)
         /\ i + 1 \in 1 .. Len(arg)
         /\ arg[i + 1] \in S
         /\ SubSeq(arg, 1, i + 1) = Append(SubSeq(arg, 1, i), arg[i + 1])
<1>1. i + 1 \in 1 .. Len(arg)
  OBVIOUS
<1>2. SubSeq(arg, 1, i + 1) = SubSeq(arg, 1, (i + 1) - 1) \o <<arg[i + 1]>>
  BY <1>1, 1 \in 1 .. Len(arg), i + 1 \in 1 .. Len(arg), SubSeqRecursiveSecond
<1>3. (i + 1) - 1 = i
  OBVIOUS
<1>4. \A k \in 1 .. i : arg[k] \in S
  OBVIOUS
<1>5. SubSeq(arg, 1, i) \in Seq(S)
  BY <1>4, SubSeqProperties
<1>6. arg[i + 1] \in S
  BY <1>1, ElementOfSeq
<1>7. Append(SubSeq(arg, 1, i), arg[i + 1]) =
        SubSeq(arg, 1, i) \o <<arg[i + 1]>>
  BY <1>5, <1>6, AppendIsConcat
<1>8. QED
  BY <1>1, <1>2, <1>3, <1>5, <1>6, <1>7

LEMMA ReadsBare ==
  ASSUME NEW line \in Seq(Char), NEW A, NEW arg \in Seq(Char), Bare(arg),
         Reading(line) = Between(A)
  PROVE  ReadTo(line \o arg, A, arg)
<1> DEFINE S ==
             {i \in 0 .. Len(arg) :
                \/ i = 0
                \/ ReadTo(line \o SubSeq(arg, 1, i), A, SubSeq(arg, 1, i))}
<1>1. 0 \in S
  OBVIOUS
<1>2. ASSUME NEW i \in 0 .. Len(arg) - 1, i \in S
      PROVE  i + 1 \in S
  <2>1. /\ SubSeq(arg, 1, i) \in Seq(Char)
        /\ i + 1 \in 1 .. Len(arg)
        /\ arg[i + 1] \in {"backslash", "other"}
        /\ SubSeq(arg, 1, i + 1) = Append(SubSeq(arg, 1, i), arg[i + 1])
    BY NextOfPrefix DEF Bare
  <2>2. CASE i = 0
    <3>1. SubSeq(arg, 1, i) = <<>>
      BY <2>2, SubSeqEmpty
    <3>2. line \o <<>> = line /\ <<>> \in Seq(Char) /\ SoFar(<<>>, 0) = <<>>
      BY 0 \in Nat, <<>> \in Seq(Char), ConcatEmptySeq, SoFarIs
    <3>3. Reading(line \o SubSeq(arg, 1, i)) = At(A, <<>>, "between", 0)
      BY <3>1, <3>2 DEF Between
    <3>4. ReadTo(line \o Append(SubSeq(arg, 1, i), arg[i + 1]), A,
                 Append(SubSeq(arg, 1, i), arg[i + 1]))
      BY <2>1, <3>1, <3>2, <3>3, ReadsBareChar
    <3>5. ReadTo(line \o SubSeq(arg, 1, i + 1), A, SubSeq(arg, 1, i + 1))
      BY <2>1, <3>4, Zenon
    <3> QED BY <2>1, <3>5
  <2>3. CASE i # 0
    <3>1. PICK x \in Seq(Char), n \in Nat :
                 /\ Reading(line \o SubSeq(arg, 1, i)) = At(A, x, "unquoted", n)
                 /\ SoFar(x, n) = SubSeq(arg, 1, i)
      BY <1>2, <2>3 DEF ReadTo
    <3>2. ReadTo(line \o Append(SubSeq(arg, 1, i), arg[i + 1]), A,
                 Append(SubSeq(arg, 1, i), arg[i + 1]))
      BY <2>1, <3>1, ReadsBareChar
    <3>3. ReadTo(line \o SubSeq(arg, 1, i + 1), A, SubSeq(arg, 1, i + 1))
      BY <2>1, <3>2, Zenon
    <3> QED BY <2>1, <3>3
  <2> QED BY <2>2, <2>3
<1> HIDE DEF S
<1>3. Len(arg) \in Nat /\ Len(arg) \in 0 .. Len(arg)
  OBVIOUS
<1>4. Len(arg) \in S
  BY <1>1, <1>2, <1>3, UpTo
<1>5. Len(arg) # 0 /\ SubSeq(arg, 1, Len(arg)) = arg
  BY SubSeqFull DEF Bare
<1>6. QED
  BY <1>4, <1>5 DEF S

\* After line the parser is inside the quotes around arg, before its character
\* i + 1.  The b backslashes it has before that have been doubled if they will
\* turn out to be followed by a quote; those of the program never are.
Within(line, A, arg, i) ==
  \E x \in Seq(Char), n \in Nat, b \in Nat :
    /\ Reading(line) = At(A, x, "quoted", n)
    /\ SoFar(x, b) = SubSeq(arg, 1, i)
    /\ A = <<>> => n = 0 /\ b = 0
    /\ A # <<>> => n = IF RunsIntoQuote(arg, i + 1) THEN 2 * b ELSE b

\* A quote after an even, and after an odd, number of backslashes.
LEMMA ReadsDelimiter ==
  ASSUME NEW A, NEW x \in Seq(Char), NEW w, NEW b \in Nat
  PROVE  ReadChar(At(A, x, w, 2 * b), "quote") =
           At(A, SoFar(x, b), IF w = "quoted" THEN "unquoted" ELSE "quoted", 0)
<1> DEFINE n == 2 * b
           y == x \o Backslashes(n \div 2)
                  \o (IF n % 2 = 1 THEN <<"quote">> ELSE <<>>)
           v == IF (w = "quoted") = (n % 2 = 1) THEN "quoted" ELSE "unquoted"
<1>1. ReadChar(At(A, x, w, n), "quote") = At(A, y, v, 0)
  BY ReadsQuote
<1>2. n \div 2 = b /\ n % 2 # 1
  OBVIOUS
<1>3. y = SoFar(x, b)
  <2>1. SoFar(x, b) \o <<>> = SoFar(x, b)
    BY SoFarIs, ConcatEmptySeq
  <2> HIDE DEF n
  <2> QED BY <1>2, <2>1 DEF SoFar
<1>4. v = IF w = "quoted" THEN "unquoted" ELSE "quoted"
  <2> HIDE DEF n
  <2> QED BY <1>2
<1> HIDE DEF y, v
<1>5. QED
  BY <1>1, <1>3, <1>4

LEMMA ReadsEscapedQuote ==
  ASSUME NEW A, NEW x \in Seq(Char), NEW b \in Nat
  PROVE  ReadChar(At(A, x, "quoted", 2 * b + 1), "quote") =
           At(A, Append(SoFar(x, b), "quote"), "quoted", 0)
<1> DEFINE n == 2 * b + 1
           y == x \o Backslashes(n \div 2)
                  \o (IF n % 2 = 1 THEN <<"quote">> ELSE <<>>)
           v == IF ("quoted" = "quoted") = (n % 2 = 1) THEN "quoted"
                ELSE "unquoted"
<1>1. ReadChar(At(A, x, "quoted", n), "quote") = At(A, y, v, 0)
  BY ReadsQuote
<1>2. n \div 2 = b /\ n % 2 = 1
  OBVIOUS
<1>3. y = Append(SoFar(x, b), "quote")
  <2>1. "quote" \in Char
    BY DEF Char
  <2>2. Append(SoFar(x, b), "quote") = SoFar(x, b) \o <<"quote">>
    BY <2>1, SoFarIs, AppendIsConcat
  <2> HIDE DEF n
  <2> QED BY <1>2, <2>2 DEF SoFar
<1>4. v = "quoted"
  <2> HIDE DEF n
  <2> QED BY <1>2
<1> HIDE DEF y, v
<1>5. QED
  BY <1>1, <1>3, <1>4

LEMMA Opens ==
  ASSUME NEW line \in Seq(Char), NEW A, NEW arg \in Seq(Char),
         Reading(line) = Between(A)
  PROVE  Within(Append(line, "quote"), A, arg, 0)
<1>1. "quote" \in Char
  BY DEF Char
<1>2. Reading(Append(line, "quote")) =
        ReadChar(At(A, <<>>, "between", 0), "quote")
  BY <1>1, ReadsNext DEF Between
<1>3. <<>> \in Seq(Char) /\ 0 \in Nat /\ 2 * 0 = 0
  OBVIOUS
<1>4. SoFar(<<>>, 0) = <<>>
  BY <1>3, SoFarIs
<1>5. ReadChar(At(A, <<>>, "between", 2 * 0), "quote") =
        At(A, SoFar(<<>>, 0), "quoted", 0)
  BY <1>3, ReadsDelimiter
<1>6. SubSeq(arg, 1, 0) = <<>>
  BY SubSeqEmpty
<1>7. Reading(Append(line, "quote")) = At(A, <<>>, "quoted", 0)
  BY <1>2, <1>3, <1>4, <1>5
<1>8. QED
  BY <1>3, <1>4, <1>6, <1>7 DEF Within

LEMMA Closes ==
  ASSUME NEW line \in Seq(Char), NEW A, NEW arg \in Seq(Char),
         Within(line, A, arg, Len(arg))
  PROVE  ReadTo(Append(line, "quote"), A, arg)
<1>1. PICK x \in Seq(Char), n \in Nat, b \in Nat :
             /\ Reading(line) = At(A, x, "quoted", n)
             /\ SoFar(x, b) = SubSeq(arg, 1, Len(arg))
             /\ A = <<>> => n = 0 /\ b = 0
             /\ A # <<>> => n = IF RunsIntoQuote(arg, Len(arg) + 1)
                                THEN 2 * b ELSE b
  BY DEF Within
<1>2. RunsIntoQuote(arg, Len(arg) + 1)
  BY DEF RunsIntoQuote
<1>3. n = 2 * b
  BY <1>1, <1>2
<1>4. SoFar(x, b) = arg
  BY <1>1, SubSeqFull
<1>5. "quote" \in Char
  BY DEF Char
<1>6. Reading(Append(line, "quote")) = ReadChar(At(A, x, "quoted", n), "quote")
  BY <1>1, <1>5, ReadsNext
<1>7. ReadChar(At(A, x, "quoted", n), "quote") = At(A, arg, "unquoted", 0)
  BY <1>3, <1>4, ReadsDelimiter
<1>8. SoFar(arg, 0) = arg
  BY 0 \in Nat, SoFarIs
<1>9. QED
  BY <1>6, <1>7, <1>8 DEF ReadTo

\* What a character becomes: itself, or a backslash and itself.
LEMMA EscapedIs ==
  ASSUME NEW line \in Seq(Char), NEW arg \in Seq(Char), NEW j \in 1 .. Len(arg)
  PROVE  line \o Escaped(arg, j) =
           IF RunsIntoQuote(arg, j) /\ arg[j] \in {"quote", "backslash"}
           THEN Append(Append(line, "backslash"), arg[j])
           ELSE Append(line, arg[j])
<1> DEFINE c == arg[j]
<1>1. c \in Char /\ "backslash" \in Char
  BY ElementOfSeq DEF Char
<1>2. Escaped(arg, j) = IF RunsIntoQuote(arg, j) /\ c \in {"quote", "backslash"}
                        THEN <<"backslash", c>> ELSE <<c>>
  BY RunAtQuote DEF Escaped
<1> HIDE DEF c
<1>3. Append(line, c) = line \o <<c>>
  BY <1>1, AppendIsConcat
<1>4. Append(Append(line, "backslash"), c) = line \o <<"backslash", c>>
  <2> DEFINE s == <<"backslash", c>>
             t == <<"backslash">> \o <<c>>
  <2>1. <<"backslash">> \in Seq(Char) /\ <<c>> \in Seq(Char)
    BY <1>1
  <2>2. s \in Seq(Char) /\ Len(s) = 2 /\ s[1] = "backslash" /\ s[2] = c
    BY <1>1
  <2>3. /\ Len(<<"backslash">>) = 1 /\ Len(<<c>>) = 1
        /\ <<"backslash">>[1] = "backslash" /\ <<c>>[1] = c
    OBVIOUS
  <2>4. /\ t \in Seq(Char) /\ Len(t) = 2
        /\ \A i \in 1 .. 2 : t[i] = IF i <= 1 THEN <<"backslash">>[i]
                                    ELSE <<c>>[i - 1]
    BY <2>1, <2>3, ConcatProperties
  <2>5. t[1] = "backslash" /\ t[2] = c
    BY <2>3, <2>4
  <2>6. s = t
    <3> HIDE DEF s, t
    <3>1. \A i \in 1 .. Len(s) : s[i] = t[i]
      BY <2>2, <2>5
    <3> QED BY <2>2, <2>4, <3>1, SeqEqual
  <2>7. line \o (<<"backslash">> \o <<c>>) = (line \o <<"backslash">>) \o <<c>>
    BY <2>1, ConcatAssociative
  <2>8. /\ Append(line, "backslash") = line \o <<"backslash">>
        /\ Append(line, "backslash") \in Seq(Char)
    BY <1>1, AppendIsConcat, AppendProperties
  <2>9. Append(Append(line, "backslash"), c) =
          (line \o <<"backslash">>) \o <<c>>
    BY <1>1, <2>8, AppendIsConcat
  <2> QED BY <2>6, <2>7, <2>9
<1>5. QED
  BY <1>2, <1>3, <1>4 DEF c

LEMMA ReadsEscaped ==
  ASSUME NEW line \in Seq(Char), NEW A, NEW arg \in Seq(Char),
         A = <<>> => IsProgram(arg),
         NEW i \in 0 .. Len(arg) - 1, Within(line, A, arg, i)
  PROVE  /\ line \o Escaped(arg, i + 1) \in Seq(Char)
         /\ Within(line \o Escaped(arg, i + 1), A, arg, i + 1)
<1> DEFINE j == i + 1
           c == arg[j]
           next == Append(SubSeq(arg, 1, i), c)
<1>1. /\ j \in 1 .. Len(arg) /\ c \in Char
      /\ SubSeq(arg, 1, i) \in Seq(Char)
      /\ SubSeq(arg, 1, j) = next
  BY NextOfPrefix
<1>2. "backslash" \in Char /\ "quote" \in Char
  BY DEF Char
<1>3. PICK x \in Seq(Char), n \in Nat, b \in Nat :
             /\ Reading(line) = At(A, x, "quoted", n)
             /\ SoFar(x, b) = SubSeq(arg, 1, i)
             /\ A = <<>> => n = 0 /\ b = 0
             /\ A # <<>> => n = IF RunsIntoQuote(arg, j) THEN 2 * b ELSE b
  BY DEF Within
<1>4. line \o Escaped(arg, j) =
        IF RunsIntoQuote(arg, j) /\ c \in {"quote", "backslash"}
        THEN Append(Append(line, "backslash"), c) ELSE Append(line, c)
  BY <1>1, EscapedIs
<1>5. /\ A = <<>> => ~RunsIntoQuote(arg, j) /\ c # "quote"
      /\ c = "quote" => RunsIntoQuote(arg, j)
      /\ c = "backslash" =>
           (RunsIntoQuote(arg, j) <=> RunsIntoQuote(arg, j + 1))
      /\ c \in {"other", "blank"} => ~RunsIntoQuote(arg, j)
  BY <1>1, ProgramHasNoRun, RunAtQuote, RunContinues, NoRun DEF IsProgram
<1>6. /\ Append(line, "backslash") \in Seq(Char)
      /\ Append(line, c) \in Seq(Char)
      /\ Append(Append(line, "backslash"), c) \in Seq(Char)
      /\ next \in Seq(Char)
  BY <1>1, <1>2, AppendProperties
<1>7. SoFar(next, 0) = next
  BY <1>6, 0 \in Nat, SoFarIs
<1> HIDE DEF j, c, next
\* A quote: the backslashes before it are halved, the one put there escapes it.
<1>8. CASE c = "quote"
  <2>1. A # <<>> /\ n = 2 * b /\ RunsIntoQuote(arg, j)
    BY <1>3, <1>5, <1>8
  <2>2. Reading(Append(line, "backslash")) = At(A, x, "quoted", 2 * b + 1)
    BY <1>2, <1>3, <2>1, ReadsNext, ReadsBackslash
  <2>3. Reading(Append(Append(line, "backslash"), "quote")) =
          At(A, Append(SoFar(x, b), "quote"), "quoted", 0)
    <3>1. Reading(Append(Append(line, "backslash"), "quote")) =
            ReadChar(Reading(Append(line, "backslash")), "quote")
      BY <1>2, <1>6, ReadsNext
    <3> QED BY <2>2, <3>1, ReadsEscapedQuote
  <2>4. Reading(line \o Escaped(arg, j)) = At(A, next, "quoted", 0)
    BY <1>3, <1>4, <1>8, <2>1, <2>3 DEF next
  <2>5. /\ 0 \in Nat /\ 2 * 0 = 0
        /\ line \o Escaped(arg, j) \in Seq(Char)
    BY <1>4, <1>6
  <2> QED BY <1>1, <1>6, <1>7, <2>4, <2>5 DEF Within, j
\* A backslash, which the program's name keeps as it is.
<1>9. CASE c = "backslash" /\ A # <<>>
  <2>1. SoFar(x, b + 1) = next
    <3>1. SoFar(x, b + 1) = Append(SoFar(x, b), "backslash")
      BY SoFarIs
    <3> QED BY <1>3, <1>9, <3>1 DEF next
  <2>2. Reading(Append(line, "backslash")) = At(A, x, "quoted", n + 1)
    BY <1>2, <1>3, <1>9, ReadsNext, ReadsBackslash
  <2>3. CASE RunsIntoQuote(arg, j)
    <3>1. Reading(Append(Append(line, "backslash"), "backslash")) =
            At(A, x, "quoted", n + 1 + 1)
      <4>1. Reading(Append(Append(line, "backslash"), "backslash")) =
              ReadChar(Reading(Append(line, "backslash")), "backslash")
        BY <1>2, <1>6, ReadsNext
      <4> QED BY <1>9, <2>2, <4>1, ReadsBackslash
    <3>2. n + 1 + 1 = 2 * (b + 1)
      BY <1>3, <1>9, <2>3
    <3>3. Reading(line \o Escaped(arg, j)) = At(A, x, "quoted", 2 * (b + 1))
      BY <1>4, <1>9, <2>3, <3>1, <3>2
    <3>4. line \o Escaped(arg, j) \in Seq(Char)
      BY <1>4, <1>6
    <3>5. RunsIntoQuote(arg, j + 1) /\ b + 1 \in Nat /\ 2 * (b + 1) \in Nat
      BY <1>5, <1>9, <2>3
    <3> QED BY <1>1, <1>9, <2>1, <3>3, <3>4, <3>5 DEF Within, j
  <2>4. CASE ~RunsIntoQuote(arg, j)
    <3>1. Reading(line \o Escaped(arg, j)) = At(A, x, "quoted", b + 1)
      BY <1>3, <1>4, <1>9, <2>2, <2>4
    <3>2. line \o Escaped(arg, j) \in Seq(Char)
      BY <1>4, <1>6
    <3>3. ~RunsIntoQuote(arg, j + 1) /\ b + 1 \in Nat
      BY <1>5, <1>9, <2>4
    <3> QED BY <1>1, <1>9, <2>1, <3>1, <3>2, <3>3 DEF Within, j
  <2> QED BY <2>3, <2>4
\* Any other character, after which the backslashes stand for themselves.
<1>10. CASE c \in {"other", "blank"} \/ (c = "backslash" /\ A = <<>>)
  <2>1. n = b /\ ~RunsIntoQuote(arg, j)
    BY <1>3, <1>5, <1>10
  <2>2. Reading(Append(line, c)) = ReadChar(At(A, x, "quoted", n), c)
    BY <1>1, <1>3, ReadsNext
  <2>3. ReadChar(At(A, x, "quoted", n), c) =
          At(A, x \o Backslashes(n) \o <<c>>, "quoted", 0)
    BY <1>10, ReadsOther
  <2>4. x \o Backslashes(n) \o <<c>> = next
    BY <1>1, <1>3, <2>1, AppendIsConcat DEF SoFar, next
  <2>5. Reading(line \o Escaped(arg, j)) = At(A, next, "quoted", 0)
    BY <1>4, <2>1, <2>2, <2>3, <2>4
  <2>6. /\ 0 \in Nat /\ 2 * 0 = 0
        /\ line \o Escaped(arg, j) \in Seq(Char)
    BY <1>4, <1>6
  <2> QED BY <1>1, <1>6, <1>7, <2>5, <2>6 DEF Within, j
<1>11. QED
  BY <1>1, <1>8, <1>9, <1>10 DEF Char, j

EscapedParts(arg) == [i \in 1 .. Len(arg) |-> Escaped(arg, i)]

LEMMA EscapedPartsType ==
  ASSUME NEW arg \in Seq(Char)
  PROVE  /\ EscapedParts(arg) \in Seq(Seq(Char))
         /\ Len(EscapedParts(arg)) = Len(arg)
         /\ \A i \in 1 .. Len(arg) : EscapedParts(arg)[i] = Escaped(arg, i)
         /\ \A i \in 1 .. Len(arg) : Escaped(arg, i) \in Seq(Char)
<1>1. ASSUME NEW i \in 1 .. Len(arg)
      PROVE  Escaped(arg, i) \in Seq(Char)
  <2>1. arg[i] \in Char
    BY ElementOfSeq
  <2>2. <<arg[i]>> \in Seq(Char)
    BY <2>1
  <2>3. /\ <<"backslash", "quote">> \in Seq(Char)
        /\ <<"backslash", "backslash">> \in Seq(Char)
    BY DEF Char
  <2> QED BY <2>2, <2>3 DEF Escaped
<1>2. QED
  BY <1>1 DEF EscapedParts

LEMMA QuotedType ==
  ASSUME NEW arg \in Seq(Char)
  PROVE  Quoted(arg) \in Seq(Char)
<1> DEFINE E == EscapedParts(arg)
<1>1. E \in Seq(Seq(Char)) /\ Len(E) = Len(arg)
  BY EscapedPartsType
<1> HIDE DEF E
<1>2. FlattenSeq(E) \in Seq(Char)
  <2>1. CASE E = <<>>
    BY <2>1 DEF FlattenSeq
  <2>2. CASE E # <<>>
    <3>1. PICK f : f \in [1 .. Len(E) -> Seq(Char)] /\ FlattenSeq(E) = f[Len(E)]
      BY <1>1, <2>2, Flattened DEF Joins
    <3>2. Len(E) \in 1 .. Len(E)
      BY <1>1, <2>2, EmptySeq
    <3> QED BY <3>1, <3>2
  <2> QED BY <2>1, <2>2
<1>3. <<"quote">> \in Seq(Char)
  BY DEF Char
<1>4. <<"quote">> \o FlattenSeq(E) \o <<"quote">> \in Seq(Char)
  BY <1>2, <1>3, ConcatProperties
<1>5. QED
  BY <1>4 DEF Quoted, E, EscapedParts

LEMMA ReadsAllEscaped ==
  ASSUME NEW line \in Seq(Char), NEW A, NEW arg \in Seq(Char),
         A = <<>> => IsProgram(arg), Within(line, A, arg, 0)
  PROVE  /\ FlattenSeq(EscapedParts(arg)) \in Seq(Char)
         /\ Within(line \o FlattenSeq(EscapedParts(arg)), A, arg, Len(arg))
<1> DEFINE E == EscapedParts(arg)
<1>1. /\ E \in Seq(Seq(Char)) /\ Len(E) = Len(arg)
      /\ \A i \in 1 .. Len(arg) : E[i] = Escaped(arg, i)
      /\ \A i \in 1 .. Len(arg) : Escaped(arg, i) \in Seq(Char)
  BY EscapedPartsType
<1> HIDE DEF E
<1>2. Len(arg) \in Nat
  OBVIOUS
<1>3. CASE E = <<>>
  <2>1. Len(arg) = 0 /\ FlattenSeq(E) = <<>>
    BY <1>1, <1>3 DEF FlattenSeq
  <2>2. line \o <<>> = line /\ <<>> \in Seq(Char)
    BY ConcatEmptySeq
  <2> QED BY <2>1, <2>2 DEF E
<1>4. CASE E # <<>>
  <2>1. PICK f : Joins(f, E, Len(E), Char)
    BY <1>1, <1>4, Flattened
  <2>2. /\ f \in [1 .. Len(arg) -> Seq(Char)]
        /\ f[1] = E[1]
        /\ \A i \in 1 .. Len(arg) - 1 : f[i + 1] = f[i] \o E[i + 1]
        /\ FlattenSeq(E) = f[Len(arg)]
    BY <1>1, <2>1 DEF Joins
  <2>3. Len(arg) # 0
    BY <1>1, <1>4
  <2> DEFINE S == {i \in 0 .. Len(arg) :
                     i = 0 \/ Within(line \o f[i], A, arg, i)}
  <2>4. 0 \in S
    BY <1>2
  <2>5. ASSUME NEW i \in 0 .. Len(arg) - 1, i \in S
        PROVE  i + 1 \in S
    <3>1. /\ i + 1 \in 1 .. Len(arg)
          /\ i + 1 \in 0 .. Len(arg)
      OBVIOUS
    <3>2. CASE i = 0
      <4>1. Within(line \o Escaped(arg, 0 + 1), A, arg, 0 + 1)
        BY <3>2, ReadsEscaped
      <4>2. Within(line \o f[i + 1], A, arg, i + 1)
        BY <1>1, <2>2, <3>1, <3>2, <4>1
      <4> QED BY <3>1, <4>2
    <3>3. CASE i # 0
      <4>1. /\ f[i] \in Seq(Char) /\ i \in 1 .. Len(arg) - 1
            /\ Escaped(arg, i + 1) \in Seq(Char)
        <5>1. i \in 1 .. Len(arg) /\ i \in 1 .. Len(arg) - 1
          BY <3>3
        <5> QED BY <1>1, <2>2, <3>1, <5>1
      <4>2. f[i + 1] = f[i] \o Escaped(arg, i + 1)
        BY <1>1, <2>2, <3>1, <4>1
      <4>3. Within(line \o f[i], A, arg, i) /\ line \o f[i] \in Seq(Char)
        BY <2>5, <3>3, <4>1, ConcatProperties
      <4>4. Within((line \o f[i]) \o Escaped(arg, i + 1), A, arg, i + 1)
        BY <4>3, ReadsEscaped
      <4>5. line \o f[i + 1] = (line \o f[i]) \o Escaped(arg, i + 1)
        <5>1. (line \o f[i]) \o Escaped(arg, i + 1) =
                line \o (f[i] \o Escaped(arg, i + 1))
          BY <4>1, Associative, Zenon
        <5> QED BY <4>2, <5>1, Zenon
      <4>6. Within(line \o f[i + 1], A, arg, i + 1)
        BY <4>4, <4>5
      <4> QED BY <3>1, <4>6
    <3> QED BY <3>2, <3>3
  <2> HIDE DEF S
  <2>6. Len(arg) \in S
    BY <1>2, Len(arg) \in 0 .. Len(arg), <2>4, <2>5, UpTo
  <2>7. Within(line \o f[Len(arg)], A, arg, Len(arg))
    BY <2>3, <2>6 DEF S
  <2>8. f[Len(arg)] \in Seq(Char)
    BY <1>2, <2>2, <2>3
  <2> QED BY <2>2, <2>7, <2>8 DEF E
<1>5. QED
  BY <1>3, <1>4

\* One argument is read as it was given, quoted or not.
LEMMA ReadsArgument ==
  ASSUME NEW line \in Seq(Char), NEW A, NEW arg \in Seq(Char),
         A = <<>> => IsProgram(arg), Reading(line) = Between(A)
  PROVE  ReadTo(line \o Quoted(arg), A, arg)
<1>1. CASE Bare(arg)
  BY <1>1, ReadsBare DEF Quoted
<1>2. CASE ~Bare(arg)
  <2> DEFINE middle == FlattenSeq(EscapedParts(arg))
             open == Append(line, "quote")
  <2>1. Quoted(arg) = <<"quote">> \o middle \o <<"quote">>
    BY <1>2 DEF Quoted, EscapedParts
  <2>2. "quote" \in Char
    BY DEF Char
  <2>3. open \in Seq(Char)
    BY <2>2, AppendProperties
  <2>4. Within(open, A, arg, 0)
    BY Opens
  <2> HIDE DEF open, middle
  <2>5. middle \in Seq(Char) /\ Within(open \o middle, A, arg, Len(arg))
    BY <2>3, <2>4, ReadsAllEscaped DEF middle
  <2>6. open \o middle \in Seq(Char)
    BY <2>3, <2>5, ConcatProperties
  <2>7. ReadTo(Append(open \o middle, "quote"), A, arg)
    BY <2>5, <2>6, Closes
  <2>8. middle \in Seq(Char)
    BY <2>5
  <2>9. Append(open \o middle, "quote") = line \o Quoted(arg)
    BY <2>1, <2>8, AssociativeWithQuotes DEF open
  <2> QED BY <2>7, <2>9
<1>3. QED
  BY <1>1, <1>2

-----------------------------------------------------------------------------
(* The whole line                                                          *)

\* What ends the argument, the end of the line or the blank before the next one.
LEMMA ArgumentEnds ==
  ASSUME NEW line \in Seq(Char), NEW A, NEW arg, ReadTo(line, A, arg)
  PROVE  /\ EndOfArgument(Reading(line)) = Between(Append(A, arg))
         /\ Reading(Append(line, "blank")) = Between(Append(A, arg))
<1>1. PICK x \in Seq(Char), n \in Nat :
             Reading(line) = At(A, x, "unquoted", n) /\ SoFar(x, n) = arg
  BY DEF ReadTo
<1>2. x \o Backslashes(n) = arg
  BY <1>1 DEF SoFar
<1>3. EndOfArgument(At(A, x, "unquoted", n)) =
        Between(Append(A, x \o Backslashes(n)))
  BY EndsArgument
<1>4. Reading(Append(line, "blank")) = ReadChar(Reading(line), "blank")
  BY ReadsNext DEF Char
<1>5. ReadChar(At(A, x, "unquoted", n), "blank") =
        Between(Append(A, x \o Backslashes(n)))
  BY ReadsBlank
<1>6. QED
  BY <1>1, <1>2, <1>3, <1>4, <1>5

\* The arguments the target reads are those the launcher was given, for every
\* number of arguments and whatever quotes, blanks and backslashes are in them,
\* the program's name being one a program can have (appendQuoted and wmain of
\* Launcher.cpp).
THEOREM QuotingIsUndone ==
  ASSUME NEW args \in Seq(Seq(Char)), args # <<>>, IsProgram(Head(args))
  PROVE  Parsed(Line(args)) = args
<1> DEFINE n == Len(args)
           parts == [k \in 1 .. n |->
                       IF k = 1 THEN Quoted(args[k])
                       ELSE <<"blank">> \o Quoted(args[k])]
           before(k) == SubSeq(args, 1, k - 1)
<1>1. n \in Nat /\ n # 0 /\ args[1] = Head(args) /\ 1 \in 1 .. n
  BY EmptySeq
<1>2. \A k \in 1 .. n : args[k] \in Seq(Char) /\ Quoted(args[k]) \in Seq(Char)
  BY ElementOfSeq, QuotedType
<1>3. "blank" \in Char /\ <<"blank">> \in Seq(Char) /\ <<>> \in Seq(Char)
  BY DEF Char
<1>4. \A k \in 1 .. n : <<"blank">> \o Quoted(args[k]) \in Seq(Char)
  BY <1>2, <1>3, ConcatProperties
<1>5. /\ parts \in Seq(Seq(Char)) /\ Len(parts) = n /\ parts # <<>>
      /\ parts[1] = Quoted(args[1])
      /\ \A k \in 1 .. n - 1 :
           parts[k + 1] = <<"blank">> \o Quoted(args[k + 1])
  <2>1. ASSUME NEW k \in 1 .. n
        PROVE  /\ parts[k] = IF k = 1 THEN Quoted(args[k])
                             ELSE <<"blank">> \o Quoted(args[k])
               /\ parts[k] \in Seq(Char)
    BY <1>2, <1>4
  <2>2. parts \in Seq(Seq(Char)) /\ Len(parts) = n
    BY <1>1, <1>2, <1>4
  <2> HIDE DEF parts
  <2>3. parts[1] = Quoted(args[1]) /\ parts # <<>>
    BY <1>1, <2>1, <2>2
  <2>4. \A k \in 1 .. n - 1 : k + 1 \in 1 .. n /\ k + 1 # 1
    BY <1>1
  <2> QED BY <2>1, <2>2, <2>3, <2>4
<1>6. Line(args) = FlattenSeq(parts)
  BY DEF Line
<1> HIDE DEF parts
<1>7. PICK f : Joins(f, parts, Len(parts), Char)
  BY <1>5, Flattened
<1>8. /\ f \in [1 .. n -> Seq(Char)]
      /\ f[1] = parts[1]
      /\ \A k \in 1 .. n - 1 : f[k + 1] = f[k] \o parts[k + 1]
      /\ FlattenSeq(parts) = f[n]
  BY <1>5, <1>7 DEF Joins
<1> DEFINE S == {k \in 0 .. n : k = 0 \/ ReadTo(f[k], before(k), args[k])}
<1>9. 0 \in S
  BY <1>1
<1>10. ASSUME NEW k \in 0 .. n - 1, k \in S
      PROVE  k + 1 \in S
  <2>1. /\ k + 1 \in 1 .. n /\ k + 1 \in 0 .. n /\ args[k + 1] \in Seq(Char)
        /\ Quoted(args[k + 1]) \in Seq(Char)
        /\ before(k + 1) = SubSeq(args, 1, k)
    BY <1>2
  <2>2. CASE k = 0
    <3>1. Reading(<<>>) = Between(<<>>)
      BY ReadsNothing DEF NothingRead, Between, At
    <3>2. ReadTo(<<>> \o Quoted(args[1]), <<>>, args[1])
      BY <1>1, <1>2, <1>3, <3>1, ReadsArgument
    <3>3. <<>> \o Quoted(args[1]) = f[1]
      BY <1>1, <1>2, <1>5, <1>8, ConcatEmptySeq
    <3>4. before(k + 1) = <<>>
      BY <2>2, SubSeqEmpty
    <3>5. ReadTo(f[k + 1], before(k + 1), args[k + 1])
      BY <2>2, 0 + 1 = 1, <3>2, <3>3, <3>4
    <3> QED BY <2>1, <3>5
  <2>3. CASE k # 0
    <3>1. k \in 1 .. n - 1 /\ k \in 1 .. n /\ k - 1 \in 0 .. n - 1
          /\ (k - 1) + 1 = k
      BY <1>1, <2>3
    <3>2. f[k] \in Seq(Char) /\ ReadTo(f[k], before(k), args[k])
      BY <1>8, <1>10, <2>3, <3>1
    <3>3. Append(before(k), args[k]) = SubSeq(args, 1, k)
      BY <3>1, NextOfPrefix
    <3>4. Reading(Append(f[k], "blank")) = Between(SubSeq(args, 1, k))
      BY <3>2, <3>3, ArgumentEnds
    <3>5. SubSeq(args, 1, k) # <<>>
      <4>1. before(k) \in Seq(Seq(Char)) /\ args[k] \in Seq(Char)
        BY <1>2, <3>1, NextOfPrefix
      <4> HIDE DEF before
      <4>2. Append(before(k), args[k]) # <<>>
        BY <4>1, OneMore
      <4> QED BY <3>3, <4>2
    <3>6. Append(f[k], "blank") \in Seq(Char)
      BY <1>3, <3>2, AppendProperties
    <3>7. ReadTo(Append(f[k], "blank") \o Quoted(args[k + 1]),
                 SubSeq(args, 1, k), args[k + 1])
      BY <2>1, <3>4, <3>5, <3>6, ReadsArgument
    <3>8. f[k + 1] = Append(f[k], "blank") \o Quoted(args[k + 1])
      <4>1. f[k + 1] = f[k] \o (<<"blank">> \o Quoted(args[k + 1]))
        BY <1>5, <1>8, <3>1
      <4> QED BY <2>1, <3>2, <4>1, AssociativeWithBlank
    <3>9. ReadTo(f[k + 1], before(k + 1), args[k + 1])
      BY <2>1, <3>7, <3>8
    <3> QED BY <2>1, <3>9
  <2> QED BY <2>2, <2>3
<1> HIDE DEF S
<1>11. n \in S
  BY <1>1, n \in 0 .. n, <1>9, <1>10, UpTo
<1>12. ReadTo(f[n], before(n), args[n]) /\ f[n] \in Seq(Char)
  BY <1>1, <1>8, <1>11 DEF S
<1>13. EndOfArgument(Reading(f[n])) = Between(Append(before(n), args[n]))
  BY <1>12, ArgumentEnds
<1>14. Append(before(n), args[n]) = args
  <2>1. n - 1 \in 0 .. n - 1 /\ (n - 1) + 1 = n
    BY <1>1
  <2>2. SubSeq(args, 1, n) = args
    BY SubSeqFull
  <2> QED BY <2>1, <2>2, NextOfPrefix
<1>15. Parsed(Line(args)) = Between(args).args
  BY <1>6, <1>8, <1>13, <1>14 DEF Parsed
<1>16. QED
  BY <1>15 DEF Between, At

-----------------------------------------------------------------------------
(* The launcher                                                            *)

\* What a step of the whole is for the launcher.
LauncherMoves ==
  \/ LauncherStep \/ LoadLibrary
  \/ \E code \in Nat : target \in {"suspended", "running"} /\ TargetEnds(code)

LEMMA LauncherPart ==
  ASSUME [Next]_vars
  PROVE  LauncherMoves \/ UNCHANGED launcherVars
<1>1. CASE LauncherSteps \/ Load
  BY <1>1 DEF LauncherSteps, Load, LauncherMoves
<1>2. CASE Killed
  BY <1>2 DEF Killed, Kill, LauncherMoves
<1>3. CASE ProcessEnds
  BY <1>3 DEF ProcessEnds, LauncherMoves
<1>4. CASE \/ ProgramStep \/ ExitGoesOn \/ ResolveGoesOn \/ SignalComes
           \/ OtherForks \/ OtherEnds \/ ChildGoesOn
  BY <1>4 DEF ProgramStep, ExitGoesOn, ResolveGoesOn, SignalComes, OtherForks,
              OtherEnds, ChildGoesOn
<1>5. ASSUME NEW t \in Thread, Continue(t) \/ Symbolize(t) \/ SymbolizeEnds(t)
      PROVE  UNCHANGED launcherVars
  BY <1>5 DEF Continue, Symbolize, SymbolizeEnds
<1>6. CASE UNCHANGED vars
  BY <1>6 DEF vars
<1>7. QED
  BY <1>1, <1>2, <1>3, <1>4, <1>5, <1>6 DEF Next

LEMMA LauncherStart ==
  ASSUME Init
  PROVE  LauncherInv
<1>1. NoCode \in Nat
  BY DEF NoCode
<1>2. exitCode = [target |-> NoCode, launcher |-> NoCode]
  BY DEF Init, LauncherInit
<1>3. exitCode \in [target : Nat, launcher : Nat] /\ exitCode.target = NoCode
  BY <1>1, <1>2
<1>4. /\ launcher = "start" /\ handles = {} /\ loader = "none" /\ result = 0
      /\ injected = FALSE /\ target = "none" /\ hooked = FALSE
  BY DEF Init, LauncherInit
<1>5. QED
  BY <1>3, <1>4 DEF LauncherInv, LauncherTypes, NotCreated, NeverRunsUnhooked,
                    LauncherLeavesNothing

\* A result whose low part is not zero is not zero.
LEMMA Truncated ==
  ASSUME result % Dword # 0
  PROVE  result # 0
BY LauncherAssumption

LEMMA LauncherStepInv ==
  ASSUME LauncherInv, LauncherMoves
  PROVE  LauncherInv'
<1> USE DEF LauncherInv, LauncherTypes, NotCreated, NoCode, NeverRunsUnhooked,
            LauncherLeavesNothing
<1>1. CASE Usage \/ BadPath \/ CreateProcessFails
  BY <1>1 DEF Usage, BadPath, CreateProcessFails, LeaveWith
<1>2. CASE FullPath
  BY <1>2 DEF FullPath
<1>3. CASE CreateProcess
  BY <1>3 DEF CreateProcess
<1>4. CASE ReadGarbage \/ AllocateMemory \/ WriteMemory
  BY <1>4 DEF ReadGarbage, AllocateMemory, WriteMemory
<1>5. CASE CreateThread
  BY <1>5 DEF CreateThread
<1>6. CASE TakeResult
  BY <1>6, Truncated DEF TakeResult
<1>7. CASE FreeMemory
  BY <1>7 DEF FreeMemory
<1>8. CASE GiveUp
  BY <1>8 DEF GiveUp
<1>9. CASE Resume
  BY <1>9 DEF Resume
<1>10. CASE Forward
  BY <1>10 DEF Forward, LeaveWith
<1>11. CASE LoadLibrary
  <2>1. result' \in Nat /\ (result' # 0 => hooked')
    <3>1. CASE hooked' = TRUE /\ result' \in Base
      BY <3>1, LauncherAssumption
    <3>2. CASE result' = 0
      BY <3>2
    <3> QED BY <1>11, <3>1, <3>2 DEF LoadLibrary
  <2>2. hooked' \in BOOLEAN /\ (hooked => hooked')
    BY <1>11 DEF LoadLibrary
  <2>3. /\ loader = "running" /\ loader' = "ended"
        /\ UNCHANGED <<launcher, argv, path, handles, memory, injected, target,
                       intact, exitCode>>
    BY <1>11 DEF LoadLibrary
  <2> QED BY <2>1, <2>2, <2>3
<1>12. ASSUME NEW code \in Nat, target \in {"suspended", "running"},
              TargetEnds(code)
       PROVE  LauncherInv'
  BY <1>12 DEF TargetEnds
<1>13. QED
  BY <1>1, <1>2, <1>3, <1>4, <1>5, <1>6, <1>7, <1>8, <1>9, <1>10, <1>11, <1>12
     DEF LauncherMoves, LauncherStep

LEMMA LauncherNextInv ==
  ASSUME LauncherInv, [Next]_vars
  PROVE  LauncherInv'
<1>1. CASE UNCHANGED launcherVars
  BY <1>1 DEF launcherVars, LauncherInv, LauncherTypes, NotCreated,
              NeverRunsUnhooked, LauncherLeavesNothing
<1>2. QED
  BY <1>1, LauncherPart, LauncherStepInv

\* Until there is a target the launcher has the arguments it was given, and when
\* it makes one they are not none.
ArgumentsInv ==
  /\ launcher \in {"start", "create"} => argv \in Argv /\ target = "none"
  /\ launcher = "create" => argv # <<>>
  /\ launcher \notin {"start", "create", "left"} => target # "none"
  /\ ArgumentsArrive

LEMMA ArgumentsStep ==
  ASSUME LauncherInv, ArgumentsInv, [Next]_vars
  PROVE  ArgumentsInv'
<1> USE DEF LauncherInv, LauncherTypes, ArgumentsInv, ArgumentsArrive
<1>1. CASE UNCHANGED launcherVars
  BY <1>1 DEF launcherVars
<1>2. CASE Usage \/ BadPath \/ CreateProcessFails
  BY <1>2 DEF Usage, BadPath, CreateProcessFails, LeaveWith
<1>3. CASE FullPath
  BY <1>3 DEF FullPath
<1>4. CASE CreateProcess
  <2>1. argv \in Seq(Seq(Char)) /\ argv # <<>> /\ IsProgram(Head(argv))
    BY <1>4, LauncherAssumption DEF CreateProcess
  <2>2. Parsed(Line(argv)) = argv
    BY <2>1, QuotingIsUndone
  <2> QED BY <1>4, <2>2 DEF CreateProcess
<1>5. CASE ReadGarbage \/ AllocateMemory \/ WriteMemory \/ CreateThread
  BY <1>5 DEF ReadGarbage, AllocateMemory, WriteMemory, CreateThread
<1>6. CASE TakeResult \/ FreeMemory
  BY <1>6 DEF TakeResult, FreeMemory
<1>7. CASE GiveUp \/ Resume \/ Forward
  BY <1>7 DEF GiveUp, Resume, Forward, LeaveWith
<1>8. CASE LoadLibrary
  BY <1>8 DEF LoadLibrary
<1>9. ASSUME NEW code \in Nat, target \in {"suspended", "running"},
             TargetEnds(code)
      PROVE  ArgumentsInv'
  BY <1>9 DEF TargetEnds
<1>10. QED
  BY <1>1, <1>2, <1>3, <1>4, <1>5, <1>6, <1>7, <1>8, <1>9, LauncherPart
     DEF LauncherMoves, LauncherStep

\* Every target has got its arguments as they were given to the launcher, for
\* any arguments (appendQuoted).
THEOREM TargetsGetTheirArguments == Spec => []ArgumentsArrive
<1>1. Init => ArgumentsInv
  BY DEF Init, LauncherInit, ArgumentsInv, ArgumentsArrive
<1>2. ArgumentsInv => ArgumentsArrive
  BY DEF ArgumentsInv
<1>3. QED
  BY <1>1, <1>2, ArgumentsStep, LauncherStart, LauncherNextInv, PTL DEF Spec

\* Whatever fails, a target whose code runs has the analyzer in it.
THEOREM TargetsAreHooked == Spec => []NeverRunsUnhooked
<1>1. LauncherInv => NeverRunsUnhooked
  BY DEF LauncherInv
<1>2. QED
  BY <1>1, LauncherStart, LauncherNextInv, PTL DEF Spec

\* The launcher leaves nothing open, and no suspended process, behind.
THEOREM LauncherCleansUp == Spec => []LauncherLeavesNothing
<1>1. LauncherInv => LauncherLeavesNothing
  BY DEF LauncherInv
<1>2. QED
  BY <1>1, LauncherStart, LauncherNextInv, PTL DEF Spec

-----------------------------------------------------------------------------
(* The resolver                                                            *)

\* The lifetime starts the resolver and shuts it down.
ReadyChanges ==
  /\ ready' \in BOOLEAN \cup {ready}
  /\ UNCHANGED <<resolver, descriptors, reading, forked, answer, faults>>

\* What a step of the whole is for the resolver.
ResolverMoves ==
  \/ ResolverStep \/ Interrupted \/ ChildStep
  \/ BystanderForked \/ BystanderEnds
  \/ answer = "unknown" /\ (Resolve \/ ResolveInProcess)
  \/ ReadyChanges

LEMMA ResolverPart ==
  ASSUME [Next]_vars
  PROVE  ResolverMoves \/ UNCHANGED resolverVars
<1>1. CASE \/ LauncherSteps \/ Load \/ Killed \/ ProcessEnds \/ ProgramStep
           \/ ExitGoesOn
  BY <1>1 DEF LauncherSteps, Load, Killed, ProcessEnds, ProgramStep, ExitGoesOn
<1>2. CASE \/ ResolveGoesOn \/ SignalComes \/ OtherForks \/ OtherEnds
           \/ ChildGoesOn
  BY <1>2 DEF ResolveGoesOn, SignalComes, OtherForks, OtherEnds, ChildGoesOn,
              ResolverMoves
<1>3. ASSUME NEW t \in Thread, Symbolize(t) \/ SymbolizeEnds(t)
      PROVE  ResolverMoves \/ UNCHANGED resolverVars
  BY <1>3 DEF Symbolize, SymbolizeEnds, ResolverMoves
<1>4. ASSUME NEW t \in Thread, Continue(t)
      PROVE  ResolverMoves \/ UNCHANGED resolverVars
  <2>1. CASE UNCHANGED resolverVars
    BY <2>1
  <2>2. ASSUME NEW i \in DOMAIN Statics, ConstructStatic(t, i),
               UNCHANGED <<resolver, descriptors, reading, forked, answer,
                           faults>>
        PROVE  ResolverMoves \/ UNCHANGED resolverVars
    <3>1. ready' \in BOOLEAN \cup {ready}
      BY <2>2 DEF ConstructStatic
    <3> QED BY <2>2, <3>1 DEF ResolverMoves, ReadyChanges
  <2>3. CASE Complete(t) /\ UNCHANGED <<resolver, descriptors, reading, forked,
                                        answer, faults>>
    BY <2>3 DEF Complete, ResolverMoves, ReadyChanges
  <2> QED BY <1>4, <2>1, <2>2, <2>3 DEF Continue
<1>5. CASE UNCHANGED vars
  BY <1>5 DEF vars
<1>6. QED
  BY <1>1, <1>2, <1>3, <1>4, <1>5 DEF Next

\* Every set of numbers has a least one, and so Min is one of them.
LEMMA MinIsIn ==
  ASSUME NEW S \in SUBSET Nat, S # {}
  PROVE  Min(S) \in S
<1> DEFINE R == OpToRel(<, Nat)
<1>1. IsWellFoundedOn(R, Nat)
  BY NatLessThanWellFounded
<1>2. \A k, m \in Nat : k < m => <<k, m>> \in R
  BY DEF OpToRel
<1> HIDE DEF R
<1>3. PICK m \in S : \A k \in S : ~(<<k, m>> \in R)
  BY <1>1, WFMin
<1>4. \A k \in S : ~(k < m)
  BY <1>2, <1>3
<1>6. \A k \in S : m <= k
  BY <1>4
<1>5. QED
  BY <1>6 DEF Min

\* While resolve() has no pipe, there are two free descriptors for it.
LEMMA TwoAreFree ==
  ASSUME NEW free, free = {d \in Fd : fds[d] = "free"}, \A d \in Fd : Clean(d)
  PROVE  /\ Min(free) \in free
         /\ Min(free \ {Min(free)}) \in free \ {Min(free)}
<1>1. Fd \ {Stdout} \subseteq free /\ free \in SUBSET Nat
  BY DescriptorAssumption DEF Clean
<1> DEFINE others == Fd \ {Stdout}
<1>2. IsFiniteSet(others) /\ Cardinality(others) >= 2
  <2>1. Cardinality(others) = Cardinality(Fd) - 1
    BY DescriptorAssumption, FS_RemoveElement
  <2>2. Cardinality(Fd) \in Nat
    BY DescriptorAssumption, FS_CardinalityType
  <2> QED BY <2>1, <2>2, DescriptorAssumption, FS_RemoveElement
<1>3. ASSUME NEW x
      PROVE  others \ {x} # {}
  <2>1. CASE others \ {x} = {}
    <3>1. others \subseteq {x}
      BY <2>1
    <3>2. IsFiniteSet({x}) /\ Cardinality({x}) = 1
      BY FS_Singleton
    <3> HIDE DEF others
    <3>3. Cardinality(others) <= 1
      BY <3>1, <3>2, FS_Subset
    <3>4. Cardinality(others) \in Nat
      BY <1>2, FS_CardinalityType
    <3> QED BY <1>2, <3>3, <3>4
  <2> QED BY <2>1
<1>4. free # {} /\ free \ {Min(free)} # {}
  BY <1>1, <1>3
<1>5. QED
  BY <1>1, <1>4, MinIsIn

LEMMA ResolverStart ==
  ASSUME Init
  PROVE  ResolverInv
<1>1. ResolverTypes
  BY DescriptorAssumption DEF Init, ResolverInit, ResolverTypes, NoChild,
     NoDescriptors, Child
<1>2. FdInv /\ ResolveLeavesNoTrace
  BY DescriptorAssumption DEF Init, ResolverInit, FdInv, HoldsBoth, HoldsRead,
     Clean, NoDescriptors, ResolveLeavesNoTrace, NoChild
<1>3. ChildInv /\ CountInv /\ DrainedInv /\ AnswerIsRight
  BY DEF Init, ResolverInit, ChildInv, CountInv, DrainedInv, Waiting, AfterPipe,
         HoldsBoth, HoldsRead, NoChild, AnswerIsRight
<1>4. QED
  BY <1>1, <1>2, <1>3 DEF ResolverInv

\* A child that exits has closed what it had, and keeps the rest.
LEMMA ChildHasExited ==
  ASSUME child \in Child, NEW s \in {"ok", "bad"}, ChildExits(s)
  PROVE  /\ child' \in Child /\ child'.at = "exited" /\ child'.status = s
         /\ child'.wrote = child.wrote
<1> DEFINE none == NoDescriptors
<1>1. none \in [Fd -> {"free", "output", "read", "write"}]
  BY DEF NoDescriptors
<1> HIDE DEF none
<1>2. child' = [child EXCEPT !.at = "exited", !.fds = none, !.status = s]
  BY DEF ChildExits, none
<1>3. QED
  BY <1>1, <1>2 DEF Child

\* The types of what a step of the resolver changes.
LEMMA ResolverTypesStep ==
  ASSUME ResolverInv, ResolverMoves
  PROVE  ResolverTypes'
<1> USE DEF ResolverInv, ResolverTypes, descriptors, reading, forked
<1>1. CASE Resolve \/ ResolveInProcess \/ NoModule \/ PipeFails
  BY <1>1 DEF Resolve, ResolveInProcess, NoModule, PipeFails, ReturnAnswer
<1>2. CASE MakePipe
  <2> DEFINE free == {d \in Fd : fds[d] = "free"}
             r == Min(free)
             w == Min(free \ {r})
  <2>1. r \in Fd /\ w \in Fd
    <3>1. \A d \in Fd : Clean(d)
      BY <1>2 DEF MakePipe, FdInv, HoldsBoth, HoldsRead
    <3> QED BY <3>1, TwoAreFree
  <2>2. /\ fds' = [fds EXCEPT ![r] = "read", ![w] = "write"]
        /\ outPipe' = [read |-> r, write |-> w]
        /\ pipe' = 0 /\ got' = 0 /\ status' = "none" /\ resolver' = "fork"
        /\ UNCHANGED <<ready, child, bystander, locked, answer, faults>>
    BY <1>2 DEF MakePipe
  <2> HIDE DEF r, w
  <2> QED BY <2>1, <2>2
<1>3. CASE ForkFails \/ CloseWrite \/ CloseRead
  BY <1>3 DEF ForkFails, CloseWrite, CloseRead, ReturnAnswer, Closed
<1>4. CASE Fork
  BY <1>4 DEF Fork, NoChild, Child
<1>5. CASE Read
  <2>1. PICK n \in 1 .. pipe : pipe' = pipe - n /\ got' = got + n
    BY <1>5 DEF Read
  <2>2. pipe' \in Nat /\ got' \in Nat
    BY <2>1
  <2> QED BY <1>5, <2>2 DEF Read
<1>12. CASE ReadEnds \/ ReadInterrupted
  BY <1>12 DEF ReadEnds, ReadInterrupted
<1>6. CASE Reap \/ ReapInterrupted \/ ReapedElsewhere \/ Parse
  <2>1. NoChild \in Child /\ child.status \in {"none", "ok", "bad"}
    BY DEF NoChild, NoDescriptors, Child
  <2>2. CASE Reap
    BY <2>1, <2>2 DEF Reap
  <2>3. CASE ReapInterrupted
    BY <2>3 DEF ReapInterrupted
  <2>4. CASE Parse
    BY <2>4 DEF Parse, ReturnAnswer
  <2>5. CASE ReapedElsewhere
    BY <2>1, <2>5 DEF ReapedElsewhere
  <2> QED BY <1>6, <2>2, <2>3, <2>4, <2>5
<1>7. CASE Redirect
  BY <1>7 DEF Redirect, Closed, Child
<1>8. CASE Unsetenv \/ Exec \/ ToolWrites \/ ToolExits
  <2>1. child' \in Child
    <3>2. \A s \in {"ok", "bad"} : ChildExits(s) => child' \in Child
      BY ChildHasExited
    <3>3. CASE Unsetenv
      BY <3>3 DEF Unsetenv, Child
    <3>4. CASE Exec
      BY <3>2, <3>4 DEF Exec, Child
    <3>5. CASE ToolWrites
      BY <3>2, <3>5 DEF ToolWrites, Child
    <3>6. CASE ToolExits
      BY <3>2, <3>6 DEF ToolExits
    <3> QED BY <1>8, <3>3, <3>4, <3>5, <3>6
  <2>2. pipe' \in Nat /\ faults' \subseteq faults \cup {"exec", "tool"}
    <3>1. CASE Unsetenv \/ Exec \/ ToolExits
      BY <1>8, <3>1 DEF Unsetenv, Exec, ToolExits
    <3>2. CASE ToolWrites
      BY <1>8, <3>2 DEF ToolWrites
    <3> QED BY <1>8, <3>1, <3>2
  <2>3. UNCHANGED <<ready, resolver, descriptors, got, status, bystander,
                    locked, answer>>
    BY <1>8 DEF Unsetenv, Exec, ToolWrites, ToolExits
  <2> QED BY <2>1, <2>2, <2>3
<1>9. CASE BystanderForked \/ BystanderEnds
  <2>1. /\ bystander' \subseteq Ends
        /\ UNCHANGED <<ready, resolver, descriptors, reading, child, locked,
                      answer, faults>>
    BY <1>9 DEF BystanderForked, BystanderEnds
  <2> QED BY <2>1
<1>10. CASE ReadyChanges
  BY <1>10 DEF ReadyChanges
<1>11. QED
  BY <1>1, <1>2, <1>3, <1>4, <1>5, <1>6, <1>7, <1>8, <1>9, <1>10, <1>12
     DEF ResolverMoves, ResolverStep, Interrupted, ChildStep

\* What resolve() does with the pipe, by itself and for the proofs below.
LEMMA PipeIsMade ==
  ASSUME ResolverInv, MakePipe
  PROVE  /\ outPipe'.read \in Fd /\ outPipe'.write \in Fd
         /\ outPipe'.read # outPipe'.write
         /\ fds[outPipe'.read] = "free" /\ fds[outPipe'.write] = "free"
         /\ fds' = [fds EXCEPT ![outPipe'.read] = "read",
                               ![outPipe'.write] = "write"]
<1> DEFINE free == {d \in Fd : fds[d] = "free"}
           r == Min(free)
           w == Min(free \ {r})
<1>1. \A d \in Fd : Clean(d)
  BY DEF MakePipe, ResolverInv, FdInv, HoldsBoth, HoldsRead
<1>2. r \in free /\ w \in free \ {r}
  BY <1>1, TwoAreFree
<1>3. /\ fds' = [fds EXCEPT ![r] = "read", ![w] = "write"]
      /\ outPipe' = [read |-> r, write |-> w]
  BY DEF MakePipe
<1> HIDE DEF r, w
<1>4. outPipe'.read = r /\ outPipe'.write = w
  BY <1>3
<1>5. QED
  BY <1>2, <1>3, <1>4

\* Each path leaves the table as it found it.
LEMMA ResolverFdStep ==
  ASSUME ResolverInv, ResolverMoves
  PROVE  FdInv' /\ (resolver' = "idle" => \A d \in Fd : Clean(d)')
<1> USE DEF ResolverInv, FdInv, HoldsBoth, HoldsRead, Clean, descriptors,
            reading, forked
<1>1. CASE Resolve \/ ResolveInProcess \/ NoModule \/ PipeFails
  BY <1>1 DEF Resolve, ResolveInProcess, NoModule, PipeFails, ReturnAnswer
<1>2. CASE MakePipe
  <2>1. resolver' = "fork" /\ \A d \in Fd : Clean(d)
    BY <1>2 DEF MakePipe
  <2> QED BY <1>2, <2>1, PipeIsMade DEF ResolverTypes
<1>3. CASE ForkFails
  BY <1>3 DEF ForkFails, ReturnAnswer, Closed, ResolverTypes
<1>4. CASE CloseWrite
  <2>1. outPipe.read # outPipe.write
    BY <1>4 DEF CloseWrite
  <2> QED BY <1>4, <2>1 DEF CloseWrite, Closed, ResolverTypes
<1>5. CASE CloseRead
  BY <1>5 DEF CloseRead, Closed, ResolverTypes
<1>6. CASE Fork \/ Read \/ ReadEnds \/ ReadInterrupted
  BY <1>6 DEF Fork, Read, ReadEnds, ReadInterrupted
<1>7. CASE Reap \/ ReapInterrupted \/ ReapedElsewhere \/ Parse
  BY <1>7 DEF Reap, ReapInterrupted, ReapedElsewhere, Parse, ReturnAnswer
<1>8. CASE ChildStep \/ BystanderForked \/ BystanderEnds
  BY <1>8 DEF ChildStep, Redirect, Unsetenv, Exec, ToolWrites, ToolExits,
              BystanderForked, BystanderEnds
<1>9. CASE ReadyChanges
  BY <1>9 DEF ReadyChanges
<1>10. QED
  BY <1>1, <1>2, <1>3, <1>4, <1>5, <1>6, <1>7, <1>8, <1>9
     DEF ResolverMoves, ResolverStep, Interrupted

\* What the child has of the pipe.
LEMMA ResolverChildStep ==
  ASSUME ResolverInv, ResolverMoves
  PROVE  ChildInv'
<1> USE DEF ResolverInv, ChildInv, Waiting, AfterPipe, HoldsBoth, HoldsRead,
            Piped, descriptors, reading, forked
<1>1. CASE \/ answer = "unknown" /\ (Resolve \/ ResolveInProcess)
           \/ NoModule \/ PipeFails
  BY <1>1 DEF Resolve, ResolveInProcess, NoModule, PipeFails, ReturnAnswer
<1>2. CASE MakePipe
  <2>1. child.at = "none" /\ resolver = "lookup" /\ answer = "unknown"
    BY <1>2 DEF MakePipe
  <2>2. fds'[Stdout] = "output" => Stdout \notin {outPipe'.read, outPipe'.write}
    BY <1>2, PipeIsMade DEF ResolverTypes
  <2>3. resolver' = "fork" /\ UNCHANGED <<child, answer, faults>>
    BY <1>2 DEF MakePipe
  <2> QED BY <2>1, <2>2, <2>3
<1>3. CASE ForkFails \/ CloseWrite \/ CloseRead
  <2>1. \A d \in Fd : fds'[d] \in {"free", fds[d]}
    BY <1>3 DEF ForkFails, CloseWrite, CloseRead, Closed, ResolverTypes
  <2>2. fds'[Stdout] = "output" => fds[Stdout] = "output"
    BY <2>1, DescriptorAssumption
  <2> HIDE DEF Piped
  <2>3. Piped' <=> Piped
    BY <1>3 DEF ForkFails, CloseWrite, CloseRead, Piped
  <2> QED BY <1>3, <2>2, <2>3 DEF ForkFails, CloseWrite, CloseRead, ReturnAnswer
<1>4. CASE Fork
  BY <1>4 DEF Fork, NoChild, FdInv
<1>5. CASE Read \/ ReadEnds \/ ReadInterrupted
  BY <1>5 DEF Read, ReadEnds, ReadInterrupted
<1>6. CASE Reap \/ ReapInterrupted \/ ReapedElsewhere \/ Parse
  BY <1>6 DEF Reap, ReapInterrupted, ReapedElsewhere, Parse, ReturnAnswer, NoChild
<1>7. CASE Redirect
  <2> DEFINE table == [child.fds EXCEPT ![Stdout] = "write"]
             after == Closed(Closed(table, outPipe.read), outPipe.write)
  <2>1. child.fds \in [Fd -> {"free", "output", "read", "write"}]
    BY DEF ResolverTypes, Child
  <2>2. after[Stdout] = "write" <=> Piped
    BY <2>1, DescriptorAssumption DEF Closed
  <2> HIDE DEF after
  <2>3. child'.at = "environment" /\ child'.fds = after
    BY <1>7 DEF Redirect, after, ResolverTypes, Child
  <2> QED BY <1>7, <2>2, <2>3 DEF Redirect
<1>8. CASE Unsetenv \/ Exec \/ ToolWrites \/ ToolExits
  <2>1. /\ child.at \in {"environment", "exec", "tool"}
        /\ \/ child'.at \in {"exec", "tool"} /\ child'.fds = child.fds
           \/ child'.at = "exited"
    <3> USE DEF ResolverTypes, Child
    <3>1. CASE Unsetenv
      BY <3>1 DEF Unsetenv
    <3>2. CASE Exec
      BY <3>2 DEF Exec, ChildExits
    <3>3. CASE ToolWrites
      BY <3>3 DEF ToolWrites, ChildExits
    <3>4. CASE ToolExits
      BY <3>4 DEF ToolExits, ChildExits
    <3> QED BY <1>8, <3>1, <3>2, <3>3, <3>4
  <2>2. UNCHANGED <<resolver, fds, outPipe, answer>> /\ faults \subseteq faults'
    BY <1>8 DEF Unsetenv, Exec, ToolWrites, ToolExits
  <2> QED BY <2>1, <2>2
<1>9. CASE BystanderForked \/ BystanderEnds
  BY <1>9 DEF BystanderForked, BystanderEnds
<1>10. CASE ReadyChanges
  BY <1>10 DEF ReadyChanges
<1>11. QED
  BY <1>1, <1>2, <1>3, <1>4, <1>5, <1>6, <1>7, <1>8, <1>9, <1>10
     DEF ResolverMoves, ResolverStep, Interrupted, ChildStep

\* What the child has written is in the pipe or has been read.
LEMMA ResolverCountStep ==
  ASSUME ResolverInv, ResolverMoves
  PROVE  CountInv'
<1> USE DEF ResolverInv, CountInv, Waiting, descriptors, reading, forked
<1>0. pipe \in Nat /\ got \in Nat /\ child.wrote \in Nat
  BY DEF ResolverTypes, Child
<1>1. CASE Resolve \/ ResolveInProcess \/ NoModule \/ PipeFails
  BY <1>1 DEF Resolve, ResolveInProcess, NoModule, PipeFails, ReturnAnswer,
     Piped
<1>2. CASE MakePipe
  BY <1>2 DEF MakePipe, ChildInv
<1>3. CASE ForkFails \/ CloseWrite \/ CloseRead
  BY <1>3 DEF ForkFails, CloseWrite, CloseRead, ReturnAnswer, Piped
<1>4. CASE Fork
  BY <1>4 DEF Fork, NoChild, Piped
<1>5. CASE Read
  <2>1. PICK n \in 1 .. pipe : pipe' = pipe - n /\ got' = got + n
    BY <1>5 DEF Read
  <2>2. pipe' + got' = pipe + got /\ pipe > 0
    BY <1>0, <1>5, <2>1 DEF Read
  <2>3. /\ resolver = "read" /\ Piped' = Piped
        /\ UNCHANGED <<resolver, descriptors, status, forked, answer, faults>>
    BY <1>5 DEF Read, Piped
  <2> HIDE DEF Piped
  <2>4. Piped /\ pipe + got = child.wrote
    BY <1>0, <2>2, <2>3
  <2> QED BY <2>2, <2>3, <2>4
<1>6. CASE ReadEnds \/ ReadInterrupted
  BY <1>6 DEF ReadEnds, ReadInterrupted, Piped
<1>7. CASE Reap \/ ReapInterrupted \/ ReapedElsewhere \/ Parse
  BY <1>7 DEF Reap, ReapInterrupted, ReapedElsewhere, Parse, ReturnAnswer, NoChild
<1>8. CASE Redirect \/ Unsetenv
  BY <1>8 DEF Redirect, Unsetenv, Piped, ResolverTypes, Child
<1>9. CASE Exec
  <2>1. /\ child.at = "exec" /\ child'.wrote = child.wrote
        /\ \/ child'.at = "tool"
           \/ /\ child'.at = "exited" /\ child'.status = "bad"
              /\ "exec" \in faults'
    <3>1. child \in Child /\ child.at = "exec"
      BY <1>9 DEF Exec, ResolverTypes
    <3>2. \/ child' = [child EXCEPT !.at = "tool"]
          \/ ChildExits("bad") /\ "exec" \in faults'
      BY <1>9 DEF Exec
    <3>3. CASE ChildExits("bad") /\ "exec" \in faults'
      BY <3>1, <3>3, ChildHasExited
    <3>4. CASE child' = [child EXCEPT !.at = "tool"]
      BY <3>1, <3>4 DEF Child
    <3> QED BY <3>1, <3>2, <3>3, <3>4
  <2>2. /\ UNCHANGED <<resolver, pipe, got>> /\ Piped' = Piped
    BY <1>9 DEF Exec, Piped
  <2> HIDE DEF Piped
  <2> QED BY <2>1, <2>2
<1>10. CASE ToolExits
  <2>1. /\ child'.wrote = child.wrote /\ child'.at = "exited"
        /\ child.at = "tool"
        /\ \/ child'.status = "ok" /\ child.wrote = Pieces
           \/ child'.status = "bad" /\ "tool" \in faults'
    BY <1>10, ChildHasExited DEF ToolExits, ResolverTypes
  <2>2. /\ UNCHANGED <<resolver, pipe, got>> /\ Piped' = Piped
    BY <1>10 DEF ToolExits, Piped
  <2> HIDE DEF Piped
  <2> QED BY <2>1, <2>2
<1>11. CASE ToolWrites
  <2>1. /\ child.at = "tool" /\ child \in Child /\ Piped' = Piped
        /\ child.fds[Stdout] = "write" <=> Piped
        /\ UNCHANGED <<resolver, descriptors, got, faults>>
    BY <1>11 DEF ToolWrites, ResolverTypes, ChildInv, Piped
  <2>2. CASE child.fds[Stdout] = "write" /\ ~IsOpen("read")
    <3>1. ~(HoldsBoth \/ HoldsRead)
      BY <2>2 DEF IsOpen, FdInv, ResolverTypes
    <3>2. ~(resolver \in {"closeRead", "reap"} /\ "read" \notin faults)
      BY <2>1, <2>2 DEF DrainedInv
    <3>3. faults \cap {"read", "wait"} # {}
      BY <2>1, <3>1, <3>2 DEF ChildInv, HoldsBoth, HoldsRead
    <3>4. /\ child'.at = "exited" /\ child'.status = "bad"
          /\ child'.wrote = child.wrote /\ pipe' = pipe
      BY <1>11, <2>1, <2>2, ChildHasExited DEF ToolWrites
    <3> QED BY <2>1, <3>3, <3>4
  <2>3. CASE ~(child.fds[Stdout] = "write" /\ ~IsOpen("read"))
    <3>1. /\ child'.at = "tool" /\ child'.wrote = child.wrote + 1
          /\ pipe' = IF Piped THEN pipe + 1 ELSE pipe
      BY <1>11, <2>1, <2>3 DEF ToolWrites, Child
    <3>2. resolver # "fork"
      BY <2>1 DEF ChildInv
    <3> HIDE DEF Piped
    <3> QED BY <1>0, <2>1, <3>1, <3>2
  <2> QED BY <2>2, <2>3
<1>12. CASE BystanderForked \/ BystanderEnds
  BY <1>12 DEF BystanderForked, BystanderEnds, Piped
<1>13. CASE ReadyChanges
  BY <1>13 DEF ReadyChanges, Piped
<1>14. QED
  BY <1>1, <1>2, <1>3, <1>4, <1>5, <1>6, <1>7, <1>8, <1>9, <1>10, <1>11, <1>12,
     <1>13
     DEF ResolverMoves, ResolverStep, Interrupted, ChildStep

\* The end of file came when all was written.
LEMMA ResolverDrainedStep ==
  ASSUME ResolverInv, ResolverMoves
  PROVE  DrainedInv'
<1> USE DEF ResolverInv, DrainedInv, descriptors, reading, forked
<1>1. CASE Resolve \/ ResolveInProcess \/ NoModule \/ PipeFails \/ MakePipe
  BY <1>1 DEF Resolve, ResolveInProcess, NoModule, PipeFails, MakePipe,
              ReturnAnswer
<1>2. CASE ForkFails \/ Fork \/ CloseWrite \/ Read
  BY <1>2 DEF ForkFails, Fork, CloseWrite, Read, ReturnAnswer
<1>3. CASE CloseRead
  BY <1>3 DEF CloseRead, Piped
<1>4. CASE ReadEnds
  <2>1. /\ resolver = "read" /\ pipe = 0 /\ ~IsOpen("write")
        /\ resolver' = "closeRead" /\ UNCHANGED <<pipe, outPipe, child>>
    BY <1>4 DEF ReadEnds
  <2>2. Piped => child.at = "exited"
    <3>1. \A d \in Fd : child.fds[d] # "write"
      BY <2>1 DEF IsOpen
    <3>2. child.at \in {"redirect", "environment", "exec", "tool", "exited"}
      BY <2>1 DEF ChildInv, Waiting, ResolverTypes, Child
    <3> QED BY <3>1, <3>2, DescriptorAssumption DEF ChildInv, ResolverTypes
  <2> QED BY <2>1, <2>2 DEF Piped
<1>5. CASE ReadInterrupted
  BY <1>5 DEF ReadInterrupted
<1>6. CASE Reap
  <2>1. /\ resolver = "reap" /\ child.at = "exited" /\ status' = child.status
        /\ resolver' = "parse" /\ UNCHANGED <<outPipe, pipe, got, faults>>
    BY <1>6 DEF Reap
  <2>2. "read" \notin faults => pipe = 0
    BY <2>1
  <2>3. IF Piped THEN pipe + got = child.wrote ELSE got = 0
    BY <2>1 DEF CountInv, Waiting
  <2>4. IF child.status = "ok" THEN child.wrote = Pieces
        ELSE faults \cap {"exec", "tool", "read", "wait"} # {}
    BY <2>1 DEF CountInv
  <2>5. got \in Nat /\ Piped' = Piped
    BY <2>1 DEF ResolverTypes, Piped
  <2> HIDE DEF Piped
  <2>6. pipe = 0 /\ child.wrote = Pieces /\ Piped => got = Pieces
    BY <2>3, <2>5
  <2> QED BY <2>1, <2>2, <2>3, <2>4, <2>5, <2>6
<1>7. CASE ReapInterrupted \/ ReapedElsewhere \/ Parse
  BY <1>7 DEF ReapInterrupted, ReapedElsewhere, Parse, ReturnAnswer
<1>8. CASE ChildStep
  <2>1. /\ UNCHANGED <<resolver, outPipe, got, status>>
        /\ faults \subseteq faults' /\ child.at # "exited" /\ Piped' = Piped
    BY <1>8 DEF ChildStep, Redirect, Unsetenv, Exec, ToolWrites, ToolExits,
       Piped
  <2>2. pipe' = pipe \/ Piped
    <3>1. CASE ToolWrites
      BY <3>1 DEF ToolWrites, ChildInv
    <3> QED BY <1>8, <3>1 DEF ChildStep, Redirect, Unsetenv, Exec, ToolExits
  <2> HIDE DEF Piped
  <2> QED BY <2>1, <2>2
<1>9. CASE BystanderForked \/ BystanderEnds
  BY <1>9 DEF BystanderForked, BystanderEnds, Piped
<1>10. CASE ReadyChanges
  BY <1>10 DEF ReadyChanges, Piped
<1>11. QED
  BY <1>1, <1>2, <1>3, <1>4, <1>5, <1>6, <1>7, <1>8, <1>9, <1>10
     DEF ResolverMoves, ResolverStep, Interrupted

\* What resolve() returns.
LEMMA ResolverAnswerStep ==
  ASSUME ResolverInv, ResolverMoves
  PROVE  AnswerIsRight'
<1> USE DEF ResolverInv, AnswerIsRight, descriptors, reading, forked
<1>1. CASE Resolve \/ ResolveInProcess \/ NoModule \/ PipeFails \/ MakePipe
  BY <1>1 DEF Resolve, ResolveInProcess, NoModule, PipeFails, MakePipe,
              ReturnAnswer
<1>2. CASE ForkFails \/ Fork \/ CloseWrite \/ Read \/ CloseRead
  BY <1>2 DEF ForkFails, Fork, CloseWrite, Read, CloseRead, ReturnAnswer
<1>3. CASE \/ ReadEnds \/ ReadInterrupted \/ Reap \/ ReapInterrupted
           \/ ReapedElsewhere
  BY <1>3 DEF ReadEnds, ReadInterrupted, Reap, ReapInterrupted, ReapedElsewhere
<1>4. CASE Parse
  <2>1. /\ resolver = "parse" /\ UNCHANGED <<fds, faults>>
        /\ answer' = IF status # "ok" \/ got = 0 THEN "none"
                     ELSE IF got = Pieces THEN "full" ELSE "part"
    BY <1>4 DEF Parse, ReturnAnswer
  <2>2. answer' = "part" => faults \cap {"read", "wait", "reaped"} # {}
    BY <2>1 DEF DrainedInv
  <2>3. faults = {} /\ fds[Stdout] = "output" => answer' = "full"
    BY <2>1, PiecesAssumption DEF DrainedInv, ChildInv, AfterPipe
  <2> QED BY <2>1, <2>2, <2>3
<1>5. CASE ChildStep
  BY <1>5 DEF ChildStep, Redirect, Unsetenv, Exec, ToolWrites, ToolExits
<1>6. CASE BystanderForked \/ BystanderEnds
  BY <1>6 DEF BystanderForked, BystanderEnds
<1>7. CASE ReadyChanges
  BY <1>7 DEF ReadyChanges
<1>8. QED
  BY <1>1, <1>2, <1>3, <1>4, <1>5, <1>6, <1>7
     DEF ResolverMoves, ResolverStep, Interrupted

LEMMA ResolverNextInv ==
  ASSUME ResolverInv, [Next]_vars
  PROVE  ResolverInv'
<1>1. CASE UNCHANGED resolverVars
  BY <1>1 DEF resolverVars, descriptors, reading, forked, ResolverInv,
       ResolverTypes, FdInv, HoldsBoth, HoldsRead, Clean, ChildInv, AfterPipe,
       Waiting, Piped, CountInv, DrainedInv, ResolveLeavesNoTrace, AnswerIsRight
<1>2. CASE ResolverMoves
  <2>1. ResolveLeavesNoTrace'
    BY <1>2, ResolverFdStep, ResolverChildStep
       DEF ResolveLeavesNoTrace, Clean, ChildInv, Waiting
  <2> QED BY <1>2, <2>1, ResolverTypesStep, ResolverFdStep, ResolverChildStep,
             ResolverCountStep, ResolverDrainedStep, ResolverAnswerStep
          DEF ResolverInv
<1>3. QED
  BY <1>1, <1>2, ResolverPart

\* Each path of resolve() closes what it opened and reaps its child, for any
\* number of descriptors and whatever other threads fork.
THEOREM ResolverCleansUp == Spec => []ResolveLeavesNoTrace
<1>1. ResolverInv => ResolveLeavesNoTrace
  BY DEF ResolverInv
<1>2. QED
  BY <1>1, ResolverStart, ResolverNextInv, PTL DEF Spec

\* An answer is whole unless a wait for it was spoilt, in whatever pieces it came.
THEOREM ResolverAnswers == Spec => []AnswerIsRight
<1>1. ResolverInv => AnswerIsRight
  BY DEF ResolverInv
<1>2. QED
  BY <1>1, ResolverStart, ResolverNextInv, PTL DEF Spec

-----------------------------------------------------------------------------
(* The lifetime of the analyzer                                            *)

\* reportLeaks returns.
Symbolized(t) ==
  /\ place[t] = "symbolize" /\ Goto(t, "complete")
  /\ UNCHANGED <<mode, phase, hand, holds, handlers, sessionVars,
                 trackerVars, raced>>

\* The steps a thread takes by itself.
ThreadMoves(t) ==
  \/ LifetimeCall(t) \/ Complete(t) \/ Symbolized(t)
  \/ \E i \in DOMAIN Statics : ConstructStatic(t, i)

\* What the program chooses to do.
ProgramMoves ==
  \/ RuntimeInitializer \/ StartMain \/ CallExit
  \/ \E o \in Object : Construct(o) \/ Acquire(o)
  \/ \E t \in Thread : UseMemory(t) \/ CallExitProcess(t)

\* What a step of the whole is for the analyzer and its program.
LifetimeMoves ==
  /\ ~Over
  /\ \/ \E t \in Thread : ThreadMoves(t)
     \/ ProgramMoves \/ Unwind \/ ExitReturns

LEMMA LifetimePart ==
  ASSUME [Next]_vars
  PROVE  LifetimeMoves \/ UNCHANGED lifetimeVars
<1>1. CASE LauncherSteps \/ Load \/ Killed \/ ProcessEnds
  BY <1>1 DEF LauncherSteps, Load, Killed, ProcessEnds
<1>2. CASE \/ ResolveGoesOn \/ SignalComes \/ OtherForks \/ OtherEnds
           \/ ChildGoesOn
  BY <1>2 DEF ResolveGoesOn, SignalComes, OtherForks, OtherEnds, ChildGoesOn
<1>3. CASE ProgramStep \/ ExitGoesOn
  BY <1>3 DEF ProgramStep, ExitGoesOn, Running, LifetimeMoves, ProgramMoves
<1>4. ASSUME NEW t \in Thread, Continue(t) \/ Symbolize(t) \/ SymbolizeEnds(t)
      PROVE  LifetimeMoves \/ UNCHANGED lifetimeVars
  <2>1. CASE Continue(t)
    BY <2>1 DEF Continue, Running, LifetimeMoves, ThreadMoves
  <2>2. CASE Symbolize(t)
    BY <2>2 DEF Symbolize
  <2>3. CASE SymbolizeEnds(t)
    BY <2>3 DEF SymbolizeEnds, Running, LifetimeMoves, ThreadMoves,
                Symbolized
  <2> QED BY <1>4, <2>1, <2>2, <2>3
<1>5. CASE UNCHANGED vars
  BY <1>5 DEF vars
<1>6. QED
  BY <1>1, <1>2, <1>3, <1>4, <1>5 DEF Next

LEMMA StaticsAre ==
  /\ Range(Statics) = {"Tracker", "EventQueue", "SymbolResolver",
                       "TrackerThread"}
  /\ Statics \in Seq(Range(Statics)) /\ Len(Statics) = 4
  /\ \A i, j \in 1 .. 4 : Statics[i] = Statics[j] => i = j
<1>1. /\ DOMAIN Statics = 1 .. 4 /\ Len(Statics) = 4
      /\ Statics[1] = "Tracker" /\ Statics[2] = "EventQueue"
      /\ Statics[3] = "SymbolResolver" /\ Statics[4] = "TrackerThread"
      /\ \A i \in 1 .. 4 : i \in {1, 2, 3, 4}
  BY DEF Statics
<1>2. \A i \in 1 .. 4 : Statics[i] \in
        {"Tracker", "EventQueue", "SymbolResolver", "TrackerThread"}
  BY <1>1
<1>3. Range(Statics) = {"Tracker", "EventQueue", "SymbolResolver",
                        "TrackerThread"}
  BY <1>1, <1>2 DEF Range
<1>4. Statics \in Seq(Range(Statics))
  BY <1>3 DEF Statics
<1>5. \A i, j \in 1 .. 4 : Statics[i] = Statics[j] => i = j
  BY <1>1
<1>6. QED
  BY <1>1, <1>3, <1>4, <1>5

\* What an object, a static of the analyzer and shutdown() are.
LEMMA HandlersDiffer ==
  /\ Object \cap Range(Statics) = {}
  /\ "shutdown" \notin Object \cup Range(Statics)
BY StaticsAre, LifetimeAssumption

\* The places inside doInitialize, and what each has ahead of it.
LEMMA InOnceIs ==
  /\ InOnce = {"Tracker", "EventQueue", "SymbolResolver", "TrackerThread",
               "start", "register", "publish"}
  /\ InOnce \subseteq Places
BY StaticsAre DEF InOnce, Places

LEMMA AheadIs ==
  /\ Ahead("Tracker") = {"Tracker", "EventQueue", "SymbolResolver",
                         "TrackerThread", "shutdown"}
  /\ Ahead("EventQueue") = {"EventQueue", "SymbolResolver", "TrackerThread",
                            "shutdown"}
  /\ Ahead("SymbolResolver") = {"SymbolResolver", "TrackerThread", "shutdown"}
  /\ Ahead("TrackerThread") = {"TrackerThread", "shutdown"}
  /\ Ahead("start") = {"shutdown"} /\ Ahead("register") = {"shutdown"}
  /\ Ahead("publish") = {}
  /\ \A p \in InOnce : Ahead(p) \cap Object = {}
<1>1. Ahead("Tracker") = {"Tracker", "EventQueue", "SymbolResolver",
                         "TrackerThread", "shutdown"}
  BY StaticsAre DEF Ahead
<1>2. /\ Ahead("EventQueue") = {"EventQueue", "SymbolResolver",
                                "TrackerThread", "shutdown"}
      /\ Ahead("SymbolResolver") = {"SymbolResolver", "TrackerThread",
                                    "shutdown"}
      /\ Ahead("TrackerThread") = {"TrackerThread", "shutdown"}
  BY DEF Ahead
<1>3. /\ Ahead("start") = {"shutdown"} /\ Ahead("register") = {"shutdown"}
      /\ Ahead("publish") = {}
  BY DEF Ahead
<1>4. \A p \in InOnce : Ahead(p) \cap Object = {}
  BY <1>1, <1>2, <1>3, InOnceIs, StaticsAre, HandlersDiffer
<1>5. QED
  BY <1>1, <1>2, <1>3, <1>4

\* The two ways in which the list of handlers changes.
Registered(o) ==
  /\ handlers' \in Seq(Handler) /\ Len(handlers') = Len(handlers) + 1
  /\ \A i \in 1 .. Len(handlers) : handlers'[i] = handlers[i]
  /\ handlers'[Len(handlers) + 1] = o

Popped ==
  /\ handlers' \in Seq(Handler) /\ Len(handlers') = Len(handlers) - 1
  /\ Len(handlers) \in Nat \ {0}
  /\ \A i \in 1 .. Len(handlers') : handlers'[i] = handlers[i]
  /\ Last(handlers) = handlers[Len(handlers)] /\ Last(handlers) \in Handler

LEMMA Registering ==
  ASSUME NEW o \in Handler, handlers \in Seq(Handler),
         handlers' = Append(handlers, o)
  PROVE  Registered(o)
BY AppendProperties DEF Registered

LEMMA InRange ==
  ASSUME handlers \in Seq(Handler), NEW o, o \notin Range(handlers)
  PROVE  \A i \in 1 .. Len(handlers) : handlers[i] # o
BY DEF Range

\* The step of doInitialize that constructs a static.
LEMMA Constructs ==
  ASSUME NEW t \in Thread, NEW i \in DOMAIN Statics, ConstructStatic(t, i)
  PROVE  /\ Statics[i] \in Range(Statics) /\ place[t] = Statics[i]
         /\ Statics[i] \in Ahead(place[t])
         /\ \E p \in InOnce \ {"register", "publish"} :
              Goto(t, p) /\ Ahead(p) = Ahead(place[t]) \ {Statics[i]}
<1>1. /\ Len(Statics) = 4 /\ i \in {1, 2, 3, 4}
      /\ Statics[1] = "Tracker" /\ Statics[2] = "EventQueue"
      /\ Statics[3] = "SymbolResolver" /\ Statics[4] = "TrackerThread"
  BY DEF Statics
<1> DEFINE p == IF i < Len(Statics) THEN Statics[i + 1] ELSE "start"
<1>2. place[t] = Statics[i] /\ Goto(t, p)
  BY DEF ConstructStatic
<1>3. \/ i = 1 /\ Statics[i] = "Tracker" /\ p = "EventQueue"
      \/ i = 2 /\ Statics[i] = "EventQueue" /\ p = "SymbolResolver"
      \/ i = 3 /\ Statics[i] = "SymbolResolver" /\ p = "TrackerThread"
      \/ i = 4 /\ Statics[i] = "TrackerThread" /\ p = "start"
  BY <1>1
<1> HIDE DEF p
<1>4. /\ Statics[i] \in Ahead(Statics[i])
      /\ Ahead(p) = Ahead(Statics[i]) \ {Statics[i]}
  BY <1>3, AheadIs
<1>5. p \in InOnce \ {"register", "publish"} /\ Statics[i] \in Range(Statics)
  BY <1>3, InOnceIs, StaticsAre
<1>6. QED
  BY <1>2, <1>4, <1>5

LEMMA Popping ==
  ASSUME handlers \in Seq(Handler), handlers # <<>>, handlers' = Front(handlers)
  PROVE  Popped
<1>1. Len(handlers) \in Nat \ {0} /\ \A i \in 1 .. Len(handlers) :
                                       handlers[i] \in Handler
  BY EmptySeq, LenProperties, ElementOfSeq
<1> DEFINE n == Len(handlers)
<1>2. n \in Nat \ {0} /\ \A i \in 1 .. n - 1 : handlers[i] \in Handler
  BY <1>1
<1> HIDE DEF n
<1>3. /\ 1 \in Int /\ n - 1 \in Int /\ n - 1 - 1 + 1 = n - 1
      /\ (IF 1 <= n - 1 THEN n - 1 - 1 + 1 ELSE 0) = n - 1
      /\ \A i \in 1 .. n - 1 : 1 + i - 1 = i
  BY <1>2
<1>4. /\ SubSeq(handlers, 1, n - 1) \in Seq(Handler)
      /\ Len(SubSeq(handlers, 1, n - 1)) = n - 1
      /\ \A i \in 1 .. n - 1 : SubSeq(handlers, 1, n - 1)[i] = handlers[i]
  BY <1>2, <1>3, SubSeqProperties
<1>5. QED
  BY <1>1, <1>4 DEF Popped, Front, Last, n

LEMMA LifetimeStart ==
  ASSUME Init
  PROVE  LifetimeInv
<1> USE DEF Init, LifetimeInit
<1>1. handlers = <<>> /\ Len(handlers) = 0 /\ handlers \in Seq(Handler)
  OBVIOUS
<1>2. LifetimeTypes
  BY <1>1, LifetimeAssumption DEF LifetimeTypes, Places, NoCall
<1>3. /\ ProgramInv /\ HandlersInv /\ OnceInv /\ RaceInv /\ AliveInv
      /\ OwnersInv /\ StaticOwnersAreFreed /\ ReportUnlessRaced
  BY <1>1, LifetimeAssumption, InOnceIs
     DEF ProgramInv, Calling, HandlersInv, OnceInv, RaceInv, InShutdown, NoCall,
         AliveInv, OwnersInv, StaticOwnersAreFreed, ReportUnlessRaced
<1>4. PendingInv
  BY <1>1, LifetimeAssumption, InOnceIs
     DEF PendingInv, Armed, NoCall, InShutdown, Pending, Constructing, Calling
<1>5. QED
  BY <1>2, <1>3, <1>4 DEF LifetimeInv

\* The types of what a step changes.
LEMMA LifetimeTypesStep ==
  ASSUME LifetimeInv, LifetimeMoves
  PROVE  LifetimeTypes'
<1> USE DEF LifetimeInv, LifetimeTypes, programVars, sessionVars, trackerVars
<1>0. Main \in Thread
  BY LifetimeAssumption
<1>1. ASSUME NEW t \in Thread, ThreadMoves(t)
      PROVE  LifetimeTypes'
  <2> USE DEF Goto, Places, InShutdown
  <2>1. CASE Test(t) \/ AfterOnce(t) \/ IfInitialized(t) \/ Join(t) \/ Report(t)
    BY <2>1 DEF Test, AfterOnce, IfInitialized, ShutdownReturns, Join, Report,
                Uses
  <2>2. CASE Push(t)
    BY <2>2 DEF Push, Uses
  <2>3. CASE Done(t)
    <3>1. /\ hand[t][1] = "construct" => hand[t][2] \in Object
          /\ hand[t][1] = "acquire" => hand[t][2] \in Object
      BY <2>3 DEF Done, ProgramInv, Calling, Object
    <3>2. handlers' \in Seq(Handler)
      BY <2>3, <3>1, Registering DEF Done, Registered, Handler
    <3>3. holds' \subseteq Object
      BY <2>3, <3>1 DEF Done
    <3>4. NoCall \in {"use"} \X Thread
      BY <1>0 DEF NoCall
    <3> QED BY <2>3, <3>2, <3>3, <3>4 DEF Done
  <2>4. CASE Latch(t)
    BY <2>4 DEF Latch
  <2>10. CASE StopQueue(t)
    BY <2>10 DEF StopQueue, Uses
  <2>7. CASE Joined(t)
    BY <2>7 DEF Joined
  <2>8. CASE RealExitProcess(t)
    BY <2>8 DEF RealExitProcess
  <2>9. CASE Complete(t)
    BY <2>9 DEF Complete, ShutdownReturns
  <2>5. ASSUME NEW i \in DOMAIN Statics, ConstructStatic(t, i)
        PROVE  LifetimeTypes'
    <3>1. Statics[i] \in Handler
      BY <2>5, Constructs DEF Handler
    <3>2. handlers' \in Seq(Handler)
      BY <2>5, <3>1, Registering DEF ConstructStatic, Registered
    <3>3. PICK p \in InOnce : Goto(t, p)
      BY <2>5, Constructs
    <3>4. place' \in [Thread -> Places]
      BY <3>3, InOnceIs
    <3> QED BY <2>5, <3>2, <3>4 DEF ConstructStatic
  <2>6. CASE Symbolized(t)
    BY <2>6 DEF Symbolized
  <2>11. CASE EnterOnce(t) \/ Start(t)
    <3>1. PICK p \in InOnce : Goto(t, p)
      BY <2>11, InOnceIs DEF EnterOnce, Start, Statics
    <3>2. place' \in [Thread -> Places]
      BY <3>1, InOnceIs
    <3>3. CASE EnterOnce(t)
      BY <3>2, <3>3 DEF EnterOnce
    <3>4. CASE Start(t)
      BY <3>2, <3>4 DEF Start, Uses
    <3> QED BY <2>11, <3>3, <3>4
  <2>12. CASE Register(t)
    <3>1. "shutdown" \in Handler
      BY DEF Handler
    <3>2. handlers' \in Seq(Handler)
      BY <2>12, <3>1, Registering DEF Register, Registered
    <3> QED BY <2>12, <3>2, InOnceIs DEF Register
  <2>13. CASE Publish(t)
    BY <2>13 DEF Publish
  <2> QED BY <1>1, <2>1, <2>2, <2>3, <2>4, <2>5, <2>6, <2>7, <2>8, <2>9, <2>10,
             <2>11, <2>12, <2>13
          DEF ThreadMoves, LifetimeCall
<1>2. CASE RuntimeInitializer \/ StartMain \/ CallExit
  BY <1>0, <1>2 DEF RuntimeInitializer, StartMain, CallExit, Goto, Places
<1>3. ASSUME NEW o \in Object, Construct(o)
      PROVE  LifetimeTypes'
  <2>1. CASE o \in Eager
    BY <1>0, <1>3, <2>1 DEF Construct, Call, Goto, Places
  <2>2. CASE o \notin Eager
    <3>1. handlers' \in Seq(Handler)
      BY <1>3, <2>2, Registering DEF Construct, Registered, Handler
    <3> QED BY <1>3, <2>2, <3>1 DEF Construct
  <2> QED BY <2>1, <2>2
<1>4. ASSUME NEW o \in Object, Acquire(o)
      PROVE  LifetimeTypes'
  BY <1>0, <1>4 DEF Acquire, Call, Goto, Places
<1>5. ASSUME NEW t \in Thread, UseMemory(t) \/ CallExitProcess(t)
      PROVE  LifetimeTypes'
  <2>1. CASE UseMemory(t)
    BY <2>1 DEF UseMemory, Call, Goto, Places
  <2>2. CASE CallExitProcess(t)
    BY <2>2 DEF CallExitProcess, Goto, Places
  <2> QED BY <1>5, <2>1, <2>2
<1>6. CASE Unwind
  <2>1. handlers' \in Seq(Handler)
    BY <1>6, Popping DEF Unwind, Popped
  <2>2. /\ UNCHANGED place \/ \E p \in {"test", "shutdown"} : Goto(Main, p)
        /\ \/ UNCHANGED hand
           \/ \E o \in Object : hand' = [hand EXCEPT ![Main] = <<"destroy", o>>]
        /\ phase' \in {phase, "aborted"}
    BY <1>6 DEF Unwind, Call, Destroyed
  <2>3. place' \in [Thread -> Places]
    BY <1>0, <2>2 DEF Goto, Places
  <2>4. hand' \in [Thread -> {"use", "initialize", "construct", "acquire",
                              "destroy"} \X (Object \cup Thread)]
    BY <1>0, <2>2
  <2> QED BY <1>6, <2>1, <2>2, <2>3, <2>4 DEF Unwind
<1>7. CASE ExitReturns
  BY <1>0, <1>7 DEF ExitReturns, Goto, Places
<1>8. QED
  BY <1>1, <1>2, <1>3, <1>4, <1>5, <1>6, <1>7 DEF LifetimeMoves, ProgramMoves

\* A step leaves no thread with more to register than it had ahead.
StaysAhead ==
  \A t \in Thread : place'[t] \in InOnce =>
    place[t] \in InOnce /\ Ahead(place'[t]) \subseteq Ahead(place[t])

\* What a step of one thread leaves alone.
LEMMA OneThreadMoves ==
  ASSUME LifetimeTypes, NEW t \in Thread, NEW p, Goto(t, p)
  PROVE  place'[t] = p /\ \A u \in Thread \ {t} : place'[u] = place[u]
BY DEF Goto, LifetimeTypes

\* Only a thread that enters doInitialize has all of it ahead.
LEMMA MovesAhead ==
  ASSUME LifetimeTypes, LifetimeMoves
  PROVE  StaysAhead \/ \E t \in Thread : EnterOnce(t)
<1>0. Main \in Thread
  BY LifetimeAssumption
<1>1. ASSUME NEW t \in Thread, NEW p, Goto(t, p),
             p \in InOnce =>
               place[t] \in InOnce /\ Ahead(p) \subseteq Ahead(place[t])
      PROVE  StaysAhead
  BY <1>1, OneThreadMoves DEF StaysAhead
<1>2. UNCHANGED place => StaysAhead
  BY DEF StaysAhead
<1>3. \A p \in {"idle", "test", "once", "push", "done", "unwind", "shutdown",
                "kill"} \cup InShutdown : p \notin InOnce
  BY InOnceIs DEF InShutdown
<1>4. ASSUME NEW t \in Thread, ThreadMoves(t)
      PROVE  StaysAhead \/ EnterOnce(t)
  <2>1. CASE Test(t) \/ AfterOnce(t) \/ Push(t) \/ Done(t) \/ Publish(t)
    <3>1. PICK p \in {"push", "done", "once", "unwind", "idle"} : Goto(t, p)
      BY <2>1 DEF Test, AfterOnce, Push, Done, Publish
    <3> QED BY <1>1, <1>3, <3>1
  <2>2. CASE \/ IfInitialized(t) \/ Latch(t) \/ StopQueue(t) \/ Join(t)
             \/ Joined(t) \/ Report(t) \/ Complete(t) \/ Symbolized(t)
    <3>1. PICK p \in {"unwind", "kill"} \cup InShutdown : Goto(t, p)
      BY <2>2 DEF IfInitialized, ShutdownReturns, Latch, StopQueue, Join, Joined,
         Report, Complete, Symbolized, InShutdown
    <3> QED BY <1>1, <1>3, <3>1
  <2>3. CASE Start(t) \/ Register(t)
    <3>1. PICK p \in {"register", "publish"} :
            Goto(t, p) /\ place[t] \in {"start", "register"}
      BY <2>3 DEF Start, Register
    <3>2. Ahead(p) \subseteq Ahead(place[t]) /\ place[t] \in InOnce
      BY <3>1, AheadIs, InOnceIs
    <3> QED BY <1>1, <3>1, <3>2
  <2>4. ASSUME NEW i \in DOMAIN Statics, ConstructStatic(t, i)
        PROVE  StaysAhead
    BY <1>1, <2>4, Constructs DEF InOnce
  <2>5. CASE RealExitProcess(t)
    BY <1>2, <2>5 DEF RealExitProcess, programVars
  <2> QED BY <1>4, <2>1, <2>2, <2>3, <2>4, <2>5 DEF ThreadMoves, LifetimeCall
<1>5. ASSUME NEW t \in Thread, NEW p \in {"once", "done", "unwind", "test",
                                          "shutdown"}, Goto(t, p)
      PROVE  StaysAhead
  BY <1>1, <1>3, <1>5
<1>6. CASE ProgramMoves
  <2>1. CASE RuntimeInitializer \/ StartMain \/ CallExit
    BY <1>0, <1>2, <1>5, <2>1 DEF RuntimeInitializer, StartMain, CallExit,
       programVars
  <2>2. ASSUME NEW o \in Object, Construct(o) \/ Acquire(o)
        PROVE  StaysAhead
    BY <1>0, <1>2, <1>5, <2>2 DEF Construct, Acquire, Call
  <2>3. ASSUME NEW t \in Thread, UseMemory(t) \/ CallExitProcess(t)
        PROVE  StaysAhead
    BY <1>5, <2>3 DEF UseMemory, CallExitProcess, Call
  <2> QED BY <1>6, <2>1, <2>2, <2>3 DEF ProgramMoves
<1>7. CASE Unwind \/ ExitReturns
  <2>1. CASE UNCHANGED place
    BY <1>2, <2>1
  <2>2. CASE \E p \in {"test", "shutdown"} : Goto(Main, p)
    BY <1>0, <1>5, <2>2
  <2> QED BY <1>7, <2>1, <2>2 DEF Unwind, ExitReturns, Call
<1>8. QED
  BY <1>4, <1>6, <1>7 DEF LifetimeMoves

\* How shutdown() is reached does not change, and the history only grows.
LEMMA RacedGrows ==
  ASSUME LifetimeMoves
  PROVE  mode' = mode /\ raced \subseteq raced' /\ (Overtaken => Overtaken')
<1> SUFFICES mode' = mode /\ raced \subseteq raced'
  BY DEF Overtaken
<1> USE DEF programVars, sessionVars, trackerVars
<1>1. ASSUME NEW t \in Thread, ThreadMoves(t)
      PROVE  mode' = mode /\ raced \subseteq raced'
  BY <1>1 DEF ThreadMoves, Symbolized, LifetimeCall, Test, EnterOnce, Start,
     Register, Publish, AfterOnce, Push, Done, IfInitialized, Latch, StopQueue,
     Join, Joined, Report, RealExitProcess, Complete, ConstructStatic
<1>2. CASE ProgramMoves
  <2>1. CASE RuntimeInitializer \/ StartMain \/ CallExit
    BY <2>1 DEF RuntimeInitializer, StartMain, CallExit
  <2>2. ASSUME NEW o \in Object, Construct(o) \/ Acquire(o)
        PROVE  mode' = mode /\ raced \subseteq raced'
    BY <2>2 DEF Construct, Acquire
  <2>3. ASSUME NEW t \in Thread, UseMemory(t) \/ CallExitProcess(t)
        PROVE  mode' = mode /\ raced \subseteq raced'
    BY <2>3 DEF UseMemory, CallExitProcess
  <2> QED BY <1>2, <2>1, <2>2, <2>3 DEF ProgramMoves
<1>3. CASE Unwind
  BY <1>3 DEF Unwind
<1>4. CASE ExitReturns
  BY <1>4 DEF ExitReturns
<1>5. QED
  BY <1>1, <1>2, <1>3, <1>4 DEF LifetimeMoves

\* What is registered once stays so.
LEMMA HandlersStep ==
  ASSUME LifetimeInv, LifetimeMoves
  PROVE  HandlersInv'
<1> USE DEF LifetimeInv, HandlersInv
<1>0. Len(handlers) \in Nat /\ handlers \in Seq(Handler) /\ Main \in Thread
  BY LenProperties, LifetimeAssumption DEF LifetimeTypes
<1>1. ASSUME UNCHANGED <<mode, handlers>>,
             initOnce # "none" => initOnce' # "none", StaysAhead
      PROVE  HandlersInv'
  BY <1>1 DEF StaysAhead
<1>2. ASSUME NEW o \in Handler, Registered(o), UNCHANGED <<mode, initOnce>>,
             \A i \in 1 .. Len(handlers) : handlers[i] # o,
             o \in Object \/ (mode = "atexit" /\ initOnce # "none"),
             o \in Range(Statics) =>
               \A i \in 1 .. Len(handlers) : handlers[i] # "shutdown",
             StaysAhead,
             \A t \in Thread : place'[t] \in InOnce => o \notin Ahead(place'[t])
      PROVE  HandlersInv'
  <2> DEFINE n == Len(handlers)
  <2>1. /\ n \in Nat /\ Len(handlers') = n + 1 /\ handlers'[n + 1] = o
        /\ \A i \in 1 .. n : handlers'[i] = handlers[i]
    BY <1>0, <1>2 DEF Registered
  <2> HIDE DEF n
  <2>2. \A i \in 1 .. n + 1 : i \in 1 .. n \/ i = n + 1
    BY <2>1
  <2>3. \A i, j \in 1 .. n + 1 : handlers'[i] = handlers'[j] => i = j
    BY <1>2, <2>1, <2>2 DEF n
  <2>4. \A i \in 1 .. n + 1 :
          handlers'[i] \in Object \/ (mode' = "atexit" /\ initOnce' # "none")
    BY <1>2, <2>1, <2>2 DEF n
  <2>5. \A i, j \in 1 .. n + 1 :
          handlers'[i] \in Range(Statics) /\ handlers'[j] = "shutdown" => i < j
    <3>1. o \in Range(Statics) => o # "shutdown"
      BY HandlersDiffer
    <3> QED BY <1>2, <2>1, <2>2, <3>1 DEF n
  <2>6. ASSUME NEW t \in Thread, place'[t] \in InOnce, NEW i \in 1 .. n + 1
        PROVE  handlers'[i] \notin Ahead(place'[t])
    BY <1>2, <2>1, <2>2, <2>6 DEF n, StaysAhead
  <2> QED BY <2>1, <2>3, <2>4, <2>5, <2>6
<1>3. ASSUME NEW o \in Object, \A i \in 1 .. Len(handlers) : handlers[i] # o,
             handlers' = Append(handlers, o), UNCHANGED <<mode, initOnce>>,
             StaysAhead
      PROVE  HandlersInv'
  <2>1. o \in Handler /\ o \notin Range(Statics)
    BY HandlersDiffer DEF Handler
  <2>2. Registered(o)
    BY <1>0, <1>3, <2>1, Registering
  <2>3. \A t \in Thread : place'[t] \in InOnce => o \notin Ahead(place'[t])
    BY AheadIs
  <2> QED BY <1>2, <1>3, <2>1, <2>2, <2>3
<1>4. ASSUME Popped, UNCHANGED <<mode, initOnce>>, StaysAhead
      PROVE  HandlersInv'
  <2>1. \A i \in 1 .. Len(handlers') : /\ i \in 1 .. Len(handlers)
                                       /\ handlers'[i] = handlers[i]
    BY <1>0, <1>4 DEF Popped
  <2> QED BY <1>4, <2>1 DEF StaysAhead
<1>5. ASSUME NEW t \in Thread, EnterOnce(t)
      PROVE  HandlersInv'
  <2>1. /\ \A i \in 1 .. Len(handlers) : handlers[i] \in Object
        /\ UNCHANGED <<mode, handlers>>
    BY <1>5 DEF EnterOnce
  <2>2. \A u \in Thread : place'[u] \in InOnce =>
          \A i \in 1 .. Len(handlers) : handlers[i] \notin Ahead(place'[u])
    BY <2>1, AheadIs
  <2> QED BY <2>1, <2>2
<1> SUFFICES ASSUME StaysAhead
             PROVE  HandlersInv'
  BY <1>5, MovesAhead
<1>6. ASSUME NEW t \in Thread, ThreadMoves(t), ~EnterOnce(t)
      PROVE  HandlersInv'
  <2> USE DEF sessionVars
  <2>1. CASE Test(t) \/ AfterOnce(t) \/ IfInitialized(t) \/ Latch(t)
             \/ StopQueue(t) \/ Join(t) \/ Joined(t) \/ Report(t)
    BY <1>1, <2>1 DEF Test, AfterOnce, IfInitialized, Latch, StopQueue, Join,
                      Joined, Report
  <2>2. CASE Push(t) \/ RealExitProcess(t) \/ Complete(t)
    BY <1>1, <2>2 DEF Push, RealExitProcess, Complete, programVars
  <2>3. CASE Done(t)
    <3>1. CASE hand[t][1] = "construct"
      <4>1. /\ hand[t][2] \in Object
            /\ \A i \in 1 .. Len(handlers) : handlers[i] # hand[t][2]
        BY <2>3, <3>1 DEF Done, ProgramInv, Calling, Object
      <4>2. handlers' = Append(handlers, hand[t][2])
            /\ UNCHANGED <<mode, initOnce>>
        BY <2>3, <3>1 DEF Done
      <4> QED BY <1>3, <4>1, <4>2
    <3>2. CASE hand[t][1] # "construct"
      BY <1>1, <2>3, <3>2 DEF Done
    <3> QED BY <3>1, <3>2
  <2>4. CASE Start(t) \/ Publish(t)
    BY <1>1, <2>4 DEF Start, Publish
  <2>5. CASE Symbolized(t)
    BY <1>1, <2>5 DEF Symbolized
  <2>6. ASSUME NEW i \in DOMAIN Statics, ConstructStatic(t, i)
        PROVE  HandlersInv'
    <3>1. CASE mode # "atexit"
      BY <1>1, <2>6, <3>1 DEF ConstructStatic
    <3>2. CASE mode = "atexit"
      <4> DEFINE o == Statics[i]
      <4>1. /\ handlers' = Append(handlers, o) /\ UNCHANGED <<mode, initOnce>>
        BY <2>6, <3>2 DEF ConstructStatic
      <4>2. /\ o \in Range(Statics) /\ o \in Ahead(place[t])
            /\ place[t] \in InOnce
        BY <2>6, Constructs DEF InOnce
      <4>3. PICK p \in InOnce : Goto(t, p) /\ Ahead(p) = Ahead(place[t]) \ {o}
        BY <2>6, Constructs
      <4> HIDE DEF o
      <4>4. o \in Handler /\ "shutdown" \in Ahead(place[t])
        <5>1. place[t] \notin {"publish"}
          BY <4>2, AheadIs
        <5> QED BY <4>2, <5>1, AheadIs, InOnceIs DEF Handler
      <4>5. Registered(o)
        BY <1>0, <4>1, <4>4, Registering
      <4>6. /\ \A j \in 1 .. Len(handlers) : handlers[j] # o
            /\ \A j \in 1 .. Len(handlers) : handlers[j] # "shutdown"
        BY <4>2, <4>4
      <4>7. \A u \in Thread : place'[u] \in InOnce => u = t
        <5>1. \A u \in Thread : place[u] \in InOnce => u = t
          BY <4>2 DEF OnceInv
        <5> QED BY <5>1 DEF StaysAhead
      <4>8. place'[t] = p
        BY <4>3, OneThreadMoves
      <4>9. \A u \in Thread : place'[u] \in InOnce => o \notin Ahead(place'[u])
        BY <4>3, <4>7, <4>8
      <4>10. initOnce # "none"
        BY <4>2 DEF OnceInv
      <4> QED BY <1>2, <3>2, <4>1, <4>4, <4>5, <4>6, <4>9, <4>10
    <3> QED BY <3>1, <3>2
  <2>7. CASE Register(t)
    <3>1. /\ handlers' = Append(handlers, "shutdown") /\ place[t] = "register"
          /\ UNCHANGED <<mode, initOnce>> /\ Goto(t, "publish")
      BY <2>7 DEF Register
    <3>2. "shutdown" \in Handler /\ "shutdown" \notin Range(Statics)
      BY HandlersDiffer DEF Handler
    <3>3. Registered("shutdown")
      BY <1>0, <3>1, <3>2, Registering
    <3>4. place[t] \in InOnce /\ "shutdown" \in Ahead(place[t])
      BY <3>1, AheadIs, InOnceIs
    <3>5. \A i \in 1 .. Len(handlers) : handlers[i] # "shutdown"
      BY <3>4
    <3>6. \A u \in Thread : place'[u] \in InOnce => u = t
      <4>1. \A u \in Thread : place[u] \in InOnce => u = t
        BY <3>4 DEF OnceInv
      <4> QED BY <4>1 DEF StaysAhead
    <3>7. \A u \in Thread : place'[u] \in InOnce =>
            "shutdown" \notin Ahead(place'[u])
      BY <3>1, <3>6, OneThreadMoves, AheadIs
    <3>8. mode = "atexit" /\ initOnce # "none"
      BY <3>1, <3>4 DEF OnceInv
    <3> QED BY <1>2, <3>1, <3>2, <3>3, <3>5, <3>7, <3>8
  <2> QED BY <1>6, <2>1, <2>2, <2>3, <2>4, <2>5, <2>6, <2>7
          DEF ThreadMoves, LifetimeCall
<1>7. CASE RuntimeInitializer \/ StartMain \/ CallExit \/ ExitReturns
  BY <1>1, <1>7 DEF RuntimeInitializer, StartMain, CallExit, ExitReturns,
                    programVars, sessionVars
<1>8. ASSUME NEW o \in Object, Construct(o)
      PROVE  HandlersInv'
  <2>1. CASE o \in Eager
    BY <1>1, <1>8, <2>1 DEF Construct, sessionVars
  <2>2. CASE o \notin Eager
    <3>1. /\ handlers' = Append(handlers, o) /\ UNCHANGED <<mode, initOnce>>
          /\ o \notin Range(handlers)
      BY <1>8, <2>2 DEF Construct, sessionVars
    <3>2. \A i \in 1 .. Len(handlers) : handlers[i] # o
      BY <1>0, <3>1, InRange
    <3> QED BY <1>3, <3>1, <3>2
  <2> QED BY <2>1, <2>2
<1>9. ASSUME NEW o \in Object, Acquire(o)
      PROVE  HandlersInv'
  BY <1>1, <1>9 DEF Acquire, sessionVars
<1>10. ASSUME NEW t \in Thread, UseMemory(t) \/ CallExitProcess(t)
      PROVE  HandlersInv'
  BY <1>1, <1>10 DEF UseMemory, CallExitProcess, sessionVars
<1>11. CASE Unwind
  BY <1>0, <1>4, <1>11, Popping DEF Unwind
<1>12. QED
  BY <1>5, <1>6, <1>7, <1>8, <1>9, <1>10, <1>11 DEF LifetimeMoves, ProgramMoves

\* What the tracked calls are about.
LEMMA ProgramInvStep ==
  ASSUME LifetimeInv, LifetimeMoves
  PROVE  ProgramInv'
<1> USE DEF LifetimeInv, ProgramInv, Calling, programVars, sessionVars,
            trackerVars
<1> USE InOnceIs
<1>0. /\ Main \in Thread /\ place \in [Thread -> Places]
      /\ hand \in [Thread -> {"use", "initialize", "construct", "acquire",
                              "destroy"} \X (Object \cup Thread)]
      /\ Len(handlers) \in Nat /\ handlers \in Seq(Handler)
  BY LifetimeAssumption, LenProperties DEF LifetimeTypes
<1>1. ASSUME NEW t \in Thread, ThreadMoves(t)
      PROVE  ProgramInv'
  <2> USE DEF Goto
  <2>1. CASE Test(t) \/ AfterOnce(t)
    BY <1>0, <2>1 DEF Test, AfterOnce
  <2>2. CASE IfInitialized(t) \/ Complete(t)
    <3>1. mode = "atexit" => t = Main
      BY <2>2 DEF IfInitialized, Complete, PendingInv, InShutdown
    <3> QED BY <1>0, <2>2, <3>1 DEF IfInitialized, Complete, ShutdownReturns
  <2>3. CASE Latch(t) \/ StopQueue(t) \/ Join(t) \/ Joined(t) \/ Report(t)
    BY <1>0, <2>3 DEF Latch, StopQueue, Join, Joined, Report
  <2>4. CASE Push(t) \/ RealExitProcess(t)
    BY <1>0, <2>4 DEF Push, RealExitProcess
  <2>5. CASE Done(t)
    <3>1. CASE t = Main
      BY <1>0, <2>5, <3>1 DEF Done
    <3>2. CASE t # Main
      <4>1. hand[t][1] = "use"
        BY <2>5, <3>2 DEF Done
      <4>2. /\ place' = [place EXCEPT ![t] = "idle"]
            /\ hand' = [hand EXCEPT ![t] = NoCall] /\ UNCHANGED handlers
        BY <2>5, <4>1 DEF Done
      <4> QED BY <1>0, <3>2, <4>2
    <3> QED BY <3>1, <3>2
  \* A step of doInitialize.
  <2>6. ASSUME NEW p, Goto(t, p), Calling(t), p # "unwind", UNCHANGED hand,
               UNCHANGED handlers \/ \E h \in Handler \ Object : Registered(h)
        PROVE  ProgramInv'
    <3>1. ASSUME NEW o \in Object, \A i \in 1 .. Len(handlers) : handlers[i] # o
          PROVE  \A i \in 1 .. Len(handlers') : handlers'[i] # o
      BY <1>0, <2>6, <3>1 DEF Registered
    <3>2. place'[t] = p /\ \A u \in Thread \ {t} : place'[u] = place[u]
      BY <2>6, OneThreadMoves
    <3>3. /\ hand[Main][1] = "construct" /\ Calling(Main) =>
               hand[Main][2] \in Object
          /\ hand[Main][1] = "destroy" /\ Calling(Main) =>
               hand[Main][2] \in Object
      BY DEF Object
    <3>4. Calling(Main)' => Calling(Main)
      BY <1>0, <2>6, <3>2
    <3>5. ASSUME NEW u \in Thread \ {Main}
          PROVE  (Calling(u)' => hand'[u][1] = "use") /\ place'[u] # "unwind"
      BY <2>6, <3>2
    <3> HIDE DEF Calling
    <3> QED BY <1>0, <2>6, <3>1, <3>3, <3>4, <3>5
  <2>8. CASE EnterOnce(t) \/ Start(t) \/ Publish(t)
    <3>1. PICK p \in {"Tracker", "register", "publish", "done", "push"} :
            Goto(t, p)
      BY <2>8 DEF EnterOnce, Start, Publish, Statics
    <3> QED BY <2>6, <2>8, <3>1, InOnceIs DEF EnterOnce, Start, Publish
  <2>9. ASSUME NEW i \in DOMAIN Statics, ConstructStatic(t, i)
        PROVE  ProgramInv'
    <3>1. Statics[i] \in Handler \ Object /\ place[t] \in InOnce
      BY <2>9, Constructs, HandlersDiffer DEF Handler, InOnce
    <3>2. PICK p \in InOnce : Goto(t, p)
      BY <2>9, Constructs
    <3>3. p # "unwind"
      BY InOnceIs
    <3>4. UNCHANGED handlers \/ Registered(Statics[i])
      BY <1>0, <2>9, <3>1, Registering DEF ConstructStatic
    <3> QED BY <2>6, <2>9, <3>1, <3>2, <3>3, <3>4 DEF ConstructStatic
  <2>10. CASE Register(t)
    <3>1. "shutdown" \in Handler \ Object /\ "register" \in InOnce
      BY HandlersDiffer, InOnceIs DEF Handler
    <3>2. Registered("shutdown")
      BY <1>0, <2>10, <3>1, Registering DEF Register
    <3> QED BY <2>6, <2>10, <3>1, <3>2 DEF Register
  <2>7. CASE Symbolized(t)
    BY <1>0, <2>7 DEF Symbolized
  <2> QED BY <1>1, <2>1, <2>2, <2>3, <2>4, <2>5, <2>7, <2>8, <2>9, <2>10
          DEF ThreadMoves, LifetimeCall
<1>2. CASE RuntimeInitializer \/ StartMain \/ CallExit \/ ExitReturns
  BY <1>0, <1>2 DEF RuntimeInitializer, StartMain, CallExit, ExitReturns, Goto
<1>3. ASSUME NEW o \in Object, Construct(o)
      PROVE  ProgramInv'
  BY <1>0, <1>3, InOnceIs, InRange DEF Construct, Call, Goto, Idle
<1>4. ASSUME NEW o \in Object, Acquire(o)
      PROVE  ProgramInv'
  BY <1>0, <1>4 DEF Acquire, Call, Goto
<1>5. ASSUME NEW t \in Thread, UseMemory(t) \/ CallExitProcess(t)
      PROVE  ProgramInv'
  BY <1>0, <1>5 DEF UseMemory, CallExitProcess, Call, Goto
<1>6. CASE Unwind
  <2> DEFINE h == Last(handlers)
  <2>1. Popped
    BY <1>6, Popping DEF Unwind, LifetimeTypes
  <2>2. CASE h \in holds /\ Call(Main, "destroy", h)
    <3>1. h \in Object
      BY <2>2 DEF LifetimeTypes
    <3>2. \A i \in 1 .. Len(handlers') : handlers'[i] # h
      <4> SUFFICES ASSUME NEW i \in 1 .. Len(handlers'), handlers'[i] = h
                   PROVE  FALSE
        OBVIOUS
      <4>1. /\ i \in 1 .. Len(handlers) /\ Len(handlers) \in 1 .. Len(handlers)
            /\ i # Len(handlers)
        BY <1>0, <2>1 DEF Popped
      <4>2. handlers[i] = handlers[Len(handlers)]
        BY <2>1 DEF Popped
      <4> QED BY <4>1, <4>2 DEF HandlersInv
    <3>3. /\ hand' = [hand EXCEPT ![Main] = <<"destroy", h>>]
          /\ place' = [place EXCEPT ![Main] = "test"]
      BY <2>2 DEF Call, Goto
    <3> HIDE DEF h
    <3> QED BY <1>0, <3>1, <3>2, <3>3
  <2>3. CASE UNCHANGED <<place, hand>>
    BY <1>0, <1>6, <2>3 DEF Unwind
  <2>4. CASE Goto(Main, "shutdown") /\ UNCHANGED hand
    BY <1>0, <1>6, <2>4 DEF Unwind, Goto
  <2> QED BY <1>6, <2>2, <2>3, <2>4 DEF Unwind
<1>7. QED
  BY <1>1, <1>2, <1>3, <1>4, <1>5, <1>6 DEF LifetimeMoves, ProgramMoves

\* The pipeline is started once, and each shutdown stops, joins and reports.
LEMMA OnceInvStep ==
  ASSUME LifetimeInv, LifetimeMoves
  PROVE  OnceInv'
<1> USE DEF LifetimeInv, OnceInv, InShutdown, programVars, sessionVars,
            trackerVars
<1>0. /\ Main \in Thread /\ worker \in {"none", "running", "joined"}
      /\ initialized \in BOOLEAN /\ stopped \in BOOLEAN
      /\ initOnce \in {"none", "running", "done"}
      /\ \A p \in {"idle", "test", "once", "push", "done", "unwind", "shutdown",
                    "kill"} \cup InShutdown : p \notin InOnce
      /\ mode' = mode
  BY LifetimeAssumption, InOnceIs, RacedGrows DEF LifetimeTypes
<1>1. ASSUME NEW t \in Thread, NEW p, Goto(t, p),
             UNCHANGED <<initialized, initOnce, stopped, trackerVars>>,
             p = "push" \/ p = "latch" => initOnce = "done",
             p \notin (InShutdown \ {"latch"}) \cup InOnce,
             place[t] \notin {"stop", "join", "joining", "report"} \cup InOnce
      PROVE  OnceInv'
  <2>1. place'[t] = p /\ \A u \in Thread \ {t} : place'[u] = place[u]
    BY <1>1, OneThreadMoves
  <2>2. p \notin {"register", "publish"}
    BY <1>1, InOnceIs
  <2>3. initOnce = "running" => \E u \in Thread : place'[u] \in InOnce
    BY <1>1, <2>1
  <2> QED BY <1>0, <1>1, <2>1, <2>2, <2>3
\* A step within doInitialize.
<1>10. ASSUME NEW t \in Thread, NEW p \in InOnce, Goto(t, p),
              place[t] \in InOnce,
              UNCHANGED <<initialized, initOnce, stopped, known, reports>>,
              worker' = worker \/ worker' = "running",
              p \in {"register", "publish"} => worker' = "running",
              p = "register" => mode = "atexit"
       PROVE  OnceInv'
  <2>1. place'[t] = p /\ \A u \in Thread \ {t} : place'[u] = place[u]
    BY <1>10, OneThreadMoves
  <2>2. initOnce = "running" /\ \A u \in Thread \ {t} : place[u] \notin InOnce
    BY <1>10
  <2>3. p \notin InShutdown /\ p # "push"
    BY <1>0
  <2>4. \A u \in Thread : place'[u] \in {"register", "publish"} => u = t
    BY <2>1, <2>2, InOnceIs
  <2> QED BY <1>0, <1>10, <2>1, <2>2, <2>3, <2>4
<1>2. ASSUME NEW t \in Thread, ThreadMoves(t)
      PROVE  OnceInv'
  <2> USE <1>0
  <2>1. CASE Test(t) \/ AfterOnce(t)
    <3>1. PICK p \in {"push", "done", "once"} :
            Goto(t, p) /\ (p = "push" => initOnce = "done")
      BY <2>1 DEF Test, AfterOnce
    <3> QED BY <1>1, <2>1, <3>1 DEF Test, AfterOnce
  <2>2. CASE Push(t)
    BY <2>2, OneThreadMoves DEF Push
  <2>3. CASE Done(t)
    <3>1. PICK p \in {"unwind", "idle"} : Goto(t, p)
      BY <2>3 DEF Done
    <3> QED BY <1>1, <2>3, <3>1 DEF Done
  <2>4. CASE IfInitialized(t)
    <3>1. PICK p \in {"latch", "unwind", "kill"} :
            Goto(t, p) /\ (p = "latch" => initOnce = "done")
      BY <2>4 DEF IfInitialized, ShutdownReturns
    <3> QED BY <1>1, <2>4, <3>1 DEF IfInitialized
  <2>5. CASE Latch(t)
    <3>1. Goto(t, "stop") /\ initOnce = "done"
      BY <2>5 DEF Latch
    <3> QED BY <2>5, <3>1, OneThreadMoves DEF Latch
  <2>6. CASE StopQueue(t)
    <3>1. Goto(t, "join") /\ initOnce = "done" /\ ~initialized
      BY <2>6 DEF StopQueue
    <3> QED BY <2>6, <3>1, OneThreadMoves DEF StopQueue
  <2>7. CASE Join(t)
    <3>1. initOnce = "done" /\ ~initialized /\ worker \in {"running", "joined"}
      BY <1>0, <2>7 DEF Join
    <3>2. PICK p \in {"joining", "report"} :
            Goto(t, p) /\ (p = "report" => worker = "joined")
      BY <2>7, <3>1 DEF Join
    <3> QED BY <2>7, <3>1, <3>2, OneThreadMoves DEF Join
  <2>8. CASE Joined(t)
    <3>1. /\ Goto(t, "report") /\ initOnce = "done" /\ ~initialized
          /\ worker' = "joined"
          /\ UNCHANGED <<initialized, initOnce, stopped, known, reports>>
      BY <2>8 DEF Joined
    <3>2. /\ place'[t] = "report"
          /\ \A u \in Thread \ {t} : place'[u] = place[u]
      BY <3>1, OneThreadMoves
    <3>3. \A u \in Thread : place'[u] \notin InOnce
      BY <3>1, <3>2
    <3> QED BY <3>1, <3>2, <3>3, InOnceIs
  <2>9. CASE Report(t)
    <3>1. Goto(t, "symbolize") /\ initOnce = "done" /\ ~initialized /\ worker = "joined"
          /\ reports' # {}
      BY <2>9 DEF Report
    <3> QED BY <2>9, <3>1, OneThreadMoves DEF Report
  <2>10. CASE RealExitProcess(t)
    BY <2>10 DEF RealExitProcess
  <2>11. CASE Complete(t)
    <3>1. PICK p \in {"unwind", "kill"} : Goto(t, p)
      BY <2>11 DEF Complete, ShutdownReturns
    <3> QED BY <1>1, <2>11, <3>1 DEF Complete
  <2>12. CASE EnterOnce(t)
    <3>1. /\ Goto(t, "Tracker") /\ initOnce = "none" /\ initOnce' = "running"
          /\ UNCHANGED <<initialized, stopped, trackerVars>>
      BY <2>12 DEF EnterOnce, Statics
    <3>2. \A u \in Thread : place[u] \notin InOnce
      BY <3>1
    <3>3. /\ place'[t] = "Tracker" /\ "Tracker" \in InOnce
          /\ \A u \in Thread \ {t} : place'[u] = place[u]
      BY <3>1, OneThreadMoves, InOnceIs
    <3>4. \A u \in Thread : place'[u] \notin {"register", "publish", "push"}
                                            \cup InShutdown
      BY <3>1, <3>2, <3>3, InOnceIs
    <3> QED BY <3>1, <3>2, <3>3, <3>4
  <2>14. CASE Start(t)
    <3>1. PICK p \in {"register", "publish"} : Goto(t, p)
      BY <2>14 DEF Start
    <3> QED BY <1>10, <2>14, <3>1, InOnceIs DEF Start
  <2>15. CASE Register(t)
    BY <1>10, <2>15, InOnceIs DEF Register
  <2>16. ASSUME NEW i \in DOMAIN Statics, ConstructStatic(t, i)
         PROVE  OnceInv'
    <3>1. PICK p \in InOnce \ {"register", "publish"} : Goto(t, p)
      BY <2>16, Constructs
    <3>2. place[t] \in InOnce
      BY <2>16, Constructs DEF InOnce
    <3>3. UNCHANGED <<initialized, initOnce, stopped, worker, known, reports>>
      BY <2>16 DEF ConstructStatic
    <3> QED BY <1>10, <3>1, <3>2, <3>3
  <2>17. CASE Publish(t)
    <3>1. PICK p \in {"done", "push"} : Goto(t, p)
      BY <2>17 DEF Publish
    <3>2. /\ place[t] = "publish" /\ place[t] \in InOnce
          /\ initialized' = TRUE /\ initOnce' = "done"
          /\ UNCHANGED <<stopped, trackerVars>>
      BY <2>17, InOnceIs DEF Publish
    <3>3. initOnce = "running" /\ worker = "running" /\ ~stopped
      BY <3>2
    <3>4. \A u \in Thread : place'[u] \notin InOnce \cup InShutdown
      BY <3>1, <3>2, <3>3, OneThreadMoves
    <3> QED BY <3>2, <3>3, <3>4, InOnceIs
  <2>13. CASE Symbolized(t)
    BY <2>13, OneThreadMoves DEF Symbolized
  <2> QED BY <1>2, <2>1, <2>2, <2>3, <2>4, <2>5, <2>6, <2>7, <2>8, <2>9, <2>10,
             <2>11, <2>12, <2>13, <2>14, <2>15, <2>16, <2>17
          DEF ThreadMoves, LifetimeCall
<1>3. CASE RuntimeInitializer \/ CallExit
  <2>1. PICK p \in {"done", "once", "unwind"} : Goto(Main, p)
    BY <1>3 DEF RuntimeInitializer, CallExit
  <2> QED BY <1>0, <1>1, <1>3, <2>1 DEF RuntimeInitializer, CallExit, Idle
<1>4. CASE StartMain
  BY <1>4 DEF StartMain
<1>5. CASE ExitReturns
  <2>1. CASE Goto(Main, "shutdown")
    BY <1>0, <1>1, <1>5, <2>1 DEF ExitReturns
  <2>2. CASE UNCHANGED place
    BY <1>5, <2>2 DEF ExitReturns
  <2> QED BY <1>5, <2>1, <2>2 DEF ExitReturns
<1>6. ASSUME NEW o \in Object, Construct(o) \/ Acquire(o)
      PROVE  OnceInv'
  <2>1. CASE Goto(Main, "test")
    BY <1>0, <1>1, <1>6, <2>1 DEF Construct, Acquire, Idle
  <2>2. CASE UNCHANGED place
    BY <1>6, <2>2 DEF Construct, Acquire
  <2> QED BY <1>6, <2>1, <2>2 DEF Construct, Acquire, Call
<1>7. ASSUME NEW t \in Thread, UseMemory(t) \/ CallExitProcess(t)
      PROVE  OnceInv'
  <2>1. PICK p \in {"test", "shutdown"} : Goto(t, p)
    BY <1>7 DEF UseMemory, CallExitProcess, Call
  <2>2. UNCHANGED <<initialized, initOnce, stopped, trackerVars>> /\ Idle(t)
    BY <1>7 DEF UseMemory, CallExitProcess
  <2> QED BY <1>0, <1>1, <2>1, <2>2 DEF Idle
<1>8. CASE Unwind
  <2>1. CASE UNCHANGED place
    BY <1>8, <2>1 DEF Unwind
  <2>2. ASSUME NEW p \in {"test", "shutdown"}, Goto(Main, p)
        PROVE  OnceInv'
    BY <1>0, <1>1, <1>8, <2>2 DEF Unwind
  <2> QED BY <1>8, <2>1, <2>2 DEF Unwind, Call
<1>9. QED
  BY <1>2, <1>3, <1>4, <1>5, <1>6, <1>7, <1>8 DEF LifetimeMoves, ProgramMoves

\* What only that can bring about.
LEMMA RaceInvStep ==
  ASSUME LifetimeInv, LifetimeMoves
  PROVE  RaceInv'
<1> USE DEF LifetimeInv, RaceInv, programVars, sessionVars, trackerVars
<1>0. /\ Main \in Thread /\ worker \in {"none", "running", "joined"}
      /\ initOnce \in {"none", "running", "done"}
      /\ Overtaken => Overtaken'
  BY LifetimeAssumption, RacedGrows DEF LifetimeTypes
<1>9. ASSUME NEW t \in Thread, place[t] = "kill", initOnce = "running"
      PROVE  Overtaken
  BY <1>9 DEF OnceInv
<1>1. ASSUME NEW t \in Thread, NEW p, Goto(t, p),
             UNCHANGED <<initOnce, trackerVars>>,
             p \notin InShutdown \cup {"kill"}
      PROVE  RaceInv'
  BY <1>0, <1>1, OneThreadMoves DEF LifetimeTypes, InShutdown
<1>2. ASSUME NEW t \in Thread, ThreadMoves(t)
      PROVE  RaceInv'
  <2> USE <1>0
  <2>1. CASE Test(t) \/ AfterOnce(t) \/ Done(t)
    <3>1. PICK p \in {"push", "done", "once", "unwind", "idle"} : Goto(t, p)
      BY <2>1 DEF Test, AfterOnce, Done
    <3> QED BY <1>1, <2>1, <3>1 DEF Test, AfterOnce, Done, InShutdown
  <2>2. CASE Push(t)
    <3>1. Goto(t, "done") /\ UNCHANGED <<worker, reports, initOnce>>
      BY <2>2 DEF Push
    <3> QED BY <3>1, OneThreadMoves DEF InShutdown
  <2>3. CASE IfInitialized(t)
    <3>1. Overlaps(t) \/ (~initialized /\ initOnce = "running") => Overtaken'
      BY <2>3 DEF IfInitialized, Overtaken, LateStart
    <3>2. place[t] = "shutdown" /\ UNCHANGED <<initOnce, trackerVars>>
      BY <2>3 DEF IfInitialized
    <3>3. CASE initialized
      <4>1. Goto(t, "latch")
        BY <2>3, <3>3 DEF IfInitialized
      <4> QED BY <3>1, <3>2, <4>1, OneThreadMoves DEF Overlaps, InShutdown
    <3>4. CASE ~initialized
      <4>1. PICK p \in {"unwind", "kill"} : Goto(t, p)
        BY <2>3, <3>4 DEF IfInitialized, ShutdownReturns
      <4>2. \/ initOnce \in {"none", "running"} \/ Overlaps(t)
            \/ worker = "joined" /\ reports # {}
        BY <3>2, <3>4 DEF OnceInv, Overlaps, InShutdown
      <4> QED BY <3>1, <3>2, <3>4, <4>1, <4>2, OneThreadMoves DEF InShutdown
    <3> QED BY <3>3, <3>4
  <2>4. CASE Latch(t)
    <3>1. /\ Goto(t, "stop") /\ place[t] = "latch"
          /\ UNCHANGED <<initOnce, trackerVars>>
      BY <2>4 DEF Latch
    <3> QED BY <3>1, OneThreadMoves DEF InShutdown
  <2>5. CASE StopQueue(t)
    <3>1. /\ Goto(t, "join") /\ place[t] = "stop"
          /\ UNCHANGED <<initOnce, trackerVars>>
      BY <2>5 DEF StopQueue
    <3> QED BY <3>1, OneThreadMoves DEF InShutdown
  <2>6. CASE Join(t)
    <3>1. PICK p \in {"joining", "report"} :
            Goto(t, p) /\ (p = "joining" => worker = "running")
      BY <2>6 DEF Join
    <3>2. place[t] = "join" /\ UNCHANGED <<initOnce, trackerVars>>
      BY <2>6 DEF Join
    <3> QED BY <3>1, <3>2, OneThreadMoves DEF InShutdown
  <2>7. CASE Joined(t)
    <3>1. /\ Goto(t, "report") /\ place[t] = "joining" /\ worker' = "joined"
          /\ UNCHANGED <<reports, initOnce>>
      BY <2>7 DEF Joined
    <3>2. \A u \in Thread \ {t} : place[u] = "joining" => Overtaken
      BY <3>1 DEF InShutdown
    <3> QED BY <3>1, <3>2, OneThreadMoves DEF InShutdown
  <2>8. CASE Report(t)
    <3>1. /\ Goto(t, "symbolize") /\ place[t] = "report" /\ reports' # {}
          /\ UNCHANGED <<worker, initOnce>>
      BY <2>8 DEF Report
    <3> QED BY <3>1, OneThreadMoves DEF InShutdown
  <2>9. CASE RealExitProcess(t)
    BY <2>9 DEF RealExitProcess
  <2>10. CASE Complete(t)
    <3>1. PICK p \in {"unwind", "kill"} : Goto(t, p)
      BY <2>10 DEF Complete, ShutdownReturns
    <3>2. place[t] = "complete" /\ UNCHANGED <<initOnce, trackerVars>>
      BY <2>10 DEF Complete
    <3>3. worker = "joined" /\ reports # {}
      BY <3>2 DEF OnceInv
    <3> QED BY <3>1, <3>2, <3>3, OneThreadMoves DEF InShutdown
  <2>11. CASE EnterOnce(t)
    <3>1. Goto(t, "Tracker") /\ UNCHANGED trackerVars
      BY <2>11 DEF EnterOnce, Statics
    <3>2. \A u \in Thread : place[u] = "kill" => Overtaken'
      BY <2>11 DEF EnterOnce, Overtaken, LateStart
    <3> QED BY <3>1, <3>2, OneThreadMoves DEF InShutdown
  <2>13. ASSUME NEW i \in DOMAIN Statics, ConstructStatic(t, i)
         PROVE  RaceInv'
    <3>1. PICK p \in InOnce : Goto(t, p)
      BY <2>13, Constructs
    <3> QED BY <1>1, <2>13, <3>1, InOnceIs DEF ConstructStatic, InShutdown
  <2>14. CASE Register(t)
    BY <1>1, <2>14 DEF Register, InShutdown
  \* Nobody has joined the worker yet.
  <2>15. CASE Start(t) \/ Publish(t)
    <3>1. PICK p \in {"register", "publish", "done", "push"} : Goto(t, p)
      BY <2>15 DEF Start, Publish
    <3>2. initOnce = "running"
      BY <2>15, InOnceIs DEF Start, Publish, OnceInv
    <3>3. \A u \in Thread : /\ place[u] \notin InShutdown
                            /\ place[u] = "kill" => Overtaken
      BY <1>9, <3>2 DEF OnceInv
    <3>4. \A u \in Thread : /\ place'[u] \notin InShutdown
                            /\ place'[u] = "kill" => Overtaken'
      BY <3>1, <3>3, OneThreadMoves DEF InShutdown
    <3>5. "joining" \in InShutdown
      BY DEF InShutdown
    <3>6. /\ \A u \in Thread : place'[u] # "joining"
          /\ \A u \in Thread : place'[u] = "kill" => Overtaken'
          /\ \A u \in Thread : place'[u] \notin InShutdown
      BY <3>4, <3>5
    <3> QED BY ONLY <3>6 DEF RaceInv
  <2>12. CASE Symbolized(t)
    BY <2>12, OneThreadMoves DEF Symbolized, InShutdown
  <2> QED BY <1>2, <2>1, <2>2, <2>3, <2>4, <2>5, <2>6, <2>7, <2>8, <2>9, <2>10,
             <2>11, <2>12, <2>13, <2>14, <2>15
          DEF ThreadMoves, LifetimeCall
<1>3. CASE RuntimeInitializer \/ CallExit
  <2>1. PICK p \in {"done", "once", "unwind"} : Goto(Main, p)
    BY <1>3 DEF RuntimeInitializer, CallExit
  <2> QED BY <1>0, <1>1, <1>3, <2>1 DEF RuntimeInitializer, CallExit, InShutdown
<1>4. CASE StartMain
  BY <1>0, <1>4 DEF StartMain
<1>5. CASE ExitReturns
  <2>1. CASE Goto(Main, "shutdown")
    BY <1>0, <1>1, <1>5, <2>1 DEF ExitReturns, InShutdown
  <2>2. CASE UNCHANGED place
    BY <1>0, <1>5, <2>2 DEF ExitReturns
  <2> QED BY <1>5, <2>1, <2>2 DEF ExitReturns
<1>6. ASSUME NEW o \in Object, Construct(o) \/ Acquire(o)
      PROVE  RaceInv'
  <2>1. CASE Goto(Main, "test")
    BY <1>0, <1>1, <1>6, <2>1 DEF Construct, Acquire, InShutdown
  <2>2. CASE UNCHANGED place
    BY <1>0, <1>6, <2>2 DEF Construct, Acquire
  <2> QED BY <1>6, <2>1, <2>2 DEF Construct, Acquire, Call
<1>7. ASSUME NEW t \in Thread, UseMemory(t) \/ CallExitProcess(t)
      PROVE  RaceInv'
  <2>1. PICK p \in {"test", "shutdown"} : Goto(t, p)
    BY <1>7 DEF UseMemory, CallExitProcess, Call
  <2> QED BY <1>1, <1>7, <2>1 DEF UseMemory, CallExitProcess, InShutdown
<1>8. CASE Unwind
  <2>1. CASE UNCHANGED place
    BY <1>0, <1>8, <2>1 DEF Unwind
  <2>2. ASSUME NEW p \in {"test", "shutdown"}, Goto(Main, p)
        PROVE  RaceInv'
    BY <1>0, <1>1, <1>8, <2>2 DEF Unwind, InShutdown
  <2> QED BY <1>8, <2>1, <2>2 DEF Unwind, Call
<1>11. QED
  BY <1>2, <1>3, <1>4, <1>5, <1>6, <1>7, <1>8 DEF LifetimeMoves, ProgramMoves

\* In exit(), shutdown() has run when a static of the analyzer is destroyed, if
\* exit() has not overtaken doInitialize.
LEMMA StaticsOutliveTracking ==
  ASSUME LifetimeInv, place[Main] = "unwind", Popped,
         Last(handlers) \in Range(Statics),
         initOnce # "running", "lateStart" \notin raced
  PROVE  /\ mode = "atexit" /\ ~initialized
         /\ worker = "joined" /\ reports # {}
         /\ \A t \in Thread : place[t] \notin InShutdown \cup InOnce
<1> DEFINE n == Len(handlers)
<1>1. n \in 1 .. n /\ handlers[n] \in Range(Statics) /\ Main \in Thread
  BY LifetimeAssumption DEF Popped
<1>2. mode = "atexit" /\ initOnce = "done"
  BY <1>1, HandlersDiffer DEF LifetimeInv, HandlersInv, LifetimeTypes
<1>3. ~Pending
  <2> SUFFICES ASSUME NEW j \in 1 .. n, handlers[j] = "shutdown"
               PROVE  FALSE
    BY DEF Pending
  <2>1. n < j
    BY <1>1 DEF LifetimeInv, HandlersInv
  <2> QED BY <1>1, <2>1
<1> HIDE DEF n
<1>4. ~initialized
  BY <1>2, <1>3 DEF LifetimeInv, PendingInv, Armed
<1>5. \A t \in Thread : place[t] \notin InShutdown
  BY <1>1, <1>2 DEF LifetimeInv, PendingInv, InShutdown
<1>6. worker = "joined" /\ reports # {}
  BY <1>2, <1>4, <1>5 DEF LifetimeInv, OnceInv, InShutdown
<1>7. \A t \in Thread : place[t] \notin InOnce
  BY <1>2 DEF LifetimeInv, OnceInv
<1>8. QED
  BY <1>2, <1>4, <1>5, <1>6, <1>7

\* Where a thread needs all statics.
Needs(p) == p \in InShutdown \ {"symbolize", "complete"}

\* The statics are there while they are needed.
LEMMA AliveInvStep ==
  ASSUME LifetimeInv, LifetimeMoves
  PROVE  AliveInv'
<1> SUFFICES ASSUME "lateStart" \notin raced',
                    mode' = "atexit" \/ ~Over'
             PROVE  /\ \A t \in Thread : place'[t] \in InOnce =>
                         Range(Statics) \ Ahead(place'[t]) \subseteq alive'
                    /\ initialized' \/ (\E t \in Thread : Needs(place'[t]))
                         => Range(Statics) \subseteq alive'
  BY DEF AliveInv, Needs
<1> USE DEF programVars, sessionVars, trackerVars
<1>0. /\ \A t \in Thread : place[t] \in InOnce =>
           Range(Statics) \ Ahead(place[t]) \subseteq alive
      /\ initialized \/ (\E t \in Thread : Needs(place[t]))
           => Range(Statics) \subseteq alive
      /\ Main \in Thread /\ LifetimeTypes
      /\ \A p \in {"idle", "test", "once", "push", "done", "unwind", "shutdown",
                   "kill"} : p \notin InOnce /\ ~Needs(p)
      /\ \A p \in InShutdown : p \notin InOnce
      /\ \A p \in InOnce : ~Needs(p)
  BY RacedGrows, LifetimeAssumption, InOnceIs
     DEF LifetimeInv, LifetimeMoves, AliveInv, Needs, InShutdown
\* A step after which no more is needed than before.
<1>1. ASSUME NEW t \in Thread, NEW p, Goto(t, p), UNCHANGED alive,
             p \notin InOnce, initialized' => initialized,
             Needs(p) => initialized \/ Needs(place[t])
      PROVE  /\ \A u \in Thread : place'[u] \in InOnce =>
                  Range(Statics) \ Ahead(place'[u]) \subseteq alive'
             /\ initialized' \/ (\E u \in Thread : Needs(place'[u]))
                  => Range(Statics) \subseteq alive'
  <2>1. place'[t] = p /\ \A u \in Thread \ {t} : place'[u] = place[u]
    BY <1>0, <1>1, OneThreadMoves
  <2> QED BY <1>0, <1>1, <2>1
\* A step into doInitialize, or within.
<1>2. ASSUME NEW t \in Thread, NEW p \in InOnce, Goto(t, p),
             alive \subseteq alive', initialized' = initialized,
             Range(Statics) \ Ahead(p) \subseteq alive'
      PROVE  /\ \A u \in Thread : place'[u] \in InOnce =>
                  Range(Statics) \ Ahead(place'[u]) \subseteq alive'
             /\ initialized' \/ (\E u \in Thread : Needs(place'[u]))
                  => Range(Statics) \subseteq alive'
  <2>1. place'[t] = p /\ \A u \in Thread \ {t} : place'[u] = place[u]
    BY <1>0, <1>2, OneThreadMoves
  <2>2. ~Needs(p)
    BY <1>0
  <2>3. \A u \in Thread : place'[u] \in InOnce =>
          Range(Statics) \ Ahead(place'[u]) \subseteq alive'
    BY <1>0, <1>2, <2>1
  <2>4. initialized' \/ (\E u \in Thread : Needs(place'[u])) =>
          initialized \/ (\E u \in Thread : Needs(place[u]))
    BY <1>2, <2>1, <2>2
  <2> QED BY <1>0, <1>2, <2>3, <2>4
<1>3. ASSUME UNCHANGED <<place, alive, initialized>>
      PROVE  /\ \A t \in Thread : place'[t] \in InOnce =>
                  Range(Statics) \ Ahead(place'[t]) \subseteq alive'
             /\ initialized' \/ (\E t \in Thread : Needs(place'[t]))
                  => Range(Statics) \subseteq alive'
  BY <1>0, <1>3
<1> DEFINE Goal == /\ \A t \in Thread : place'[t] \in InOnce =>
                        Range(Statics) \ Ahead(place'[t]) \subseteq alive'
                   /\ initialized' \/ (\E t \in Thread : Needs(place'[t]))
                        => Range(Statics) \subseteq alive'
<1> HIDE DEF Goal
<1>4. ASSUME NEW t \in Thread, ThreadMoves(t)
      PROVE  Goal
  <2> SUFFICES Goal
    OBVIOUS
  <2>1. CASE Test(t) \/ AfterOnce(t) \/ Push(t) \/ Done(t)
    <3>1. PICK p \in {"push", "done", "once", "unwind", "idle"} : Goto(t, p)
      BY <2>1 DEF Test, AfterOnce, Push, Done
    <3>2. UNCHANGED <<alive, initialized>>
      BY <2>1 DEF Test, AfterOnce, Push, Done
    <3> QED BY <1>0, <1>1, <3>1, <3>2 DEF Goal
  <2>2. CASE IfInitialized(t)
    <3>1. PICK p \in {"latch", "unwind", "kill"} :
            Goto(t, p) /\ (p = "latch" => initialized)
      BY <2>2 DEF IfInitialized, ShutdownReturns
    <3>2. UNCHANGED <<alive, initialized>> /\ "latch" \notin InOnce
      BY <1>0, <2>2 DEF IfInitialized, InShutdown
    <3> QED BY <1>0, <1>1, <3>1, <3>2 DEF Goal
  <2>3. CASE Latch(t) \/ StopQueue(t) \/ Join(t) \/ Joined(t)
    <3>1. PICK p \in {"stop", "join", "joining", "report"} : Goto(t, p)
      BY <2>3 DEF Latch, StopQueue, Join, Joined
    <3>2. UNCHANGED alive /\ Needs(place[t]) /\ (initialized' => initialized)
      BY <2>3 DEF Latch, StopQueue, Join, Joined, Needs, InShutdown
    <3>3. p \notin InOnce
      BY <1>0, <3>1 DEF InShutdown
    <3> QED BY <1>1, <3>1, <3>2, <3>3 DEF Goal
  <2>4. CASE Report(t) \/ Symbolized(t) \/ Complete(t)
    <3>1. PICK p \in {"symbolize", "complete", "unwind", "kill"} : Goto(t, p)
      BY <2>4 DEF Report, Symbolized, Complete, ShutdownReturns
    <3>2. UNCHANGED <<alive, initialized>>
      BY <2>4 DEF Report, Symbolized, Complete
    <3>3. p \notin InOnce /\ ~Needs(p)
      BY <1>0, <3>1 DEF InShutdown, Needs
    <3> QED BY <1>1, <3>1, <3>2, <3>3 DEF Goal
  <2>5. CASE RealExitProcess(t)
    <3>1. mode # "atexit"
      BY <2>5 DEF RealExitProcess, LifetimeInv, PendingInv
    <3> QED BY <2>5, <3>1 DEF RealExitProcess, Over
  <2>6. CASE EnterOnce(t)
    <3>1. Range(Statics) \ Ahead("Tracker") = {} /\ "Tracker" \in InOnce
      BY AheadIs, InOnceIs, StaticsAre
    <3>2. Goto(t, "Tracker") /\ UNCHANGED <<alive, initialized>>
      BY <2>6 DEF EnterOnce, Statics
    <3> QED BY <1>2, <3>1, <3>2 DEF Goal
  <2>7. ASSUME NEW i \in DOMAIN Statics, ConstructStatic(t, i)
        PROVE  Goal
    <3>1. PICK p \in InOnce : /\ Goto(t, p)
                              /\ Ahead(p) = Ahead(place[t]) \ {Statics[i]}
      BY <2>7, Constructs
    <3>2. /\ alive' = alive \cup {Statics[i]} /\ UNCHANGED initialized
          /\ place[t] \in InOnce
      BY <2>7, Constructs DEF ConstructStatic, InOnce
    <3>3. Range(Statics) \ Ahead(p) \subseteq alive'
      BY <1>0, <3>1, <3>2
    <3> QED BY <1>2, <3>1, <3>2, <3>3 DEF Goal
  <2>8. CASE Start(t) \/ Register(t)
    <3>1. PICK p \in {"register", "publish"} : Goto(t, p)
      BY <2>8 DEF Start, Register
    <3>2. UNCHANGED <<alive, initialized>> /\ place[t] \in {"start", "register"}
      BY <2>8 DEF Start, Register
    <3>3. Range(Statics) \subseteq alive /\ p \in InOnce
      BY <1>0, <3>1, <3>2, AheadIs, InOnceIs, HandlersDiffer
    <3> QED BY <1>2, <3>1, <3>2, <3>3 DEF Goal
  <2>9. CASE Publish(t)
    <3>1. UNCHANGED alive /\ place[t] = "publish"
      BY <2>9 DEF Publish
    <3>2. Range(Statics) \subseteq alive
      BY <1>0, <3>1, AheadIs, InOnceIs
    <3> QED BY <3>1, <3>2 DEF Goal
  <2> QED BY <1>4, <2>1, <2>2, <2>3, <2>4, <2>5, <2>6, <2>7, <2>8, <2>9
          DEF ThreadMoves, LifetimeCall
<1>5. CASE ProgramMoves
  <2> SUFFICES Goal
    BY DEF Goal
  <2>1. UNCHANGED <<alive, initialized>>
    BY <1>5 DEF ProgramMoves, RuntimeInitializer, StartMain, CallExit,
       Construct, Acquire, UseMemory, CallExitProcess
  <2>2. \/ UNCHANGED place
        \/ \E t \in Thread, p \in {"once", "done", "unwind", "test",
                                   "shutdown"} : Goto(t, p)
    BY <1>0, <1>5 DEF ProgramMoves, RuntimeInitializer, StartMain, CallExit,
       Construct, Acquire, UseMemory, CallExitProcess, Call
  <2> QED BY <1>0, <1>1, <1>3, <2>1, <2>2 DEF Goal
<1>6. CASE ExitReturns
  <2>1. /\ UNCHANGED <<alive, initialized>>
        /\ UNCHANGED place \/ Goto(Main, "shutdown")
    BY <1>6 DEF ExitReturns
  <2> QED BY <1>0, <1>1, <1>3, <2>1
<1>7. CASE Unwind
  <2>1. Popped /\ UNCHANGED initialized
    BY <1>0, <1>7, Popping DEF Unwind, LifetimeTypes
  <2>2. \/ UNCHANGED alive /\ UNCHANGED place
        \/ UNCHANGED alive /\ \E p \in {"test", "shutdown"} : Goto(Main, p)
        \/ UNCHANGED place /\ Last(handlers) \in Range(Statics)
    BY <1>7 DEF Unwind, Call
  <2>3. CASE UNCHANGED place /\ Last(handlers) \in Range(Statics)
    <3>1. initOnce # "running" /\ "lateStart" \notin raced
          /\ place[Main] = "unwind"
      BY <1>7, <2>3 DEF Unwind, LateStart
    <3>2. ~initialized /\ \A t \in Thread : place[t] \notin InShutdown \cup InOnce
      BY <2>1, <2>3, <3>1, StaticsOutliveTracking
    <3> QED BY <2>1, <2>3, <3>2 DEF Needs
  <2> QED BY <1>0, <1>1, <1>3, <2>1, <2>2, <2>3
<1>8. QED
  BY <1>4, <1>5, <1>6, <1>7 DEF LifetimeMoves, Goal

\* A static that is used and was destroyed was destroyed too early.
LEMMA LateUse ==
  ASSUME LifetimeInv, LifetimeMoves, NEW t \in Thread,
         place[t] = "start" \/ Needs(place[t]),
         ~(Range(Statics) \subseteq alive)
  PROVE  raced' # {}
<1>1. place[t] = "start" =>
        place[t] \in InOnce /\ Range(Statics) \ Ahead(place[t]) = Range(Statics)
  BY AheadIs, InOnceIs, HandlersDiffer
<1>2. "lateStart" \in raced
  BY <1>1 DEF LifetimeInv, AliveInv, LifetimeMoves, Needs
<1>3. QED
  BY <1>2, RacedGrows

\* A process ends with its report.
LEMMA ReportStep ==
  ASSUME LifetimeInv, LifetimeMoves
  PROVE  ReportUnlessRaced'
<1> USE DEF LifetimeInv, ReportUnlessRaced, programVars, sessionVars,
            trackerVars
<1>0. /\ ~Over /\ phase # "ended" /\ phase # "aborted"
      /\ raced # {} => raced' # {}
      /\ Overtaken => raced # {}
  BY RacedGrows DEF LifetimeMoves, Over, Overtaken
<1>1. ASSUME UNCHANGED phase
      PROVE  ReportUnlessRaced'
  BY <1>0, <1>1
<1>9. ASSUME phase' \in {phase, "aborted"}, phase' = "aborted" => raced' # {}
      PROVE  ReportUnlessRaced'
  BY <1>0, <1>9
<1>2. ASSUME NEW t \in Thread, ThreadMoves(t)
      PROVE  ReportUnlessRaced'
  <2>1. CASE Test(t) \/ AfterOnce(t) \/ Done(t) \/ IfInitialized(t) \/ Latch(t)
    BY <1>1, <2>1 DEF Test, AfterOnce, Done, IfInitialized, Latch
  <2>2. CASE Join(t) \/ Complete(t) \/ Symbolized(t)
    BY <1>1, <2>2 DEF Join, Complete, Symbolized
  <2>3. CASE Push(t)
    <3>1. /\ phase' \in {phase, "aborted"}
          /\ phase' = "aborted" => "push" \in raced'
      BY <1>0, <2>3 DEF Push, Uses
    <3> QED BY <1>9, <3>1
  <2>4. CASE Joined(t)
    <3>1. (\E u \in Thread \ {t} : place[u] = "joining") \/ worker = "joined"
            => Overtaken
      BY <2>4 DEF Joined, RaceInv, InShutdown
    <3>2. /\ phase' \in {phase, "aborted"}
          /\ phase' = "aborted" => Overtaken
      BY <1>0, <2>4, <3>1 DEF Joined
    <3> QED BY <1>0, <1>9, <3>2
  <2>5. CASE RealExitProcess(t)
    <3>1. \/ worker = "none" \/ Overtaken
          \/ worker = "joined" /\ reports # {}
      BY <2>5 DEF RealExitProcess, RaceInv, OnceInv
    <3>2. /\ phase' = IF worker = "running" THEN "aborted" ELSE "ended"
          /\ UNCHANGED <<trackerVars, raced>>
      BY <2>5 DEF RealExitProcess
    <3>3. Overtaken' <=> Overtaken
      BY <3>2 DEF Overtaken
    <3> QED BY <1>0, <3>1, <3>2, <3>3 DEF Overtaken
  <2>6. CASE StopQueue(t) \/ Report(t) \/ Start(t)
    <3>1. place[t] = "start" \/ Needs(place[t])
      BY <2>6 DEF StopQueue, Report, Start, Needs, InShutdown
    <3>2. /\ phase' \in {phase, "aborted"}
          /\ phase' # phase => ~(Range(Statics) \subseteq alive)
      BY <2>6, StaticsAre DEF StopQueue, Report, Start, Uses
    <3> QED BY <1>0, <1>9, <3>1, <3>2, LateUse
  <2>7. CASE EnterOnce(t) \/ Register(t) \/ Publish(t)
    BY <1>1, <2>7 DEF EnterOnce, Register, Publish
  <2>8. ASSUME NEW i \in DOMAIN Statics, ConstructStatic(t, i)
        PROVE  ReportUnlessRaced'
    BY <1>1, <2>8 DEF ConstructStatic
  <2> QED BY <1>2, <2>1, <2>2, <2>3, <2>4, <2>5, <2>6, <2>7, <2>8
          DEF ThreadMoves, LifetimeCall
<1>3. CASE ProgramMoves
  BY <1>0, <1>3 DEF ProgramMoves, RuntimeInitializer, StartMain, CallExit,
                    Construct, Acquire, UseMemory, CallExitProcess
<1>4. CASE ExitReturns
  <2>1. CASE mode = "atexit"
    <3>1. place[Main] = "unwind" /\ Main \in Thread /\ ~Pending
      BY <1>4, LifetimeAssumption DEF ExitReturns, Pending
    <3>2. \A t \in Thread : place[t] \notin InShutdown
      BY <2>1, <3>1 DEF PendingInv, InShutdown
    <3>3. /\ phase' = "ended" /\ UNCHANGED trackerVars
          /\ initOnce = "running" => Overtaken'
      BY <1>4, <2>1 DEF ExitReturns, Overtaken, LateStart
    <3>4. CASE initOnce = "done" /\ "lateStart" \notin raced
      <4>1. ~initialized
        BY <2>1, <3>1, <3>4 DEF PendingInv, Armed
      <4>2. reports # {}
        BY <3>2, <3>4, <4>1 DEF OnceInv, InShutdown
      <4> QED BY <3>3, <4>2
    <3>5. CASE "lateStart" \in raced
      <4>1. Overtaken'
        BY <3>5, RacedGrows DEF Overtaken
      <4> QED BY <3>3, <4>1 DEF Overtaken
    <3>6. CASE initOnce = "running"
      BY <3>3, <3>6 DEF Overtaken
    <3>7. CASE initOnce = "none"
      BY <3>3, <3>7 DEF OnceInv
    <3> QED BY <3>4, <3>5, <3>6, <3>7 DEF LifetimeTypes
  <2>2. CASE mode # "atexit"
    BY <1>1, <1>4, <2>2 DEF ExitReturns
  <2> QED BY <2>1, <2>2
<1>5. CASE Unwind
  <2>1. Popped /\ place[Main] = "unwind"
    BY <1>5, Popping DEF Unwind, LifetimeTypes
  <2>2. CASE UNCHANGED phase
    BY <1>1, <2>2
  <2>3. CASE Last(handlers) \in Range(Statics) /\ Destroyed(Last(handlers))
    <3>1. initOnce = "running" => raced' # {}
      BY <1>5, <2>3 DEF Unwind, LateStart
    <3>2. "lateStart" \in raced => raced' # {}
      BY <1>0
    <3>3. initOnce # "running" /\ "lateStart" \notin raced => worker = "joined"
      BY <2>1, <2>3, StaticsOutliveTracking
    <3>4. /\ phase' \in {phase, "aborted"}
          /\ phase' = "aborted" => worker = "running"
      BY <1>0, <2>3 DEF Destroyed
    <3> QED BY <1>9, <3>1, <3>2, <3>3, <3>4
  <2> QED BY <1>5, <2>2, <2>3 DEF Unwind
<1>6. QED
  BY <1>2, <1>3, <1>4, <1>5 DEF LifetimeMoves

\* shutdown() is registered at the end of doInitialize.
LEMMA PendingInitOnce ==
  ASSUME LifetimeInv, Pending
  PROVE  Armed /\ mode = "atexit"
<1> USE DEF LifetimeInv
<1>1. PICK i \in 1 .. Len(handlers) : handlers[i] = "shutdown"
  BY DEF Pending
<1>2. mode = "atexit" /\ initOnce # "none"
  BY <1>1, HandlersDiffer DEF HandlersInv
<1>3. CASE initOnce = "running"
  <2>1. PICK t \in Thread : place[t] \in InOnce
    BY <1>3 DEF OnceInv
  <2>2. "shutdown" \notin Ahead(place[t])
    BY <1>1, <2>1 DEF HandlersInv
  <2>3. place[t] = "publish"
    BY <2>1, <2>2, AheadIs, InOnceIs
  <2> QED BY <1>2, <2>3 DEF Armed
<1>4. QED
  BY <1>2, <1>3 DEF Armed, LifetimeTypes

LEMMA ArmedStays ==
  ASSUME LifetimeTypes, UNCHANGED initOnce,
         \/ UNCHANGED place
         \/ \E t \in Thread : /\ place[t] # "publish"
                              /\ \E p : Goto(t, p) /\ p # "publish"
  PROVE  Armed' <=> Armed
<1>1. CASE UNCHANGED place
  BY <1>1 DEF Armed
<1>2. ASSUME NEW t \in Thread, NEW p, Goto(t, p), place[t] # "publish",
             p # "publish"
      PROVE  Armed' <=> Armed
  BY <1>2, OneThreadMoves DEF Armed
<1>3. QED
  BY <1>1, <1>2

LEMMA PendingChanges ==
  ASSUME LifetimeInv
  PROVE  /\ UNCHANGED handlers => Pending' = Pending
         /\ \A o \in Handler \ {"shutdown"} :
              Registered(o) => (Pending' <=> Pending)
         /\ Registered("shutdown") => Pending'
         /\ Popped /\ Last(handlers) # "shutdown" => (Pending' <=> Pending)
         /\ Popped /\ Last(handlers) = "shutdown" => Pending /\ ~Pending'
<1> DEFINE n == Len(handlers)
<1>0. n \in Nat
  BY LenProperties DEF LifetimeInv, LifetimeTypes
<1>1. UNCHANGED handlers => Pending' = Pending
  BY DEF Pending
<1>2. ASSUME NEW o \in Handler \ {"shutdown"}, Registered(o)
      PROVE  Pending' <=> Pending
  <2>1. /\ Len(handlers') = n + 1 /\ handlers'[n + 1] # "shutdown"
        /\ \A i \in 1 .. n : handlers'[i] = handlers[i]
    BY <1>2 DEF Registered
  <2>2. \A i \in 1 .. n + 1 : i \in 1 .. n \/ i = n + 1
    BY <1>0
  <2>3. \A i \in 1 .. n : i \in 1 .. n + 1
    BY <1>0
  <2> QED BY <2>1, <2>2, <2>3 DEF Pending
<1>3. Registered("shutdown") => Pending'
  BY <1>0 DEF Registered, Pending
<1>4. ASSUME Popped
      PROVE  /\ Last(handlers) # "shutdown" => (Pending' <=> Pending)
             /\ Last(handlers) = "shutdown" => Pending /\ ~Pending'
  <2>1. /\ Len(handlers') = n - 1 /\ n \in Nat \ {0}
        /\ Last(handlers) = handlers[n]
        /\ \A i \in 1 .. n - 1 : handlers'[i] = handlers[i]
    BY <1>4 DEF Popped
  <2>2. /\ \A i \in 1 .. n : i \in 1 .. n - 1 \/ i = n
        /\ \A i \in 1 .. n - 1 : i \in 1 .. n /\ i # n
        /\ n \in 1 .. n
    BY <2>1
  <2>3. \A i \in 1 .. n - 1 : handlers[i] # handlers[n]
    BY <2>2 DEF LifetimeInv, HandlersInv
  <2> HIDE DEF n
  <2> QED BY <2>1, <2>2, <2>3 DEF Pending, n
<1>5. QED
  BY <1>1, <1>2, <1>3, <1>4

\* exit() is not left again, and nothing is constructed in it.
LEMMA ExitStays ==
  ASSUME LifetimeInv, LifetimeMoves, mode = "atexit", phase = "exit"
  PROVE  /\ phase' \notin {"static", "main"}
         /\ known' \cap Eager \subseteq known \cap Eager
<1> USE DEF LifetimeInv, programVars, sessionVars, trackerVars, Uses
<1>1. ASSUME NEW t \in Thread, Push(t)
      PROVE  known' \cap Eager \subseteq known \cap Eager
  <2>1. t # Main => hand[t][1] = "use"
    BY <1>1 DEF Push, ProgramInv, Calling
  <2>2. t = Main => hand[t][1] # "construct"
    BY <1>1 DEF Push, PendingInv, Constructing, Calling
  <2>3. t = Main /\ hand[t][1] = "acquire" => hand[t][2] \notin Eager
    BY <1>1, LifetimeAssumption DEF Push, ProgramInv, Calling
  <2> QED BY <1>1, <2>1, <2>2, <2>3 DEF Push
<1>2. ASSUME NEW t \in Thread, ThreadMoves(t)
      PROVE  /\ phase' \in {phase, "aborted", "ended"}
             /\ known' = known \/ Push(t)
  BY <1>2 DEF ThreadMoves, Symbolized, LifetimeCall, Test, EnterOnce, Start,
     Register, Publish, AfterOnce, Push, Done, IfInitialized, Latch, StopQueue,
     Join, Joined, Report, RealExitProcess, Complete, ConstructStatic
<1>3. CASE ProgramMoves
  BY <1>3 DEF ProgramMoves, RuntimeInitializer, StartMain, CallExit, Construct,
     Acquire, UseMemory, CallExitProcess
<1>4. CASE Unwind \/ ExitReturns
  BY <1>4 DEF Unwind, Destroyed, ExitReturns
<1>5. QED
  BY <1>1, <1>2, <1>3, <1>4 DEF LifetimeMoves

\* Where exit() overtakes doInitialize, nothing was tracked before.
LEMMA LateOnly ==
  ASSUME LifetimeInv, LifetimeMoves, mode = "atexit",
         "lateStart" \in raced', "lateStart" \notin raced
  PROVE  phase = "exit" /\ known = {}
<1> USE DEF LifetimeInv, programVars, sessionVars, trackerVars, LateStart
<1>0. /\ Main \in Thread /\ phase \in {"static", "main", "exit"}
      /\ initOnce = "running" => known = {}
      /\ place[Main] \in {"unwind", "shutdown"} => phase = "exit"
      /\ \A t \in Thread : place[t] = "shutdown" => t = Main
  BY LifetimeAssumption
     DEF LifetimeTypes, LifetimeMoves, Over, OnceInv, PendingInv
<1>1. ASSUME NEW t \in Thread, ThreadMoves(t)
      PROVE  place[t] = "shutdown" /\ initOnce = "running"
  <2>1. CASE EnterOnce(t)
    BY <2>1 DEF EnterOnce, PendingInv
  <2>2. CASE IfInitialized(t)
    BY <2>2 DEF IfInitialized
  <2>3. CASE \/ Test(t) \/ Start(t) \/ Register(t) \/ Publish(t)
             \/ AfterOnce(t) \/ Done(t)
    BY <2>3 DEF Test, Start, Register, Publish, AfterOnce, Done
  <2>4. CASE Push(t)
    BY <2>4 DEF Push
  <2>5. CASE \/ Latch(t) \/ StopQueue(t) \/ Join(t) \/ Joined(t) \/ Report(t)
             \/ RealExitProcess(t) \/ Complete(t) \/ Symbolized(t)
    BY <2>5 DEF Latch, StopQueue, Join, Joined, Report, RealExitProcess,
       Complete, Symbolized
  <2>6. CASE \E i \in DOMAIN Statics : ConstructStatic(t, i)
    BY <2>6 DEF ConstructStatic
  <2> QED BY <1>1, <2>1, <2>2, <2>3, <2>4, <2>5, <2>6
          DEF ThreadMoves, LifetimeCall
<1>2. CASE ProgramMoves
  BY <1>2 DEF ProgramMoves, RuntimeInitializer, StartMain, CallExit, Construct,
     Acquire, UseMemory, CallExitProcess
<1>3. Unwind \/ ExitReturns => place[Main] = "unwind" /\ initOnce = "running"
  BY DEF Unwind, ExitReturns
<1>4. QED
  BY <1>0, <1>1, <1>2, <1>3 DEF LifetimeMoves

LEMMA LateStep ==
  ASSUME LifetimeInv, LifetimeMoves, mode = "atexit", "lateStart" \in raced'
  PROVE  phase' \notin {"static", "main"} /\ known' \cap Eager = {}
<1>1. phase = "exit" /\ known \cap Eager = {}
  <2>1. CASE "lateStart" \notin raced
    BY <2>1, LateOnly
  <2>2. CASE "lateStart" \in raced
    BY <2>2 DEF LifetimeInv, PendingInv, LifetimeMoves, Over, LifetimeTypes
  <2> QED BY <2>1, <2>2
<1>2. QED
  BY <1>1, ExitStays

\* shutdown() is registered until Main runs it.
LEMMA PendingInvStep ==
  ASSUME LifetimeInv, LifetimeMoves
  PROVE  PendingInv'
<1> SUFFICES ASSUME mode' = "atexit"
             PROVE  PendingInv'
  BY DEF PendingInv
<1> USE DEF LifetimeInv, PendingInv, Constructing, programVars, sessionVars,
            trackerVars
<1>0. /\ Main \in Thread /\ initialized \in BOOLEAN /\ mode = "atexit"
      /\ initOnce \in {"none", "running", "done"}
      /\ phase \in {"static", "main", "exit"}
      /\ hand \in [Thread -> {"use", "initialize", "construct", "acquire",
                              "destroy"} \X (Object \cup Thread)]
      /\ "lateStart" \notin raced' => "lateStart" \notin raced
      /\ "lateStart" \in raced' =>
           phase' \notin {"static", "main"} /\ known' \cap Eager = {}
      /\ \A p \in {"idle", "unwind", "shutdown", "kill"} \cup InShutdown :
           p \notin InOnce
  BY LifetimeAssumption, RacedGrows, LateStep, InOnceIs
     DEF LifetimeTypes, LifetimeMoves, Over, InShutdown
<1>1. ASSUME NEW t \in Thread, ThreadMoves(t)
      PROVE  PendingInv'
  \* A step of a tracked call.
  <2>1. ASSUME NEW p \in {"push", "done", "once", "unwind", "idle"}, Goto(t, p),
               place[t] \in {"test", "once", "push", "done"},
               UNCHANGED <<initialized, initOnce>>,
               \/ UNCHANGED hand
               \/ p \in {"unwind", "idle"} /\ (t = Main \/ hand'[Main] = hand[Main]),
               phase' \in {phase, "aborted"},
               Pending' <=> Pending,
               p = "unwind" => t = Main /\ hand[Main][1] = "destroy"
        PROVE  PendingInv'
    <3>1. p = "unwind" => phase \notin {"static", "main"}
      BY <1>0, <2>1 DEF Calling
    <3>2. place[t] \notin {"unwind", "shutdown", "kill"} \cup InShutdown
      BY <2>1 DEF InShutdown
    <3>3. Armed' <=> Armed
      BY <2>1, ArmedStays
    <3>4. place'[t] = p /\ \A u \in Thread \ {t} : place'[u] = place[u]
      BY <2>1, OneThreadMoves
    <3>5. Calling(Main)' => Calling(Main) /\ hand'[Main] = hand[Main]
      BY <1>0, <2>1, <3>4 DEF Calling
    <3>6. p \notin {"shutdown", "kill"} \cup InShutdown
      BY <2>1 DEF InShutdown
    <3> QED BY <1>0, <2>1, <3>1, <3>2, <3>3, <3>4, <3>5, <3>6
            DEF InShutdown
  \* A step of shutdown().
  <2>2. ASSUME NEW p, Goto(t, p), place[t] \in {"shutdown"} \cup InShutdown,
               p \in InShutdown \cup {"unwind"},
               UNCHANGED <<hand, initOnce, handlers>>,
               phase' \in {phase, "aborted"},
               IF place[t] \in {"shutdown", "latch"}
               THEN \/ p = "latch" /\ initialized' = initialized
                    \/ /\ p # "latch" /\ ~initialized'
                       /\ initOnce = "done" \/ "lateStart" \in raced'
               ELSE p # "latch" /\ initialized' = initialized
        PROVE  PendingInv'
    <3>1. t = Main /\ phase \notin {"static", "main"}
      BY <1>0, <2>2
    <3>2. Pending' = Pending
      BY <2>2, PendingChanges
    <3>3. /\ place'[Main] = p /\ \A u \in Thread \ {Main} : place'[u] = place[u]
      BY <2>2, <3>1, OneThreadMoves
    <3>4. /\ place[t] # "publish" /\ p # "publish" /\ p # "shutdown"
          /\ p # "kill"
      BY <2>2 DEF InShutdown
    <3>5. Armed' <=> Armed
      BY <2>2, <3>4, ArmedStays
    <3>6. ~Calling(Main)'
      BY <1>0, <2>2, <3>3 DEF Calling, InShutdown
    <3>7. ASSUME Armed', "lateStart" \notin raced'
          PROVE  Pending' <=> /\ initOnce' = "done" => initialized'
                              /\ place'[Main] \notin {"shutdown", "latch"}
      <4>1. Pending <=> /\ initOnce = "done" => initialized
                        /\ place[Main] \notin {"shutdown", "latch"}
        BY <1>0, <3>5, <3>7
      <4> QED BY <1>0, <2>2, <3>1, <3>2, <3>3, <3>4, <3>7, <4>1
    <3>8. \A u \in Thread : place'[u] \in {"shutdown"} \cup InShutdown => u = Main
      BY <1>0, <3>3
    <3>9. \A u \in Thread : place'[u] # "kill"
      BY <1>0, <3>3, <3>4
    <3>10. phase' \notin {"static", "main"}
      BY <2>2, <3>1
    <3> QED BY <1>0, <3>3, <3>4, <3>6, <3>7, <3>8, <3>9, <3>10
  \* A step of doInitialize up to where shutdown() is registered.
  <2>3. ASSUME NEW p \in InOnce \ {"publish"}, Goto(t, p), Calling(t), ~Armed,
               initOnce' = "running", UNCHANGED <<hand, initialized>>,
               phase' \in {phase, "aborted"}
        PROVE  PendingInv'
    <3>1. place'[t] = p /\ \A u \in Thread \ {t} : place'[u] = place[u]
      BY <2>3, OneThreadMoves
    <3>2. \A u \in Thread : place'[u] # "publish"
      BY <2>3, <3>1 DEF Armed
    <3>3. ~Armed'
      BY <2>3, <3>2 DEF Armed
    <3>4. place'[Main] # "shutdown" /\ (place'[Main] = place[Main] \/ t = Main)
      BY <1>0, <2>3, <3>1
    <3>5. Calling(Main)' => Calling(Main)
      BY <1>0, <2>3, <3>1 DEF Calling
    <3>6. \A u \in Thread : place'[u] \in {"unwind", "shutdown", "kill"}
                                           \cup InShutdown => place[u] = place'[u]
      BY <1>0, <2>3, <3>1
    <3> QED BY <1>0, <2>3, <3>3, <3>4, <3>5, <3>6
  <2>4. CASE Test(t)
    BY <2>1, <2>4, PendingChanges DEF Test
  <2>5. CASE AfterOnce(t)
    BY <2>1, <2>5, PendingChanges DEF AfterOnce
  <2>6. CASE Push(t)
    BY <2>1, <2>6, PendingChanges DEF Push, Uses
  <2>7. CASE Done(t)
    <3>1. Pending' <=> Pending
      <4>1. CASE hand[t][1] = "construct"
        <5>1. hand[t][2] \in Object /\ handlers' = Append(handlers, hand[t][2])
          BY <2>7, <4>1 DEF Done, ProgramInv, Calling, Object
        <5>2. hand[t][2] \in Handler \ {"shutdown"}
          BY <5>1, HandlersDiffer DEF Handler
        <5> QED BY <5>1, <5>2, Registering, PendingChanges DEF LifetimeTypes
      <4>2. CASE hand[t][1] # "construct"
        BY <2>7, <4>2, PendingChanges DEF Done
      <4> QED BY <4>1, <4>2
    <3>2. hand[t][1] = "destroy" => t = Main
      BY <2>7 DEF Done, ProgramInv, Calling
    <3>3. t = Main \/ hand'[Main] = hand[Main]
      BY <1>0, <2>7 DEF Done
    <3> QED BY <2>1, <2>7, <3>1, <3>2, <3>3 DEF Done
  <2>8. CASE EnterOnce(t)
    <3>1. ~Armed
      BY <2>8, InOnceIs DEF EnterOnce, Armed, OnceInv
    <3>2. Goto(t, "Tracker") /\ "Tracker" \in InOnce \ {"publish"}
      BY <2>8, InOnceIs DEF EnterOnce, Statics
    <3> QED BY <2>3, <2>8, <3>1, <3>2 DEF EnterOnce, Calling
  <2>9. ASSUME place[t] \in InOnce \ {"publish"}
        PROVE  ~Armed /\ initOnce = "running" /\ Calling(t)
    BY <2>9, InOnceIs DEF OnceInv, Armed, Calling
  <2>10. ASSUME NEW i \in DOMAIN Statics, ConstructStatic(t, i)
         PROVE  PendingInv'
    <3>1. PICK p \in InOnce \ {"register", "publish"} : Goto(t, p)
      BY <2>10, Constructs
    <3>2. place[t] \in InOnce \ {"publish"}
      BY <2>10, Constructs, StaticsAre DEF InOnce
    <3> QED BY <2>3, <2>9, <2>10, <3>1, <3>2 DEF ConstructStatic
  <2>11. CASE Start(t)
    <3>1. Goto(t, "register") /\ {"start", "register"} \subseteq
                                   InOnce \ {"publish"}
      BY <1>0, <2>11, InOnceIs DEF Start
    <3> QED BY <2>3, <2>9, <2>11, <3>1 DEF Start, Uses
  <2>12. CASE Register(t)
    <3>1. ~Armed /\ initOnce = "running" /\ Goto(t, "publish")
          /\ UNCHANGED <<hand, initialized, initOnce, phase>>
      BY <2>9, <2>12, InOnceIs DEF Register
    <3>2. "shutdown" \in Handler
      BY DEF Handler
    <3>3. Pending'
      BY <2>12, <3>2, Registering, PendingChanges DEF Register, LifetimeTypes
    <3>4. place'[t] = "publish"
          /\ \A u \in Thread \ {t} : place'[u] = place[u]
      BY <3>1, OneThreadMoves
    <3>5. \A u \in Thread : place'[u] \notin {"shutdown"} \cup InShutdown
      <4>1. \A u \in Thread : place[u] \notin {"shutdown"} \cup InShutdown
        BY <1>0, <3>1 DEF OnceInv
      <4> QED BY <3>4, <4>1 DEF InShutdown
    <3>6. Calling(Main)' => Calling(Main)
      BY <1>0, <2>12, <3>4, InOnceIs DEF Calling, Register
    <3>7. \A u \in Thread : place'[u] \in {"unwind", "kill"} => place[u] = place'[u]
      BY <3>4
    <3>8. "latch" \in InShutdown
      BY DEF InShutdown
    <3> QED BY <1>0, <3>1, <3>3, <3>5, <3>6, <3>7, <3>8
  <2>13. CASE Publish(t)
    <3>1. PICK p \in {"done", "push"} : Goto(t, p)
      BY <2>13 DEF Publish
    <3>2. /\ place[t] = "publish" /\ initOnce' = "done" /\ initialized' = TRUE
          /\ Armed /\ initOnce = "running" /\ UNCHANGED <<hand, handlers, phase>>
      BY <2>13, InOnceIs DEF Publish, Armed, OnceInv
    <3>3. place'[t] = p /\ \A u \in Thread \ {t} : place'[u] = place[u]
      BY <3>1, OneThreadMoves
    <3>4. Pending' = Pending
      BY <3>2, PendingChanges
    <3>5. Armed' /\ (Calling(Main)' => Calling(Main))
      BY <1>0, <3>1, <3>2, <3>3, InOnceIs DEF Armed, Calling
    <3>6. \A u \in Thread : place'[u] \in {"unwind", "shutdown", "kill"}
                                           \cup InShutdown => place[u] = place'[u]
      BY <3>1, <3>3 DEF InShutdown
    <3>7. place[t] \notin {"shutdown", "latch"} /\ p \notin {"shutdown", "latch"}
      BY <3>1, <3>2
    <3>8. place'[Main] \in {"shutdown", "latch"} <=>
            place[Main] \in {"shutdown", "latch"}
      BY <1>0, <3>3, <3>7
    <3> QED BY <1>0, <3>2, <3>4, <3>5, <3>6, <3>8
  <2>14. CASE IfInitialized(t)
    <3>1. PICK p \in {"latch", "unwind"} :
            Goto(t, p) /\ (p = "unwind" => ~initialized)
      BY <1>0, <2>14 DEF IfInitialized, ShutdownReturns
    <3>2. /\ place[t] = "shutdown"
          /\ UNCHANGED <<hand, initOnce, handlers, initialized, phase>>
      BY <2>14 DEF IfInitialized
    <3>3. p = "unwind" => initOnce = "done" \/ "lateStart" \in raced'
      <4>1. Armed /\ t = Main
        BY <1>0, <3>2
      <4>2. initOnce # "none"
        BY <4>1, InOnceIs DEF Armed, OnceInv
      <4>3. p = "unwind" /\ initOnce = "running" => "lateStart" \in raced'
        BY <2>14, <3>1 DEF IfInitialized, LateStart
      <4> QED BY <1>0, <4>2, <4>3
    <3> QED BY <2>2, <3>1, <3>2, <3>3 DEF InShutdown
  <2>15. CASE Latch(t)
    <3>1. initOnce = "done"
      BY <1>0, <2>15 DEF Latch, OnceInv, InShutdown
    <3> QED BY <2>2, <2>15, <3>1 DEF Latch, InShutdown
  <2>16. CASE \/ StopQueue(t) \/ Join(t) \/ Joined(t) \/ Report(t)
              \/ Complete(t) \/ Symbolized(t)
    <3>1. PICK p \in {"join", "joining", "report", "symbolize", "complete",
                      "unwind"} :
            Goto(t, p)
      BY <1>0, <2>16 DEF StopQueue, Join, Joined, Report, Complete, Symbolized,
                         ShutdownReturns
    <3>2. /\ place[t] \in InShutdown \ {"latch"}
          /\ UNCHANGED <<hand, initOnce, handlers, initialized>>
          /\ phase' \in {phase, "aborted"}
      BY <2>16 DEF StopQueue, Join, Joined, Report, Complete, Symbolized,
         InShutdown, Uses
    <3> QED BY <2>2, <3>1, <3>2 DEF InShutdown
  <2>17. CASE RealExitProcess(t)
    BY <1>0, <2>17 DEF RealExitProcess
  <2> QED BY <1>1, <2>4, <2>5, <2>7, <2>6, <2>8, <2>10, <2>11, <2>12, <2>13,
             <2>14, <2>15, <2>16, <2>17
          DEF ThreadMoves, LifetimeCall
\* Main, idle, goes on outside exit().
<1>2. ASSUME Idle(Main), UNCHANGED <<initialized, initOnce>>,
             Pending' <=> Pending, phase \in {"static", "main"},
             \/ UNCHANGED <<place, hand>> /\ phase' \in {"static", "main"}
             \/ /\ \E p \in {"once", "done", "test"} : Goto(Main, p)
                /\ hand'[Main][1] # "destroy" /\ UNCHANGED phase
             \/ Goto(Main, "unwind") /\ phase' = "exit"
      PROVE  PendingInv'
  <2>1. Armed' <=> Armed
    BY <1>0, <1>2, ArmedStays DEF Idle
  <2>2. CASE UNCHANGED <<place, hand>> /\ phase' \in {"static", "main"}
    BY <1>0, <1>2, <2>1, <2>2 DEF Calling
  <2>3. ASSUME NEW p \in {"once", "done", "test"}, Goto(Main, p),
               hand'[Main][1] # "destroy", UNCHANGED phase
        PROVE  PendingInv'
    <3>1. place'[Main] = p /\ \A u \in Thread \ {Main} : place'[u] = place[u]
      BY <1>0, <2>3, OneThreadMoves
    <3> QED BY <1>0, <1>2, <2>1, <2>3, <3>1 DEF Idle, InShutdown
  <2>4. CASE Goto(Main, "unwind") /\ phase' = "exit"
    <3>1. place'[Main] = "unwind"
          /\ \A u \in Thread \ {Main} : place'[u] = place[u]
      BY <1>0, <2>4, OneThreadMoves
    <3>2. ~Calling(Main)'
      BY <1>0, <3>1 DEF Calling
    <3> QED BY <1>0, <1>2, <2>1, <2>4, <3>1, <3>2 DEF Idle, InShutdown
  <2> QED BY <1>2, <2>2, <2>3, <2>4
<1>3. CASE RuntimeInitializer \/ StartMain \/ CallExit
  <2>1. Pending' = Pending
    BY <1>3, PendingChanges DEF RuntimeInitializer, StartMain, CallExit
  <2>2. RuntimeInitializer => hand'[Main][1] = "initialize"
    BY <1>0 DEF RuntimeInitializer
  <2> QED BY <1>2, <1>3, <2>1, <2>2 DEF RuntimeInitializer, StartMain, CallExit
<1>4. ASSUME NEW o \in Object, Construct(o) \/ Acquire(o)
      PROVE  PendingInv'
  <2>1. o \in Handler \ {"shutdown"}
    BY HandlersDiffer DEF Handler
  <2>2. UNCHANGED handlers \/ Registered(o)
    BY <1>4, <2>1, Registering DEF Construct, Acquire, LifetimeTypes
  <2>3. Pending' <=> Pending
    BY <2>1, <2>2, PendingChanges
  <2>4. /\ Idle(Main) /\ phase \in {"static", "main"}
        /\ UNCHANGED <<initialized, initOnce, phase>>
    BY <1>4 DEF Construct, Acquire
  <2>5. \/ UNCHANGED <<place, hand>>
        \/ Goto(Main, "test") /\ hand'[Main][1] # "destroy"
    BY <1>0, <1>4 DEF Construct, Acquire, Call
  <2> QED BY <1>2, <2>3, <2>4, <2>5
<1>5. ASSUME NEW t \in Thread, UseMemory(t)
      PROVE  PendingInv'
  <2>1. t # Main /\ place[t] = "idle" /\ Goto(t, "test")
        /\ UNCHANGED <<phase, handlers, initialized, initOnce>>
        /\ hand' = [hand EXCEPT ![t] = <<"use", t>>]
    BY <1>5 DEF UseMemory, Call, Idle
  <2>2. hand'[Main] = hand[Main] /\ place'[Main] = place[Main]
        /\ (Calling(Main)' <=> Calling(Main))
    BY <1>0, <2>1, OneThreadMoves DEF Calling
  <2>3. Armed' <=> Armed
    BY <2>1, ArmedStays
  <2>4. Pending' = Pending
    BY <2>1, PendingChanges
  <2> QED BY <1>0, <2>1, <2>2, <2>3, <2>4, OneThreadMoves DEF InShutdown
<1>6. ASSUME NEW t \in Thread, CallExitProcess(t)
      PROVE  PendingInv'
  BY <1>0, <1>6 DEF CallExitProcess
<1>7. CASE ExitReturns
  <2>1. /\ UNCHANGED <<place, hand, initialized, initOnce, handlers>>
        /\ place[Main] = "unwind" /\ phase' = "ended"
    BY <1>0, <1>7 DEF ExitReturns
  <2>2. Pending' = Pending /\ (Armed' <=> Armed) /\ ~Calling(Main)'
    BY <1>0, <2>1, PendingChanges, ArmedStays DEF Calling
  <2> QED BY <1>0, <2>1, <2>2
<1>8. CASE Unwind
  <2>0. place[Main] = "unwind" /\ UNCHANGED <<initialized, initOnce>>
    BY <1>8 DEF Unwind
  <2>1. Popped
    BY <1>8, Popping DEF Unwind, LifetimeTypes
  <2>2. phase = "exit"
    BY <1>0, <2>0
  <2>3. CASE Last(handlers) = "shutdown" /\ Goto(Main, "shutdown")
             /\ UNCHANGED <<hand, phase>>
    <3>1. Pending /\ ~Pending' /\ Armed
      BY <2>1, <2>3, PendingChanges, PendingInitOnce
    <3>2. place'[Main] = "shutdown"
          /\ \A u \in Thread \ {Main} : place'[u] = place[u]
      BY <1>0, <2>3, OneThreadMoves
    <3>3. Armed' /\ ~Calling(Main)'
      BY <1>0, <2>0, <2>3, <3>1, <3>2, ArmedStays DEF Calling
    <3> QED BY <1>0, <2>0, <2>2, <2>3, <3>1, <3>2, <3>3 DEF InShutdown
  <2>4. CASE Last(handlers) # "shutdown"
    <3>1. Pending' <=> Pending
      BY <2>1, <2>4, PendingChanges
    <3>2. phase' \in {"exit", "aborted"}
      BY <1>8, <2>2, <2>4 DEF Unwind, Destroyed
    <3>3. CASE UNCHANGED <<place, hand>>
      <4>1. (Armed' <=> Armed) /\ ~Calling(Main)'
        BY <1>0, <2>0, <3>3, ArmedStays DEF Calling
      <4> QED BY <1>0, <2>0, <3>1, <3>2, <3>3, <4>1
    <3>4. CASE Call(Main, "destroy", Last(handlers))
      <4>1. place'[Main] = "test" /\ hand'[Main][1] = "destroy"
            /\ \A u \in Thread \ {Main} : place'[u] = place[u]
        BY <1>0, <3>4, OneThreadMoves DEF Call
      <4>2. Armed' <=> Armed
        BY <1>0, <2>0, <3>4, ArmedStays DEF Call
      <4> QED BY <1>0, <2>0, <3>1, <3>2, <4>1, <4>2 DEF InShutdown
    <3> QED BY <1>8, <2>4, <3>3, <3>4 DEF Unwind
  <2>5. Last(handlers) = "shutdown" => Last(handlers) \notin Object /\
                                       Last(handlers) \notin Range(Statics)
    BY HandlersDiffer
  <2> QED BY <1>8, <2>3, <2>4, <2>5 DEF Unwind, LifetimeTypes
<1>9. QED
  BY <1>1, <1>3, <1>4, <1>5, <1>6, <1>7, <1>8 DEF LifetimeMoves, ProgramMoves

\* Nothing a static object acquired in its constructor is known once shutdown()
\* is not registered.
LEMMA NoOwnerIsKnown ==
  ASSUME LifetimeInv, mode = "atexit", ~Pending
  PROVE  known \cap Eager = {}
BY DEF LifetimeInv, OwnersInv, Owned, Pending

\* While shutdown() is registered and Main does not run it, tracking is on.
LEMMA TrackedWhilePending ==
  ASSUME LifetimeInv, Pending, initOnce = "done", "lateStart" \notin raced
  PROVE  mode = "atexit" /\ initialized /\ ~stopped
BY PendingInitOnce DEF LifetimeInv, PendingInv, OnceInv

\* What a static object owns is freed in a tracked call, before the report.
LEMMA OwnersInvStep ==
  ASSUME LifetimeInv, LifetimeMoves
  PROVE  OwnersInv'
<1> SUFFICES ASSUME mode' = "atexit", NEW o \in known' \cap Eager
             PROVE  Owned(o)'
  BY DEF OwnersInv
<1> USE DEF LifetimeInv, programVars, sessionVars, trackerVars
<1> DEFINE n == Len(handlers)
<1>0. /\ Main \in Thread /\ n \in Nat /\ o \in Object
      /\ hand \in [Thread -> {"use", "initialize", "construct", "acquire",
                              "destroy"} \X (Object \cup Thread)]
      /\ place \in [Thread -> Places]
      /\ mode = "atexit" /\ "lateStart" \notin raced
      /\ known # {} => initOnce = "done"
  BY LifetimeAssumption, LenProperties, RacedGrows, LateStep
     DEF LifetimeTypes, Object, OnceInv
<1> HIDE DEF n
\* The steps that leave what the object owns as it is.
<1>1. ASSUME o \in known, hand'[Main] = hand[Main], UNCHANGED <<handlers, holds>>,
             \/ UNCHANGED place
             \/ place[Main] \notin {"test", "push", "done"}
             \/ place'[Main] = place[Main]
      PROVE  Owned(o)'
  <2>1. Owned(o) /\ Pending' = Pending
    BY <1>0, <1>1, PendingChanges DEF OwnersInv
  <2> QED BY <1>1, <2>1 DEF Owned
<1>2. ASSUME NEW t \in Thread, ThreadMoves(t)
      PROVE  Owned(o)'
  <2>1. CASE Test(t)
    <3>1. /\ o \in known /\ place[t] = "test"
          /\ UNCHANGED <<hand, handlers, holds>>
      BY <2>1 DEF Test
    <3>2. Owned(o) /\ Pending' = Pending
      BY <1>0, <3>1, PendingChanges DEF OwnersInv
    <3>3. CASE t # Main
      BY <1>1, <1>0, <2>1, <3>1, <3>3 DEF Test, Goto
    <3>4. CASE t = Main
      <4>1. Pending => place'[Main] = "push"
        BY <1>0, <2>1, <3>1, <3>4, TrackedWhilePending DEF Test, Goto
      <4> QED BY <3>1, <3>2, <3>4, <4>1 DEF Owned
    <3> QED BY <3>3, <3>4
  <2>2. CASE Push(t)
    <3>1. /\ place[t] = "push" /\ Goto(t, "done")
          /\ UNCHANGED <<hand, handlers, holds>>
      BY <2>2 DEF Push
    <3>2. CASE t # Main
      <4>1. hand[t][1] = "use"
        BY <3>1, <3>2 DEF ProgramInv, Calling
      <4>2. known' = known
        BY <2>2, <4>1 DEF Push
      <4> QED BY <1>0, <1>1, <3>1, <3>2, <4>2 DEF Goto
    <3>3. CASE t = Main
      <4>1. place'[Main] = "done" /\ Pending' = Pending
        BY <1>0, <3>1, <3>3, PendingChanges DEF Goto
      <4>2. CASE o \in known
        <5>1. Owned(o)
          BY <1>0, <4>2 DEF OwnersInv
        <5>2. hand[Main] # <<"destroy", o>> \/ ~Pending
          <6> SUFFICES ASSUME hand[Main] = <<"destroy", o>>, Pending
                       PROVE  FALSE
            OBVIOUS
          <6>1. known' = known \ {o}
            BY <1>0, <2>2, <3>3, <4>2, TrackedWhilePending DEF Push
          <6> QED BY <6>1
        <5> QED BY <3>1, <3>3, <4>1, <5>1, <5>2 DEF Owned
      <4>3. CASE o \notin known
        <5>1. hand[Main][1] \in {"construct", "acquire"} /\ hand[Main][2] = o
          BY <2>2, <3>3, <4>3 DEF Push
        <5>2. hand[Main][1] = "construct"
          BY <3>1, <3>3, <5>1, LifetimeAssumption DEF ProgramInv, Calling
        <5>3. hand[Main] = <<"construct", o>>
          BY <1>0, <5>1, <5>2
        <5>4. Pending
          <6>1. initOnce = "done" /\ phase \in {"static", "main"}
            BY <1>0, <3>1, <3>3, <5>2 DEF PendingInv, OnceInv, Constructing,
               Calling, LifetimeTypes, LifetimeMoves, Over
          <6> QED BY <1>0, <3>1, <3>3, <6>1 DEF PendingInv, Armed
        <5> QED BY <3>1, <4>1, <5>3, <5>4 DEF Owned
      <4> QED BY <4>2, <4>3
    <3> QED BY <3>2, <3>3
  <2>3. CASE Done(t)
    <3>1. o \in known /\ place[t] = "done" /\ Owned(o)
      BY <1>0, <2>3 DEF Done, OwnersInv
    <3>2. CASE t # Main
      <4>1. hand[t][1] = "use"
        BY <3>1, <3>2 DEF ProgramInv, Calling
      <4>2. /\ place' = [place EXCEPT ![t] = "idle"]
            /\ hand' = [hand EXCEPT ![t] = NoCall]
            /\ UNCHANGED <<handlers, holds>>
        BY <2>3, <4>1 DEF Done, Goto
      <4> QED BY <1>0, <1>1, <3>1, <3>2, <4>2
    <3>3. CASE t = Main /\ hand[Main] = <<"construct", o>>
      <4>1. /\ handlers' = Append(handlers, o) /\ holds' = holds \cup {o}
        BY <2>3, <3>3 DEF Done
      <4>2. Registered(o)
        BY <1>0, <4>1, Registering DEF LifetimeTypes, Handler
      <4>3. PICK j \in 1 .. n : handlers[j] = "shutdown"
        BY <3>1, <3>3 DEF Owned, Pending, n
      <4>4. /\ j \in 1 .. Len(handlers') /\ n + 1 \in 1 .. Len(handlers')
            /\ j < n + 1 /\ handlers'[j] = "shutdown" /\ handlers'[n + 1] = o
        BY <1>0, <4>2, <4>3 DEF Registered, n
      <4> QED BY <4>1, <4>4 DEF Owned
    <3>4. CASE t = Main /\ hand[Main] # <<"construct", o>>
      <4>1. PICK i \in 1 .. n, j \in 1 .. n :
              j < i /\ handlers[j] = "shutdown" /\ handlers[i] = o
        BY <3>1, <3>4 DEF Owned, n
      <4>2. o \in holds'
        <5>1. o \in holds
          BY <3>1, <3>4 DEF Owned
        <5>2. hand[Main][1] = "destroy" => hand[Main][2] # o
          BY <3>1, <3>4, <4>1 DEF ProgramInv, Calling, n
        <5> QED BY <2>3, <3>4, <5>1, <5>2 DEF Done
      <4>3. CASE hand[Main][1] = "construct"
        <5>1. /\ hand[Main][2] \in Object
              /\ handlers' = Append(handlers, hand[Main][2])
          BY <2>3, <3>1, <3>4, <4>3 DEF Done, ProgramInv, Calling, Object
        <5>2. Registered(hand[Main][2])
          BY <5>1, Registering DEF LifetimeTypes, Handler
        <5>3. /\ i \in 1 .. Len(handlers') /\ j \in 1 .. Len(handlers')
              /\ handlers'[j] = "shutdown" /\ handlers'[i] = o
          BY <1>0, <4>1, <5>2 DEF Registered, n
        <5> QED BY <4>1, <4>2, <5>3 DEF Owned
      <4>4. CASE hand[Main][1] # "construct"
        <5>1. handlers' = handlers
          BY <2>3, <3>4, <4>4 DEF Done
        <5> QED BY <4>1, <4>2, <5>1 DEF Owned, n
      <4> QED BY <4>3, <4>4
    <3> QED BY <3>2, <3>3, <3>4
  \* Nothing is known before doInitialize is through.
  <2>4. CASE \/ EnterOnce(t) \/ Start(t) \/ Register(t) \/ Publish(t)
             \/ \E i \in DOMAIN Statics : ConstructStatic(t, i)
    <3>1. known' = known
      BY <2>4 DEF EnterOnce, Start, Register, Publish, ConstructStatic
    <3>2. place[t] \in InOnce \/ initOnce = "none"
      BY <2>4, InOnceIs, Constructs DEF EnterOnce, Start, Register, Publish,
         InOnce
    <3> QED BY <1>0, <3>1, <3>2 DEF OnceInv
  <2>5. CASE AfterOnce(t) \/ IfInitialized(t) \/ Latch(t) \/ StopQueue(t)
             \/ Join(t) \/ Joined(t) \/ Report(t) \/ Complete(t)
             \/ Symbolized(t)
    <3>1. o \in known /\ UNCHANGED <<hand, handlers, holds>>
          /\ place[t] \in {"once", "shutdown"} \cup InShutdown
      BY <2>5 DEF AfterOnce, IfInitialized, Latch, StopQueue, Join, Joined,
         Report, Complete, Symbolized, InShutdown
    <3>2. PICK p : Goto(t, p)
      BY <2>5 DEF AfterOnce, IfInitialized, ShutdownReturns, Latch, StopQueue,
                  Join, Joined, Report, Complete, Symbolized
    <3>3. t # Main => place'[Main] = place[Main]
      BY <1>0, <3>2 DEF Goto
    <3> QED BY <1>1, <1>0, <3>1, <3>3 DEF InShutdown
  <2>6. CASE RealExitProcess(t)
    BY <1>1, <1>0, <2>6 DEF RealExitProcess
  <2> QED BY <1>2, <2>1, <2>2, <2>3, <2>4, <2>5, <2>6
          DEF ThreadMoves, LifetimeCall
\* Main comes to a tracked call outside exit(), or registers another object.
<1>3. ASSUME mode = "atexit", o \in known, Idle(Main), holds' = holds,
             UNCHANGED handlers \/ \E u \in Object : Registered(u)
      PROVE  Owned(o)'
  <2>1. PICK i \in 1 .. n, j \in 1 .. n :
          j < i /\ handlers[j] = "shutdown" /\ handlers[i] = o
    BY <1>3 DEF OwnersInv, Owned, Idle, n
  <2>2. o \in holds'
    BY <1>3 DEF OwnersInv, Owned, Idle
  <2>3. /\ i \in 1 .. Len(handlers') /\ j \in 1 .. Len(handlers')
        /\ handlers'[j] = "shutdown" /\ handlers'[i] = o
    <3>1. CASE UNCHANGED handlers
      BY <2>1, <3>1 DEF n
    <3>2. CASE \E u \in Object : Registered(u)
      BY <1>0, <2>1, <3>2 DEF Registered, n
    <3> QED BY <1>3, <3>1, <3>2
  <2> QED BY <2>1, <2>2, <2>3 DEF Owned
<1>4. CASE RuntimeInitializer
  BY <1>3, <1>4 DEF RuntimeInitializer
<1>5. CASE StartMain \/ CallExit \/ ExitReturns
  BY <1>1, <1>5 DEF StartMain, CallExit, ExitReturns, Idle
<1>6. ASSUME NEW u \in Object, Construct(u)
      PROVE  Owned(o)'
  <2>1. mode = "atexit" /\ o \in known /\ Idle(Main) /\ holds' = holds
    BY <1>6 DEF Construct
  <2>2. UNCHANGED handlers \/ Registered(u)
    BY <1>6, Registering DEF Construct, LifetimeTypes, Handler
  <2> QED BY <1>3, <2>1, <2>2
<1>7. ASSUME NEW u \in Object, Acquire(u)
      PROVE  Owned(o)'
  BY <1>3, <1>7 DEF Acquire
<1>8. ASSUME NEW t \in Thread, UseMemory(t)
      PROVE  Owned(o)'
  <2>1. t # Main /\ o \in known /\ mode = "atexit"
    BY <1>8 DEF UseMemory
  <2>2. hand'[Main] = hand[Main] /\ place'[Main] = place[Main]
        /\ UNCHANGED <<handlers, holds>>
    BY <1>0, <1>8, <2>1 DEF UseMemory, Call, Goto
  <2>3. Owned(o) /\ Pending' = Pending
    BY <2>1, <2>2, PendingChanges DEF OwnersInv
  <2> QED BY <2>2, <2>3 DEF Owned
<1>9. ASSUME NEW t \in Thread, CallExitProcess(t)
      PROVE  Owned(o)'
  BY <1>9 DEF CallExitProcess
<1>10. CASE Unwind
  <2>1. /\ mode = "atexit" /\ o \in known /\ place[Main] = "unwind"
        /\ holds' = holds
    BY <1>10 DEF Unwind
  <2>2. Popped
    BY <1>10, Popping DEF Unwind, LifetimeTypes
  <2>3. PICK i \in 1 .. n, j \in 1 .. n :
          j < i /\ handlers[j] = "shutdown" /\ handlers[i] = o
    BY <2>1 DEF OwnersInv, Owned, n
  <2>4. o \in holds
    BY <2>1 DEF OwnersInv, Owned
  <2>5. j \in 1 .. Len(handlers') /\ handlers'[j] = "shutdown"
    BY <1>0, <2>2, <2>3 DEF Popped, n
  <2>6. CASE i = n
    <3>1. Last(handlers) = o
      BY <2>2, <2>3, <2>6 DEF Popped, n
    <3>2. o # "shutdown" /\ o \notin Range(Statics)
      BY <1>0, HandlersDiffer
    <3>3. Call(Main, "destroy", o)
      BY <1>10, <2>4, <3>1, <3>2 DEF Unwind
    <3>4. hand'[Main] = <<"destroy", o>> /\ place'[Main] = "test"
      BY <1>0, <3>3 DEF Call, Goto
    <3>5. Pending'
      BY <2>5 DEF Pending
    <3> QED BY <3>4, <3>5 DEF Owned
  <2>7. CASE i # n
    <3>1. /\ Len(handlers') = n - 1
          /\ \A k \in 1 .. Len(handlers') : handlers'[k] = handlers[k]
      BY <2>2 DEF Popped, n
    <3>2. i \in 1 .. n - 1
      BY <1>0, <2>3, <2>7
    <3>3. i \in 1 .. Len(handlers') /\ handlers'[i] = o
      BY <2>3, <3>1, <3>2
    <3> QED BY <2>1, <2>3, <2>4, <2>5, <3>3 DEF Owned
  <2> QED BY <2>6, <2>7
<1>11. QED
  BY <1>2, <1>4, <1>5, <1>6, <1>7, <1>8, <1>9, <1>10
     DEF LifetimeMoves, ProgramMoves

\* No report names what a static object acquired in its constructor.
LEMMA StaticOwnersStep ==
  ASSUME LifetimeInv, LifetimeMoves
  PROVE  StaticOwnersAreFreed'
<1> USE DEF LifetimeInv, StaticOwnersAreFreed, programVars, sessionVars,
            trackerVars
<1>1. ASSUME UNCHANGED <<mode, reports>>
      PROVE  StaticOwnersAreFreed'
  BY <1>1
<1>2. ASSUME NEW t \in Thread, ThreadMoves(t)
      PROVE  StaticOwnersAreFreed'
  <2>1. CASE Report(t)
    <3>1. mode = "atexit" /\ "lateStart" \notin raced => ~Pending
      <4>1. initOnce = "done" /\ ~initialized
        BY <2>1 DEF Report, OnceInv, InShutdown
      <4> QED BY <4>1, TrackedWhilePending
    <3>2. mode = "atexit" => known \cap Eager = {}
      BY <3>1, NoOwnerIsKnown DEF PendingInv
    <3> QED BY <2>1, <3>2 DEF Report
  <2>2. CASE ~Report(t)
    BY <1>1, <1>2, <2>2 DEF ThreadMoves, Symbolized, LifetimeCall, Test,
       EnterOnce, Start, Register, Publish, AfterOnce, Push, Done, IfInitialized,
       Latch, StopQueue, Join, Joined, RealExitProcess, ConstructStatic, Complete
  <2> QED BY <2>1, <2>2
<1>3. CASE ProgramMoves
  BY <1>1, <1>3 DEF ProgramMoves, RuntimeInitializer, StartMain, CallExit,
                    Construct, Acquire, UseMemory, CallExitProcess
<1>4. CASE Unwind \/ ExitReturns
  BY <1>1, <1>4 DEF Unwind, ExitReturns
<1>5. QED
  BY <1>2, <1>3, <1>4 DEF LifetimeMoves

LEMMA LifetimeNextInv ==
  ASSUME LifetimeInv, [Next]_vars
  PROVE  LifetimeInv'
<1>1. CASE UNCHANGED lifetimeVars
  <2> USE <1>1 DEF lifetimeVars, programVars, sessionVars, trackerVars,
                   LifetimeInv
  <2>1. LifetimeTypes' /\ ProgramInv' /\ HandlersInv'
    BY DEF LifetimeTypes, ProgramInv, Calling, HandlersInv
  <2>2. OnceInv' /\ RaceInv' /\ AliveInv' /\ StaticOwnersAreFreed'
        /\ ReportUnlessRaced'
    BY DEF OnceInv, RaceInv, Overtaken, AliveInv, Over, StaticOwnersAreFreed,
           ReportUnlessRaced
  <2>3. PendingInv'
    BY DEF PendingInv, Pending, Armed, Constructing, Calling
  <2>4. OwnersInv'
    BY DEF OwnersInv, Owned, Pending
  <2> QED BY <2>1, <2>2, <2>3, <2>4
<1>2. CASE LifetimeMoves
  BY <1>2, LifetimeTypesStep, ProgramInvStep, HandlersStep, OnceInvStep,
     RaceInvStep, PendingInvStep, AliveInvStep, OwnersInvStep, StaticOwnersStep,
     ReportStep
     DEF LifetimeInv
<1>3. QED
  BY <1>1, <1>2, LifetimePart

\* What a static object acquired in its constructor is in no report, for any
\* number of objects and threads, wherever the tracking began.
THEOREM StaticOwnersAreNotBlamed == Spec => []StaticOwnersAreFreed
<1>1. LifetimeInv => StaticOwnersAreFreed
  BY DEF LifetimeInv
<1>2. QED
  BY <1>1, LifetimeStart, LifetimeNextInv, PTL DEF Spec

\* A process that was tracked ends with a report, unless two threads ended it or
\* one began to track while it ended.
THEOREM EndsWithReport == Spec => []ReportUnlessRaced
<1>1. LifetimeInv => ReportUnlessRaced
  BY DEF LifetimeInv
<1>2. QED
  BY <1>1, LifetimeStart, LifetimeNextInv, PTL DEF Spec

\* A thread is told to push only while tracking is on, and then the queue is
\* there, if exit() has not overtaken doInitialize.
LEMMA ToldInTime ==
  ASSUME LifetimeInv, [Next]_vars, NEW t \in Thread,
         place'[t] = "push", place[t] # "push"
  PROVE  "EventQueue" \in alive' \/ "lateStart" \in raced'
<1>1. LifetimeInv' /\ LifetimeMoves
  BY LifetimeNextInv, LifetimePart DEF lifetimeVars, programVars
<1>2. initialized' /\ ~Over'
  <2> USE <1>1 DEF programVars, sessionVars, trackerVars, LifetimeMoves, Over
  <2>0. place \in [Thread -> Places] /\ Main \in Thread /\ LifetimeTypes
    BY LifetimeAssumption DEF LifetimeInv, LifetimeTypes
  \* A step to somewhere else is not this one.
  <2>9. ASSUME NEW u \in Thread, NEW p, Goto(u, p), p # "push"
        PROVE  FALSE
    BY <2>0, <2>9, OneThreadMoves
  <2>1. ASSUME NEW u \in Thread, ThreadMoves(u)
        PROVE  initialized' /\ ~Over'
    <3>1. CASE Test(u) \/ AfterOnce(u)
      <4>1. UNCHANGED <<phase, initialized>>
        BY <3>1 DEF Test, AfterOnce
      <4>2. PICK p : Goto(u, p) /\ (p = "push" => initialized)
        BY <3>1 DEF Test, AfterOnce
      <4> QED BY <2>9, <4>1, <4>2
    <3>2. CASE Publish(u)
      BY <3>2 DEF Publish
    <3>3. CASE Push(u) \/ Done(u) \/ EnterOnce(u) \/ Start(u) \/ Register(u)
      <4>1. \E p \in {"done", "unwind", "idle", "Tracker", "register",
                      "publish"} : Goto(u, p)
        BY <3>3 DEF Push, Done, EnterOnce, Statics, Start, Register
      <4> QED BY <2>9, <4>1
    <3>4. ASSUME NEW i \in DOMAIN Statics, ConstructStatic(u, i)
          PROVE  FALSE
      BY <2>9, <3>4, Constructs, InOnceIs
    <3>5. CASE \/ IfInitialized(u) \/ Latch(u) \/ StopQueue(u) \/ Join(u)
               \/ Joined(u) \/ Report(u) \/ Complete(u) \/ Symbolized(u)
      <4>1. \E p \in {"unwind", "kill"} \cup InShutdown : Goto(u, p)
        BY <3>5 DEF IfInitialized, ShutdownReturns, Latch, StopQueue, Join,
           Joined, Report, Complete, Symbolized, InShutdown
      <4> QED BY <2>9, <4>1 DEF InShutdown
    <3>6. CASE RealExitProcess(u)
      BY <3>6 DEF RealExitProcess
    <3> QED BY <2>1, <3>1, <3>2, <3>3, <3>4, <3>5, <3>6
            DEF ThreadMoves, LifetimeCall
  <2>2. CASE ProgramMoves
    <3>1. \/ UNCHANGED place
          \/ \E u \in Thread, p \in {"once", "done", "unwind", "test",
                                     "shutdown"} : Goto(u, p)
      BY <2>0, <2>2 DEF ProgramMoves, RuntimeInitializer, StartMain, CallExit,
         Construct, Acquire, UseMemory, CallExitProcess, Call
    <3> QED BY <2>9, <3>1
  <2>3. CASE Unwind \/ ExitReturns
    <3>1. \/ UNCHANGED place
          \/ \E p \in {"test", "shutdown"} : Goto(Main, p)
      BY <2>3 DEF Unwind, ExitReturns, Call
    <3> QED BY <2>0, <2>9, <3>1
  <2> QED BY <2>1, <2>2, <2>3
<1>3. "EventQueue" \in Range(Statics)
  BY StaticsAre
<1>4. QED
  BY <1>1, <1>2, <1>3 DEF LifetimeInv, AliveInv

\* No call that is told the analyzer is there finds its queue destroyed, if exit()
\* has not overtaken doInitialize.
THEOREM NewCallsFindTheQueue == Spec => NoNewCallTouchesDestroyed
<1>1. ASSUME LifetimeInv, [Next]_vars
      PROVE  [\A t \in Thread : place'[t] = "push" /\ place[t] # "push"
                => "EventQueue" \in alive' \/ "lateStart" \in raced'
             ]_<<place, alive, raced>>
  BY <1>1, ToldInTime
<1>2. QED
  BY <1>1, LifetimeStart, LifetimeNextInv, PTL
     DEF Spec, NoNewCallTouchesDestroyed

==============================================================================
