--------------------------- MODULE ReentrancyProofs ---------------------------
(***************************************************************************)
(* The safety properties of Reentrancy, proved for any number of threads   *)
(* and calls, on either platform.                                          *)
(***************************************************************************)
EXTENDS Reentrancy, FiniteSetTheorems, SequenceTheorems, TLAPS

-----------------------------------------------------------------------------
(* The inductive invariant, in named parts                                 *)

\* Where the calls of each function can be.
OperatorAt == {"enter", "test", "once", "capture", "lock", "locked", "destroy"}
RunAt == {"pop", "copy", "handle", "discard"}
ShutdownAt == {"stop", "join", "report"}

Frame == [fn : Operator \cup {"initialize", "run", "shutdown"},
          at : OperatorAt \cup RunAt \cup ShutdownAt \cup {"body"},
          nested : BOOLEAN, event : Operator \cup {"none"}]

FrameOK(c) ==
  /\ c.fn \in Operator <=> c.at \in OperatorAt
  /\ c.fn = "run" <=> c.at \in RunAt
  /\ c.fn = "shutdown" <=> c.at \in ShutdownAt
  /\ c.fn = "initialize" <=> c.at = "body"
  /\ c.at = "test" => darwin

Shapes ==
  /\ stack \in [Thread -> Seq(Frame)]
  /\ depth \in [Thread -> Int]
  /\ disabled \in [Thread -> BOOLEAN]
  /\ once \in Thread \cup {Nobody, "done"}
  /\ mutex \in Thread \cup {Nobody}
  /\ queue \in Seq(Operator)
  /\ initialized \in BOOLEAN
  /\ complete \in BOOLEAN
  /\ stopped \in BOOLEAN
  /\ darwin \in BOOLEAN
  /\ key \subseteq Thread
  /\ storage \subseteq Thread

\* Where the i-th call of a thread is.
Place(t, i) == IF i <= Len(stack[t]) THEN stack[t][i].at ELSE "none"

\* One of a thread's calls is at one of these places.
Some(t, places) ==
  Place(t, 1) \in places \/ Place(t, 2) \in places \/ Place(t, 3) \in places

Frames(t) == \A i \in 1 .. Len(stack[t]) : FrameOK(stack[t][i])

\* What a thread's outermost call is.
Outer(t) ==
  \/ Place(t, 1) = "none"
  \/ t = Worker /\ Place(t, 1) \in RunAt
  \/ t # Worker /\ Place(t, 1) \in OperatorAt
  \/ t = Main /\ Place(t, 1) \in ShutdownAt

\* What an operator called from it has come to: past the test of the guards only
\* where neither is in force.
Middle(t) ==
  LET out == Place(t, 1)
      in == Place(t, 2)
  IN  \/ in = "none"
      \/ out = "once" /\ in = "body"
      \/ out \in {"capture", "locked", "destroy", "test"} /\ in = "enter"
      \/ out \in {"copy", "handle"} /\ in \in {"enter", "test"}
      \/ out = "report" /\ in \in {"enter", "test", "once"}
      \/ out = "discard" /\ in \in OperatorAt
      \/ out = "pop" /\ darwin /\ in \in OperatorAt

\* An operator called from there does nothing, and nothing is called from it.
Inner(t) ==
  \/ Place(t, 3) = "none"
  \/ /\ Place(t, 3) = "enter"
     /\ Place(t, 2) \in {"body", "capture", "locked", "destroy", "test"}

StackInv(t) ==
  Len(stack[t]) <= 3 /\ Frames(t) /\ Outer(t) /\ Middle(t) /\ Inner(t)

\* The guards that a call at a place holds.
Held(place) ==
  CASE place \in {"capture", "destroy", "body", "copy"} -> 1
    [] place \in {"lock", "locked"} -> 2
    [] OTHER -> 0

\* The counter, the flag, the mutex, the once_flag and the key say where the
\* calls of a thread are.
GuardInv(t) ==
  /\ depth[t] = Held(Place(t, 1)) + Held(Place(t, 2)) + Held(Place(t, 3))
  /\ disabled[t] <=> Some(t, {"handle"})
  /\ mutex = t <=> Some(t, {"locked", "copy"})
  /\ once = t <=> Some(t, {"body"})
  /\ t \in key <=> darwin /\ Some(t, OperatorAt \ {"enter"})

ThreadInv(t) == StackInv(t) /\ GuardInv(t)

\* The tracker thread and shutdown() come after the initialisation, and from
\* shutdown() on tracking stays off.
OrderInv ==
  /\ initialized => once = "done"
  /\ Place(Worker, 1) # "none" => once = "done"
  /\ Place(Main, 1) \in ShutdownAt => once = "done" /\ ~initialized

Inv == Shapes /\ OrderInv /\ \A t \in Thread : ThreadInv(t)

-----------------------------------------------------------------------------
(* The steps of a stack                                                    *)

\* The n-th call of a thread, its innermost, comes to a place, is made there
\* or, if the place is "none", returns.
Alters(t, n, place) ==
  /\ stack' \in [Thread -> Seq(Frame)]
  /\ \A u \in Thread \ {t} : stack'[u] = stack[u]
  /\ Len(stack'[t]) = IF place = "none" THEN n - 1 ELSE n
  /\ \A i \in 1 .. 3 : Place(t, i)' = IF i = n THEN place ELSE Place(t, i)
  /\ Frames(t)'

\* Where the calls of a thread are, in particular the innermost one.
LEMMA Places ==
  ASSUME Shapes, NEW t \in Thread, Len(stack[t]) <= 3
  PROVE  /\ Len(stack[t]) \in 0 .. 3
         /\ stack[t] = <<>> <=> Len(stack[t]) = 0
         /\ \A i \in 1 .. 3 : Place(t, i) = "none" <=> i > Len(stack[t])
         /\ stack[t] # <<>> => Top(t) \in Frame
         /\ stack[t] # <<>> => Place(t, Len(stack[t])) = Top(t).at
<1>1. stack[t] \in Seq(Frame)
  BY DEF Shapes
<1>2. Len(stack[t]) \in Nat
  BY <1>1
<1>3. \A i \in 1 .. Len(stack[t]) : stack[t][i] \in Frame
  BY <1>1
<1>6. \A c \in Frame : c.at # "none"
  BY DEF Frame, OperatorAt, RunAt, ShutdownAt
<1>4. stack[t] = <<>> <=> Len(stack[t]) = 0
  BY <1>1
<1>5. stack[t] # <<>> => Top(t) \in Frame
  BY <1>2, <1>3, <1>4 DEF Top
<1>7. \A i \in 1 .. 3 : Place(t, i) = "none" <=> i > Len(stack[t])
  BY <1>2, <1>3, <1>6 DEF Place
<1>8. stack[t] # <<>> => Place(t, Len(stack[t])) = Top(t).at
  BY <1>2, <1>4 DEF Place, Top
<1>9. Len(stack[t]) \in 0 .. 3
  <2>1. \A n \in Nat : n <= 3 => n \in 0 .. 3
    OBVIOUS
  <2> QED BY <2>1, <1>2, Zenon
<1> QED BY <1>4, <1>5, <1>7, <1>8, <1>9, Zenon

\* The innermost call goes on.
LEMMA Moves ==
  ASSUME Shapes, NEW t \in Thread, StackInv(t), stack[t] # <<>>, NEW place,
         stack' = Moved(t, place), darwin' = darwin,
         \/ Top(t).fn \in Operator /\ place \in OperatorAt
                                   /\ (place = "test" => darwin)
         \/ Top(t).fn = "run" /\ place \in RunAt
         \/ Top(t).fn = "shutdown" /\ place \in ShutdownAt
  PROVE  Alters(t, Len(stack[t]), place)
<1> DEFINE n == Len(stack[t])
<1> DEFINE c == [Top(t) EXCEPT !.at = place, !.nested = FALSE]
<1>1. stack[t] \in Seq(Frame) /\ n \in Nat \ {0}
  BY Places DEF Shapes, StackInv
<1>0. c \in Frame /\ FrameOK(c) /\ c.at = place /\ place # "none"
  <2>1. Top(t) \in Frame
    BY Places DEF StackInv
  <2> QED BY <2>1 DEF Frame, FrameOK, Operator, OperatorAt, RunAt, ShutdownAt
<1>2. stack' = [stack EXCEPT ![t] = [stack[t] EXCEPT ![n] = c]]
  BY <1>1 DEF Moved, Top
<1> DEFINE s == [stack[t] EXCEPT ![n] = c]
<1>3. s \in Seq(Frame) /\ Len(s) = n
  BY <1>0, <1>1
<1>4. \A i \in 1 .. n : s[i] = IF i = n THEN c ELSE stack[t][i]
  BY <1>1
<1>5. /\ stack' \in [Thread -> Seq(Frame)]
      /\ stack'[t] = s
      /\ \A u \in Thread \ {t} : stack'[u] = stack[u]
  <2> HIDE DEF s
  <2>1. stack' = [stack EXCEPT ![t] = s]
    BY <1>2 DEF s
  <2> QED BY <2>1, <1>3 DEF Shapes
<1>6. \A i \in 1 .. 3 : Place(t, i)' = IF i = n THEN place ELSE Place(t, i)
  <2> HIDE DEF s, c
  <2> QED BY <1>0, <1>1, <1>3, <1>4, <1>5 DEF Place
<1>7. Frames(t)'
  <2> HIDE DEF s, c
  <2>1. \A i \in 1 .. n : FrameOK(s[i])
    BY <1>0, <1>1, <1>4 DEF StackInv, Frames
  <2> QED BY <2>1, <1>3, <1>5 DEF Frames, FrameOK
<1>8. QED
  <2> HIDE DEF s, c
  <2> QED BY <1>0, <1>1, <1>3, <1>5, <1>6, <1>7 DEF Alters

\* It returns.
LEMMA Returns ==
  ASSUME Shapes, NEW t \in Thread, StackInv(t), stack[t] # <<>>,
         NEW s, s = SubSeq(stack[t], 1, Len(stack[t]) - 1),
         stack'[t] = s, stack' \in [Thread -> Seq(Frame)],
         \A u \in Thread \ {t} : stack'[u] = stack[u], darwin' = darwin
  PROVE  Alters(t, Len(stack[t]), "none")
<1> DEFINE n == Len(stack[t])
<1>1. stack[t] \in Seq(Frame) /\ n \in 1 .. 3
  BY Places DEF Shapes, StackInv
<1>2. Len(s) = n - 1 /\ \A i \in 1 .. n - 1 : s[i] = stack[t][i]
  BY <1>1
<1>3. \A i \in 1 .. 3 : Place(t, i)' = IF i = n THEN "none" ELSE Place(t, i)
  BY <1>1, <1>2 DEF Place
<1>4. Frames(t)'
  BY <1>1, <1>2 DEF StackInv, Frames, FrameOK
<1>5. QED
  BY <1>1, <1>2, <1>3, <1>4 DEF Alters

\* An operator, or the body of call_once, is called from it.
LEMMA Calls ==
  ASSUME Shapes, NEW t \in Thread, StackInv(t), stack[t] # <<>>,
         NEW s, \/ s = stack[t]
                \/ s = [stack[t] EXCEPT ![Len(stack[t])].nested = TRUE],
         NEW c \in Frame, FrameOK(c), Len(stack[t]) < 3,
         stack' = [stack EXCEPT ![t] = Append(s, c)], darwin' = darwin
  PROVE  Alters(t, Len(stack[t]) + 1, c.at)
<1> DEFINE n == Len(stack[t])
<1>1. stack[t] \in Seq(Frame) /\ n \in 1 .. 3
  BY Places DEF Shapes, StackInv
<1>2. /\ s \in Seq(Frame) /\ Len(s) = n
      /\ \A i \in 1 .. n : s[i] = stack[t][i]
                             \/ s[i] = [stack[t][i] EXCEPT !.nested = TRUE]
  <2>1. \A i \in 1 .. n : stack[t][i] \in Frame
    BY <1>1
  <2>2. \A f \in Frame : [f EXCEPT !.nested = TRUE] \in Frame
    BY DEF Frame
  <2>3. CASE s = stack[t]
    BY <1>1, <2>3
  <2>4. CASE s = [stack[t] EXCEPT ![n].nested = TRUE]
    <3> DEFINE f == [stack[t][n] EXCEPT !.nested = TRUE]
    <3>1. f \in Frame
      BY <1>1, <2>1, <2>2
    <3>2. s = [stack[t] EXCEPT ![n] = f]
      BY <2>4
    <3> HIDE DEF f
    <3>3. /\ s \in Seq(Frame) /\ Len(s) = n
          /\ \A i \in 1 .. n : s[i] = IF i = n THEN f ELSE stack[t][i]
      BY <1>1, <3>1, <3>2
    <3> QED BY <1>1, <3>3 DEF f
  <2> QED BY <2>3, <2>4
<1>3. \A i \in 1 .. n : s[i].at = stack[t][i].at /\ s[i].fn = stack[t][i].fn
  <2>1. \A f \in Frame :
          /\ [f EXCEPT !.nested = TRUE].at = f.at
          /\ [f EXCEPT !.nested = TRUE].fn = f.fn
    BY DEF Frame
  <2>2. \A i \in 1 .. n : stack[t][i] \in Frame
    BY <1>1
  <2> QED BY <1>2, <2>1, <2>2
<1> DEFINE a == Append(s, c)
<1>4. /\ a \in Seq(Frame) /\ Len(a) = n + 1 /\ a[n + 1] = c
      /\ \A i \in 1 .. n : a[i] = s[i]
  BY <1>1, <1>2
<1>5. /\ stack' \in [Thread -> Seq(Frame)]
      /\ stack'[t] = a
      /\ \A u \in Thread \ {t} : stack'[u] = stack[u]
  <2>1. stack' = [stack EXCEPT ![t] = a]
    OBVIOUS
  <2> HIDE DEF a
  <2> QED BY <2>1, <1>4 DEF Shapes
<1> HIDE DEF a
<1>6. \A i \in 1 .. 3 : Place(t, i)' = IF i = n + 1 THEN c.at ELSE Place(t, i)
  BY <1>1, <1>3, <1>4, <1>5 DEF Place
<1>7. Frames(t)'
  BY <1>1, <1>3, <1>4, <1>5 DEF StackInv, Frames, FrameOK
<1>8. c.at # "none"
  BY DEF Frame, OperatorAt, RunAt, ShutdownAt
<1>9. QED
  BY <1>1, <1>4, <1>5, <1>6, <1>7, <1>8 DEF Alters

\* An outermost call is made.
LEMMA Begins ==
  ASSUME Shapes, NEW t \in Thread, stack[t] = <<>>,
         NEW c \in Frame, FrameOK(c), darwin' = darwin,
         stack' \in [Thread -> Seq(Frame)], stack'[t] = <<c>>,
         \A u \in Thread \ {t} : stack'[u] = stack[u]
  PROVE  Alters(t, 1, c.at)
<1>1. \A i \in 1 .. 3 : Place(t, i) = "none"
  BY DEF Place
<1>2. /\ Len(<<c>>) = 1 /\ <<c>>[1] = c
  OBVIOUS
<1>3. \A i \in 1 .. 3 : Place(t, i)' = IF i = 1 THEN c.at ELSE Place(t, i)
  BY <1>1, <1>2 DEF Place
<1>4. Frames(t)'
  BY <1>2 DEF Frames, FrameOK
<1>5. c.at # "none"
  BY DEF Frame, OperatorAt, RunAt, ShutdownAt
<1>6. QED
  BY <1>2, <1>3, <1>4, <1>5 DEF Alters

-----------------------------------------------------------------------------
(* The steps of a thread                                                   *)

\* A step leaves another thread where it is.
Kept(u) ==
  /\ stack'[u] = stack[u]
  /\ depth'[u] = depth[u]
  /\ disabled'[u] = disabled[u]
  /\ mutex' = u <=> mutex = u
  /\ once' = u <=> once = u
  /\ u \in key' <=> u \in key
  /\ darwin' = darwin

\* Such a thread keeps its part of the invariant.
LEMMA KeptInv ==
  ASSUME NEW u \in Thread, ThreadInv(u), Kept(u)
  PROVE  ThreadInv(u)'
<1>1. \A i : Place(u, i)' = Place(u, i)
  BY DEF Place, Kept
<1>2. StackInv(u)'
  BY <1>1 DEF ThreadInv, StackInv, Frames, FrameOK, Outer, Middle, Inner, Kept
<1>3. GuardInv(u)'
  BY <1>1 DEF ThreadInv, GuardInv, Some, Kept
<1>4. QED
  BY <1>2, <1>3 DEF ThreadInv

\* What a step of a thread has to do for the invariant.
LEMMA StepInv ==
  ASSUME Inv, NEW t \in Thread, NEW n \in 1 .. 3, NEW place,
         Alters(t, n, place), Shapes', OrderInv',
         Outer(t)' /\ Middle(t)' /\ Inner(t)' /\ GuardInv(t)',
         \A u \in Thread \ {t} : Kept(u)
  PROVE  Inv'
<1>1. StackInv(t)'
  BY DEF StackInv, Alters
<1>2. \A u \in Thread \ {t} : ThreadInv(u)'
  BY KeptInv DEF Inv
<1>3. QED
  BY <1>1, <1>2 DEF Inv, ThreadInv

\* What is known of a thread whose innermost call is at a place.
LEMMA Comes ==
  ASSUME Inv, NEW t \in Thread, stack[t] # <<>>
  PROVE  /\ Shapes /\ OrderInv /\ StackInv(t) /\ GuardInv(t)
         /\ Len(stack[t]) \in 1 .. 3
         /\ \A i \in 1 .. 3 : Place(t, i) = "none" <=> i > Len(stack[t])
         /\ Place(t, Len(stack[t])) = Top(t).at
         /\ Top(t) \in Frame /\ FrameOK(Top(t))
<1>1. Shapes /\ OrderInv /\ StackInv(t) /\ GuardInv(t)
  BY DEF Inv, ThreadInv
<1>2. Len(stack[t]) \in 1 .. 3
  BY <1>1, Places DEF StackInv
<1>3. FrameOK(Top(t))
  BY <1>1, <1>2 DEF StackInv, Frames, Top
<1>4. QED
  BY <1>1, <1>2, <1>3, Places DEF StackInv

\* What a step does to the outermost calls.
LEMMA Outermost ==
  ASSUME NEW t \in Thread, NEW n \in 1 .. 3, NEW place, Alters(t, n, place)
  PROVE  \A u \in Thread :
           Place(u, 1)' = IF u = t /\ n = 1 THEN place ELSE Place(u, 1)
<1>1. \A u \in Thread \ {t} : Place(u, 1)' = Place(u, 1)
  BY DEF Alters, Place
<1>2. Place(t, 1)' = IF n = 1 THEN place ELSE Place(t, 1)
  BY DEF Alters
<1>3. QED
  BY <1>1, <1>2

\* The threads are different from one another and from what is no thread.
LEMMA Threads ==
  /\ Main \in Thread /\ Worker \in Thread /\ Main # Worker
  /\ Nobody \notin Thread /\ "done" \notin Thread /\ Nobody # "done"
BY ReentrancyAssumption DEF Thread

\* A guard is made or given up.
LEMMA DepthChanges ==
  ASSUME Shapes, NEW t \in Thread, Enter(t) \/ Leave(t)
  PROVE  /\ depth' \in [Thread -> Int]
         /\ \A u \in Thread \ {t} : depth'[u] = depth[u]
<1>1. \A i \in Int : i + 1 \in Int /\ i - 1 \in Int
  OBVIOUS
<1>2. depth \in [Thread -> Int]
  BY DEF Shapes
<1>3. QED
  BY <1>1, <1>2 DEF Enter, Leave

\* The event is complete.
LEMMA CapturedStep ==
  ASSUME Inv, NEW t \in Thread, Captured(t)
  PROVE  Inv'
<1> DEFINE n == Len(stack[t])
<1>1. /\ Shapes /\ OrderInv /\ StackInv(t) /\ GuardInv(t) /\ n \in 1 .. 3
      /\ \A i \in 1 .. 3 : Place(t, i) = "none" <=> i > n
      /\ Place(t, n) = "capture" /\ Top(t).fn \in Operator /\ stack[t] # <<>>
  BY Comes DEF Captured, At
<1>2. Alters(t, n, "lock")
  BY <1>1, Moves DEF Captured, state, life, OperatorAt, RunAt, ShutdownAt
<1> HIDE DEF n
<1>3. Shapes' /\ \A u \in Thread \ {t} : Kept(u)
  <2>1. Shapes'
    BY <1>1, <1>2, Threads, DepthChanges DEF Captured, Alters, Shapes, state,
       life
  <2>2. ASSUME NEW u \in Thread \ {t}
        PROVE  Kept(u)
    BY <1>1, <1>2, Threads, DepthChanges DEF Captured, Alters, Shapes, Kept,
       state, life
  <2> QED BY <2>1, <2>2
<1>4. OrderInv'
  BY <1>1, <1>2, Outermost, Threads DEF Captured, OrderInv, ShutdownAt, state,
     life
<1>5. Outer(t)' /\ Middle(t)' /\ Inner(t)'
  BY <1>1, <1>2, Threads DEF Captured, Alters, StackInv, Outer, Middle, Inner,
                    OperatorAt, RunAt, ShutdownAt, state, life
<1>6. GuardInv(t)'
  <2>1. t # Nobody
    BY Threads
  <2> QED BY <1>1, <1>2, <2>1 DEF Captured, Alters, Shapes, StackInv, Outer,
             Middle, Inner, GuardInv, Held, Some, OperatorAt, RunAt, ShutdownAt,
             state, life, Enter
<1>7. QED
  BY <1>1, <1>2, <1>3, <1>4, <1>5, <1>6, StepInv

\* The queue's mutex is free.
LEMMA LockStep ==
  ASSUME Inv, NEW t \in Thread, Lock(t)
  PROVE  Inv'
<1> DEFINE n == Len(stack[t])
<1>1. /\ Shapes /\ OrderInv /\ StackInv(t) /\ GuardInv(t) /\ n \in 1 .. 3
      /\ \A i \in 1 .. 3 : Place(t, i) = "none" <=> i > n
      /\ Place(t, n) = "lock" /\ Top(t).fn \in Operator /\ stack[t] # <<>>
  BY Comes DEF Lock, At
<1>2. Alters(t, n, "locked")
  BY <1>1, Moves DEF Lock, state, life, OperatorAt, RunAt, ShutdownAt
<1> HIDE DEF n
<1>3. Shapes' /\ \A u \in Thread \ {t} : Kept(u)
  <2>1. Shapes'
    BY <1>1, <1>2, Threads DEF Lock, Alters, Shapes, state, life
  <2>2. ASSUME NEW u \in Thread \ {t}
        PROVE  Kept(u)
    BY <1>1, <1>2, Threads DEF Lock, Alters, Shapes, Kept, state, life
  <2> QED BY <2>1, <2>2
<1>4. OrderInv'
  BY <1>1, <1>2, Outermost, Threads DEF Lock, OrderInv, ShutdownAt, state, life
<1>5. Outer(t)' /\ Middle(t)' /\ Inner(t)'
  BY <1>1, <1>2, Threads DEF Lock, Alters, StackInv, Outer, Middle, Inner,
                    OperatorAt, RunAt, ShutdownAt, state, life
<1>6. GuardInv(t)'
  <2>1. t # Nobody
    BY Threads
  <2> QED BY <1>1, <1>2, <2>1 DEF Lock, Alters, Shapes, StackInv, Outer, Middle,
             Inner, GuardInv, Held, Some, OperatorAt, RunAt, ShutdownAt, state,
             life
<1>7. QED
  BY <1>1, <1>2, <1>3, <1>4, <1>5, <1>6, StepInv

\* push() returns.
LEMMA PushedStep ==
  ASSUME Inv, NEW t \in Thread, Pushed(t)
  PROVE  Inv'
<1> DEFINE n == Len(stack[t])
<1>1. /\ Shapes /\ OrderInv /\ StackInv(t) /\ GuardInv(t) /\ n \in 1 .. 3
      /\ \A i \in 1 .. 3 : Place(t, i) = "none" <=> i > n
      /\ Place(t, n) = "locked" /\ Top(t).fn \in Operator /\ stack[t] # <<>>
  BY Comes DEF Pushed, At
<1>2. Alters(t, n, "destroy")
  BY <1>1, Moves DEF Pushed, state, life, OperatorAt, RunAt, ShutdownAt
<1> HIDE DEF n
<1>3. Shapes' /\ \A u \in Thread \ {t} : Kept(u)
  <2>1. queue' \in Seq(Operator)
    BY <1>1 DEF Pushed, Shapes
  <2>2. mutex = t
    BY <1>1 DEF GuardInv, Some
  <2>3. Shapes'
    BY <1>1, <1>2, <2>1, <2>2, Threads, DepthChanges DEF Pushed, Alters, Shapes,
       state, life
  <2>4. ASSUME NEW u \in Thread \ {t}
        PROVE  Kept(u)
    BY <1>1, <1>2, <2>1, <2>2, Threads, DepthChanges DEF Pushed, Alters, Shapes,
       Kept, state, life
  <2> QED BY <2>3, <2>4
<1>4. OrderInv'
  BY <1>1, <1>2, Outermost, Threads DEF Pushed, OrderInv, ShutdownAt, state,
     life
<1>5. Outer(t)' /\ Middle(t)' /\ Inner(t)'
  BY <1>1, <1>2, Threads DEF Pushed, Alters, StackInv, Outer, Middle, Inner,
                    OperatorAt, RunAt, ShutdownAt, state, life
<1>6. GuardInv(t)'
  <2>1. t # Nobody
    BY Threads
  <2> QED BY <1>1, <1>2, <2>1 DEF Pushed, Alters, Shapes, StackInv, Outer,
             Middle, Inner, GuardInv, Held, Some, OperatorAt, RunAt, ShutdownAt,
             state, life, Leave
<1>7. QED
  BY <1>1, <1>2, <1>3, <1>4, <1>5, <1>6, StepInv

\* A hook says that it is one.
LEMMA SetKeyStep ==
  ASSUME Inv, NEW t \in Thread, SetKey(t)
  PROVE  Inv'
<1> DEFINE n == Len(stack[t])
<1>1. /\ Shapes /\ OrderInv /\ StackInv(t) /\ GuardInv(t) /\ n \in 1 .. 3
      /\ \A i \in 1 .. 3 : Place(t, i) = "none" <=> i > n
      /\ Place(t, n) = "enter" /\ Top(t).fn \in Operator /\ stack[t] # <<>>
  BY Comes DEF SetKey, At
<1>2. Alters(t, n, "test")
  BY <1>1, Moves DEF SetKey, state, life, OperatorAt, RunAt, ShutdownAt
<1> HIDE DEF n
<1>3. Shapes' /\ \A u \in Thread \ {t} : Kept(u)
  <2>1. Shapes'
    BY <1>1, <1>2, Threads DEF SetKey, Alters, Shapes, state, life
  <2>2. ASSUME NEW u \in Thread \ {t}
        PROVE  Kept(u)
    BY <1>1, <1>2, Threads DEF SetKey, Alters, Shapes, Kept, state, life
  <2> QED BY <2>1, <2>2
<1>4. OrderInv'
  BY <1>1, <1>2, Outermost, Threads DEF SetKey, OrderInv, ShutdownAt, state,
     life
<1>5. Outer(t)' /\ Middle(t)' /\ Inner(t)'
  BY <1>1, <1>2, Threads DEF SetKey, Alters, StackInv, Outer, Middle, Inner,
                    OperatorAt, RunAt, ShutdownAt, state, life, GuardInv, Some
<1>6. GuardInv(t)'
  <2>1. t # Nobody
    BY Threads
  <2> QED BY <1>1, <1>2, <2>1 DEF SetKey, Alters, Shapes, StackInv, Outer,
             Middle, Inner, GuardInv, Held, Some, OperatorAt, RunAt, ShutdownAt,
             state, life
<1>7. QED
  BY <1>1, <1>2, <1>3, <1>4, <1>5, <1>6, StepInv

\* waitAndPop goes on.
LEMMA WakeStep ==
  ASSUME Inv, NEW t \in Thread, Wake(t)
  PROVE  Inv'
<1> DEFINE n == Len(stack[t])
<1>1. /\ Shapes /\ OrderInv /\ StackInv(t) /\ GuardInv(t) /\ n \in 1 .. 3
      /\ \A i \in 1 .. 3 : Place(t, i) = "none" <=> i > n
      /\ Place(t, n) = "pop" /\ Top(t).fn = "run" /\ stack[t] # <<>>
  BY Comes DEF Wake, At
<1>2. Alters(t, n, "copy")
  BY <1>1, Moves DEF Wake, state, life, OperatorAt, RunAt, ShutdownAt
<1> HIDE DEF n
<1>3. Shapes' /\ \A u \in Thread \ {t} : Kept(u)
  <2>1. Shapes'
    BY <1>1, <1>2, Threads, DepthChanges DEF Wake, Alters, Shapes, state, life
  <2>2. ASSUME NEW u \in Thread \ {t}
        PROVE  Kept(u)
    BY <1>1, <1>2, Threads, DepthChanges DEF Wake, Alters, Shapes, Kept, state,
       life
  <2> QED BY <2>1, <2>2
<1>4. OrderInv'
  BY <1>1, <1>2, Outermost, Threads DEF Wake, OrderInv, ShutdownAt, state, life
<1>5. Outer(t)' /\ Middle(t)' /\ Inner(t)'
  BY <1>1, <1>2, Threads DEF Wake, Alters, StackInv, Outer, Middle, Inner,
                    OperatorAt, RunAt, ShutdownAt, state, life
<1>6. GuardInv(t)'
  <2>1. t # Nobody
    BY Threads
  <2> QED BY <1>1, <1>2, <2>1 DEF Wake, Alters, Shapes, StackInv, Outer, Middle,
             Inner, GuardInv, Held, Some, OperatorAt, RunAt, ShutdownAt, state,
             life, Enter
<1>7. QED
  BY <1>1, <1>2, <1>3, <1>4, <1>5, <1>6, StepInv

\* A handler returns.
LEMMA HandledStep ==
  ASSUME Inv, NEW t \in Thread, Handled(t)
  PROVE  Inv'
<1> DEFINE n == Len(stack[t])
<1>1. /\ Shapes /\ OrderInv /\ StackInv(t) /\ GuardInv(t) /\ n \in 1 .. 3
      /\ \A i \in 1 .. 3 : Place(t, i) = "none" <=> i > n
      /\ Place(t, n) = "handle" /\ Top(t).fn = "run" /\ stack[t] # <<>>
  BY Comes DEF Handled, At
<1>2. Alters(t, n, "discard")
  BY <1>1, Moves DEF Handled, state, life, OperatorAt, RunAt, ShutdownAt
<1> HIDE DEF n
<1>3. Shapes' /\ \A u \in Thread \ {t} : Kept(u)
  <2>1. Shapes'
    BY <1>1, <1>2, Threads DEF Handled, Alters, Shapes, state, life
  <2>2. ASSUME NEW u \in Thread \ {t}
        PROVE  Kept(u)
    BY <1>1, <1>2, Threads DEF Handled, Alters, Shapes, Kept, state, life
  <2> QED BY <2>1, <2>2
<1>4. OrderInv'
  BY <1>1, <1>2, Outermost, Threads DEF Handled, OrderInv, ShutdownAt, state,
     life
<1>5. Outer(t)' /\ Middle(t)' /\ Inner(t)'
  BY <1>1, <1>2, Threads DEF Handled, Alters, StackInv, Outer, Middle, Inner,
                    OperatorAt, RunAt, ShutdownAt, state, life
<1>6. GuardInv(t)'
  <2>1. t # Nobody
    BY Threads
  <2> QED BY <1>1, <1>2, <2>1 DEF Handled, Alters, Shapes, StackInv, Outer,
             Middle, Inner, GuardInv, Held, Some, OperatorAt, RunAt, ShutdownAt,
             state, life
<1>7. QED
  BY <1>1, <1>2, <1>3, <1>4, <1>5, <1>6, StepInv

\* The queue is stopped.
LEMMA StopStep ==
  ASSUME Inv, NEW t \in Thread, Stop(t)
  PROVE  Inv'
<1> DEFINE n == Len(stack[t])
<1>1. /\ Shapes /\ OrderInv /\ StackInv(t) /\ GuardInv(t) /\ n \in 1 .. 3
      /\ \A i \in 1 .. 3 : Place(t, i) = "none" <=> i > n
      /\ Place(t, n) = "stop" /\ Top(t).fn = "shutdown" /\ stack[t] # <<>>
  BY Comes DEF Stop, At
<1>2. Alters(t, n, "join")
  BY <1>1, Moves DEF Stop, state, life, OperatorAt, RunAt, ShutdownAt
<1> HIDE DEF n
<1>3. Shapes' /\ \A u \in Thread \ {t} : Kept(u)
  <2>1. Shapes'
    BY <1>1, <1>2, Threads DEF Stop, Alters, Shapes, state, life
  <2>2. ASSUME NEW u \in Thread \ {t}
        PROVE  Kept(u)
    BY <1>1, <1>2, Threads DEF Stop, Alters, Shapes, Kept, state, life
  <2> QED BY <2>1, <2>2
<1>4. OrderInv'
  BY <1>1, <1>2, Outermost, Threads DEF Stop, OrderInv, ShutdownAt, state, life
<1>5. Outer(t)' /\ Middle(t)' /\ Inner(t)'
  BY <1>1, <1>2, Threads DEF Stop, Alters, StackInv, Outer, Middle, Inner,
                    OperatorAt, RunAt, ShutdownAt, state, life
<1>6. GuardInv(t)'
  <2>1. t # Nobody
    BY Threads
  <2> QED BY <1>1, <1>2, <2>1 DEF Stop, Alters, Shapes, StackInv, Outer, Middle,
             Inner, GuardInv, Held, Some, OperatorAt, RunAt, ShutdownAt, state,
             life
<1>7. QED
  BY <1>1, <1>2, <1>3, <1>4, <1>5, <1>6, StepInv

\* The tracker thread has ended.
LEMMA JoinStep ==
  ASSUME Inv, NEW t \in Thread, Join(t)
  PROVE  Inv'
<1> DEFINE n == Len(stack[t])
<1>1. /\ Shapes /\ OrderInv /\ StackInv(t) /\ GuardInv(t) /\ n \in 1 .. 3
      /\ \A i \in 1 .. 3 : Place(t, i) = "none" <=> i > n
      /\ Place(t, n) = "join" /\ Top(t).fn = "shutdown" /\ stack[t] # <<>>
  BY Comes DEF Join, At
<1>2. Alters(t, n, "report")
  BY <1>1, Moves DEF Join, state, life, OperatorAt, RunAt, ShutdownAt
<1> HIDE DEF n
<1>3. Shapes' /\ \A u \in Thread \ {t} : Kept(u)
  <2>1. Shapes'
    BY <1>1, <1>2, Threads DEF Join, Alters, Shapes, state, life
  <2>2. ASSUME NEW u \in Thread \ {t}
        PROVE  Kept(u)
    BY <1>1, <1>2, Threads DEF Join, Alters, Shapes, Kept, state, life
  <2> QED BY <2>1, <2>2
<1>4. OrderInv'
  BY <1>1, <1>2, Outermost, Threads DEF Join, OrderInv, ShutdownAt, state, life
<1>5. Outer(t)' /\ Middle(t)' /\ Inner(t)'
  BY <1>1, <1>2, Threads DEF Join, Alters, StackInv, Outer, Middle, Inner,
                    OperatorAt, RunAt, ShutdownAt, state, life
<1>6. GuardInv(t)'
  <2>1. t # Nobody
    BY Threads
  <2> QED BY <1>1, <1>2, <2>1 DEF Join, Alters, Shapes, StackInv, Outer, Middle,
             Inner, GuardInv, Held, Some, OperatorAt, RunAt, ShutdownAt, state,
             life
<1>7. QED
  BY <1>1, <1>2, <1>3, <1>4, <1>5, <1>6, StepInv

\* It returns and nothing else is done to a stack.
LEMMA Pops ==
  ASSUME Shapes, NEW t \in Thread, StackInv(t), stack[t] # <<>>,
         stack' = Returned(t), darwin' = darwin
  PROVE  Alters(t, Len(stack[t]), "none")
<1> DEFINE s == SubSeq(stack[t], 1, Len(stack[t]) - 1)
<1>1. s \in Seq(Frame)
  <2>1. stack[t] \in Seq(Frame) /\ Len(stack[t]) \in 1 .. 3
    BY Places DEF Shapes, StackInv
  <2> QED BY <2>1
<1>2. stack' = [stack EXCEPT ![t] = s]
  BY DEF Returned
<1>3. /\ stack'[t] = s /\ stack' \in [Thread -> Seq(Frame)]
      /\ \A u \in Thread \ {t} : stack'[u] = stack[u]
  <2> HIDE DEF s
  <2> QED BY <1>1, <1>2 DEF Shapes
<1>4. QED
  BY <1>3, Returns

\* A hook in a hook returns.
LEMMA ReenterStep ==
  ASSUME Inv, NEW t \in Thread, Reenter(t)
  PROVE  Inv'
<1> DEFINE n == Len(stack[t])
<1>1. /\ Shapes /\ OrderInv /\ StackInv(t) /\ GuardInv(t) /\ n \in 1 .. 3
      /\ \A i \in 1 .. 3 : Place(t, i) = "none" <=> i > n
      /\ Place(t, n) = "enter" /\ Top(t).fn \in Operator /\ stack[t] # <<>>
  BY Comes DEF Reenter, At
<1>2. Alters(t, n, "none")
  BY <1>1, Pops DEF Reenter, state, life
<1> HIDE DEF n
<1>3. Shapes' /\ \A u \in Thread \ {t} : Kept(u)
  <2>1. Shapes'
    BY <1>1, <1>2, Threads DEF Reenter, Alters, Shapes, state, life
  <2>2. ASSUME NEW u \in Thread \ {t}
        PROVE  Kept(u)
    BY <1>1, <1>2, Threads DEF Reenter, Alters, Shapes, Kept, state, life
  <2> QED BY <2>1, <2>2
<1>4. OrderInv'
  BY <1>1, <1>2, Outermost, Threads DEF Reenter, OrderInv, ShutdownAt, state,
     life
<1>5. Outer(t)' /\ Middle(t)' /\ Inner(t)'
  BY <1>1, <1>2, Threads DEF Reenter, Alters, StackInv, Outer, Middle, Inner,
                    OperatorAt, RunAt, ShutdownAt, state, life
<1>6. GuardInv(t)'
  <2>1. t # Nobody
    BY Threads
  <2> QED BY <1>1, <1>2, <2>1 DEF Reenter, Alters, Shapes, StackInv, Outer,
             Middle, Inner, GuardInv, Held, Some, OperatorAt, RunAt, ShutdownAt,
             state, life
<1>7. QED
  BY <1>1, <1>2, <1>3, <1>4, <1>5, <1>6, StepInv

\* A call finds tracking off.
LEMMA IgnoreStep ==
  ASSUME Inv, NEW t \in Thread, Ignore(t)
  PROVE  Inv'
<1> DEFINE n == Len(stack[t])
<1>1. /\ Shapes /\ OrderInv /\ StackInv(t) /\ GuardInv(t) /\ n \in 1 .. 3
      /\ \A i \in 1 .. 3 : Place(t, i) = "none" <=> i > n
      /\ Place(t, n) = (IF darwin THEN "test" ELSE "enter")
      /\ Top(t).fn \in Operator /\ stack[t] # <<>>
  BY Comes DEF Ignore, At, Tests
<1>2. Alters(t, n, "none")
  BY <1>1, Pops DEF Ignore, state, life, HookReturns
<1> HIDE DEF n
<1>3. Shapes' /\ \A u \in Thread \ {t} : Kept(u)
  <2>1. Shapes'
    BY <1>1, <1>2, Threads DEF Ignore, Alters, Shapes, state, life, HookReturns
  <2>2. ASSUME NEW u \in Thread \ {t}
        PROVE  Kept(u)
    BY <1>1, <1>2, Threads DEF Ignore, Alters, Shapes, Kept, state, life,
       HookReturns
  <2> QED BY <2>1, <2>2
<1>4. OrderInv'
  BY <1>1, <1>2, Outermost, Threads DEF Ignore, OrderInv, ShutdownAt, state,
     life, HookReturns
<1>5. Outer(t)' /\ Middle(t)' /\ Inner(t)'
  BY <1>1, <1>2, Threads DEF Ignore, Alters, StackInv, Outer, Middle, Inner,
                    OperatorAt, RunAt, ShutdownAt, state, life, HookReturns
<1>6. GuardInv(t)'
  <2>1. t # Nobody
    BY Threads
  <2> QED BY <1>1, <1>2, <2>1 DEF Ignore, Alters, Shapes, StackInv, Outer,
             Middle, Inner, GuardInv, Held, Some, OperatorAt, RunAt, ShutdownAt,
             state, life, HookReturns
<1>7. QED
  BY <1>1, <1>2, <1>3, <1>4, <1>5, <1>6, StepInv

\* A tracked operator is done.
LEMMA TrackedStep ==
  ASSUME Inv, NEW t \in Thread, Tracked(t)
  PROVE  Inv'
<1> DEFINE n == Len(stack[t])
<1>1. /\ Shapes /\ OrderInv /\ StackInv(t) /\ GuardInv(t) /\ n \in 1 .. 3
      /\ \A i \in 1 .. 3 : Place(t, i) = "none" <=> i > n
      /\ Place(t, n) = "destroy" /\ Top(t).fn \in Operator /\ stack[t] # <<>>
  BY Comes DEF Tracked, At
<1>2. Alters(t, n, "none")
  BY <1>1, Pops DEF Tracked, state, life, HookReturns
<1> HIDE DEF n
<1>3. Shapes' /\ \A u \in Thread \ {t} : Kept(u)
  <2>1. key' = key \ {t}
    BY DEF Tracked, HookReturns
  <2>2. /\ key' \subseteq Thread
        /\ \A u \in Thread \ {t} : u \in key' <=> u \in key
    BY <1>1, <2>1 DEF Shapes
  <2>3. /\ depth' \in [Thread -> Int]
        /\ \A u \in Thread \ {t} : depth'[u] = depth[u]
    BY <1>1 DEF Tracked, Leave, Shapes
  <2>4. Shapes'
    BY <1>1, <1>2, <2>2, <2>3 DEF Tracked, Alters, Shapes, state, life
  <2>5. ASSUME NEW u \in Thread \ {t}
        PROVE  Kept(u)
    BY <1>1, <1>2, <2>2, <2>3 DEF Tracked, Alters, Shapes, Kept, state, life
  <2> QED BY <2>4, <2>5
<1>4. OrderInv'
  BY <1>1, <1>2, Outermost, Threads DEF Tracked, OrderInv, ShutdownAt, state,
     life, HookReturns
<1>5. Outer(t)' /\ Middle(t)' /\ Inner(t)'
  BY <1>1, <1>2, Threads DEF Tracked, Alters, StackInv, Outer, Middle, Inner,
                    OperatorAt, RunAt, ShutdownAt, state, life, HookReturns
<1>6. GuardInv(t)'
  <2>1. t # Nobody
    BY Threads
  <2> QED BY <1>1, <1>2, <2>1 DEF Tracked, Alters, Shapes, StackInv, Outer,
             Middle, Inner, GuardInv, Held, Some, OperatorAt, RunAt, ShutdownAt,
             state, life, HookReturns, Leave
<1>7. QED
  BY <1>1, <1>2, <1>3, <1>4, <1>5, <1>6, StepInv

\* The tracker thread ends.
LEMMA EndStep ==
  ASSUME Inv, NEW t \in Thread, End(t)
  PROVE  Inv'
<1> DEFINE n == Len(stack[t])
<1>1. /\ Shapes /\ OrderInv /\ StackInv(t) /\ GuardInv(t) /\ n \in 1 .. 3
      /\ \A i \in 1 .. 3 : Place(t, i) = "none" <=> i > n
      /\ Place(t, n) = "copy" /\ Top(t).fn = "run" /\ stack[t] # <<>>
  BY Comes DEF End, At
<1>2. Alters(t, n, "none")
  BY <1>1, Pops DEF End, state, life
<1> HIDE DEF n
<1>3. Shapes' /\ \A u \in Thread \ {t} : Kept(u)
  <2>1. mutex = t
    BY <1>1 DEF GuardInv, Some
  <2>2. Shapes'
    BY <1>1, <1>2, Threads, DepthChanges DEF End, Alters, Shapes, state, life
  <2>3. ASSUME NEW u \in Thread \ {t}
        PROVE  Kept(u)
    BY <1>1, <1>2, <2>1, Threads, DepthChanges DEF End, Alters, Shapes, Kept,
       state, life
  <2> QED BY <2>2, <2>3
<1>4. OrderInv'
  BY <1>1, <1>2, Outermost, Threads DEF End, OrderInv, ShutdownAt, state, life
<1>5. Outer(t)' /\ Middle(t)' /\ Inner(t)'
  BY <1>1, <1>2, Threads DEF End, Alters, StackInv, Outer, Middle, Inner,
                    OperatorAt, RunAt, ShutdownAt, state, life
<1>6. GuardInv(t)'
  <2>1. t # Nobody
    BY Threads
  <2> QED BY <1>1, <1>2, <2>1 DEF End, Alters, Shapes, StackInv, Outer, Middle,
             Inner, GuardInv, Held, Some, OperatorAt, RunAt, ShutdownAt, state,
             life, Leave
<1>7. QED
  BY <1>1, <1>2, <1>3, <1>4, <1>5, <1>6, StepInv

\* shutdown() is done.
LEMMA ReportedStep ==
  ASSUME Inv, NEW t \in Thread, Reported(t)
  PROVE  Inv'
<1> DEFINE n == Len(stack[t])
<1>1. /\ Shapes /\ OrderInv /\ StackInv(t) /\ GuardInv(t) /\ n \in 1 .. 3
      /\ \A i \in 1 .. 3 : Place(t, i) = "none" <=> i > n
      /\ Place(t, n) = "report" /\ Top(t).fn = "shutdown" /\ stack[t] # <<>>
  BY Comes DEF Reported, At
<1>2. Alters(t, n, "none")
  BY <1>1, Pops DEF Reported, state, life
<1> HIDE DEF n
<1>3. Shapes' /\ \A u \in Thread \ {t} : Kept(u)
  <2>1. Shapes'
    BY <1>1, <1>2, Threads DEF Reported, Alters, Shapes, state, life
  <2>2. ASSUME NEW u \in Thread \ {t}
        PROVE  Kept(u)
    BY <1>1, <1>2, Threads DEF Reported, Alters, Shapes, Kept, state, life
  <2> QED BY <2>1, <2>2
<1>4. OrderInv'
  BY <1>1, <1>2, Outermost, Threads DEF Reported, OrderInv, ShutdownAt, state,
     life
<1>5. Outer(t)' /\ Middle(t)' /\ Inner(t)'
  BY <1>1, <1>2, Threads DEF Reported, Alters, StackInv, Outer, Middle, Inner,
                    OperatorAt, RunAt, ShutdownAt, state, life
<1>6. GuardInv(t)'
  <2>1. t # Nobody
    BY Threads
  <2> QED BY <1>1, <1>2, <2>1 DEF Reported, Alters, Shapes, StackInv, Outer,
             Middle, Inner, GuardInv, Held, Some, OperatorAt, RunAt, ShutdownAt,
             state, life
<1>7. QED
  BY <1>1, <1>2, <1>3, <1>4, <1>5, <1>6, StepInv

\* A thread runs the body of call_once.
LEMMA InitializeStep ==
  ASSUME Inv, NEW t \in Thread, Initialize(t)
  PROVE  Inv'
<1> DEFINE n == Len(stack[t])
<1>1. /\ Shapes /\ OrderInv /\ StackInv(t) /\ GuardInv(t) /\ n \in 1 .. 3
      /\ \A i \in 1 .. 3 : Place(t, i) = "none" <=> i > n
      /\ Place(t, n) = "once" /\ Top(t).fn \in Operator /\ stack[t] # <<>>
  BY Comes DEF Initialize, At
<1>0. n < 3
  BY <1>1 DEF StackInv, Inner

<1>2. Alters(t, n + 1, "body")
  <2> DEFINE c == Call("initialize", "body")
  <2>2. c \in Frame /\ FrameOK(c) /\ c.at = "body"
    BY DEF Call, Frame, FrameOK, Operator, OperatorAt, RunAt, ShutdownAt
  <2>3. stack' = [stack EXCEPT ![t] = Append(stack[t], c)]
    BY DEF Initialize
  <2>4. darwin' = darwin
    BY DEF Initialize, state
  <2> HIDE DEF c
  <2>5. Alters(t, n + 1, c.at)
    BY <1>1, <1>0, <2>2, <2>3, <2>4, Calls
  <2> QED BY <2>2, <2>5
<1> HIDE DEF n
<1>3. Shapes' /\ \A u \in Thread \ {t} : Kept(u)
  <2>1. Shapes'
    BY <1>1, <1>0, <1>2, Threads, DepthChanges DEF Initialize, Alters, Shapes,
       state, life, GuardInv, Some
  <2>2. ASSUME NEW u \in Thread \ {t}
        PROVE  Kept(u)
    BY <1>1, <1>0, <1>2, Threads, DepthChanges DEF Initialize, Alters, Shapes,
       Kept, state, life, GuardInv, Some
  <2> QED BY <2>1, <2>2
<1>4. OrderInv'
  BY <1>1, <1>0, <1>2, Outermost, Threads DEF Initialize, OrderInv, ShutdownAt,
     state, life
<1>5. Outer(t)' /\ Middle(t)' /\ Inner(t)'
  BY <1>1, <1>0, <1>2, Threads DEF Initialize, Alters, StackInv, Outer, Middle,
     Inner, OperatorAt, RunAt, ShutdownAt, state, life, OrderInv
<1>6. GuardInv(t)'
  <2>1. t # Nobody
    BY Threads
  <2> QED BY <1>1, <1>0, <1>2, <2>1 DEF Initialize, Alters, Shapes, StackInv,
             Outer, Middle, Inner, GuardInv, Held, Some, OperatorAt, RunAt,
             ShutdownAt, state, life, Enter, OrderInv
<1>7. QED
  BY <1>1, <1>0, <1>2, <1>3, <1>4, <1>5, <1>6, StepInv

\* A call allocates.
LEMMA NestedStep ==
  ASSUME Inv, NEW t \in Thread, Nested(t)
  PROVE  Inv'
<1> DEFINE n == Len(stack[t])
<1>1. /\ Shapes /\ OrderInv /\ StackInv(t) /\ GuardInv(t) /\ n \in 1 .. 3
      /\ \A i \in 1 .. 3 : Place(t, i) = "none" <=> i > n
      /\ Place(t, n) \in {"body", "copy", "handle", "report", "capture",
                         "locked", "destroy", "discard"}
      /\ Place(t, n) = Top(t).at /\ stack[t] # <<>>
  BY Comes DEF Nested, At, Allocates
<1>0. n < 3
  BY <1>1 DEF StackInv, Inner

<1>2. Alters(t, n + 1, "enter")
  <2> DEFINE s == [stack[t] EXCEPT ![Len(stack[t])].nested = TRUE]
  <2>1. PICK op \in Operator : stack' = [stack EXCEPT ![t] =
                                  Append(s, Call(op, "enter"))]
    BY DEF Nested, Allocates, Operator
  <2> DEFINE c == Call(op, "enter")
  <2>2. c \in Frame /\ FrameOK(c) /\ c.at = "enter"
    BY DEF Call, Frame, FrameOK, Operator, OperatorAt, RunAt, ShutdownAt
  <2>3. darwin' = darwin
    BY DEF Nested, state
  <2> HIDE DEF c
  <2>4. Alters(t, n + 1, c.at)
    BY <1>1, <1>0, <2>1, <2>2, <2>3, Calls DEF c
  <2> QED BY <2>2, <2>4
<1> HIDE DEF n
<1>3. Shapes' /\ \A u \in Thread \ {t} : Kept(u)
  <2>1. Shapes'
    BY <1>1, <1>0, <1>2, Threads DEF Nested, Alters, Shapes, state, life
  <2>2. ASSUME NEW u \in Thread \ {t}
        PROVE  Kept(u)
    BY <1>1, <1>0, <1>2, Threads DEF Nested, Alters, Shapes, Kept, state, life
  <2> QED BY <2>1, <2>2
<1>4. OrderInv'
  BY <1>1, <1>0, <1>2, Outermost, Threads DEF Nested, OrderInv, ShutdownAt,
     state, life
<1>5. Outer(t)' /\ Middle(t)' /\ Inner(t)'
  BY <1>1, <1>0, <1>2, Threads DEF Nested, Alters, StackInv, Outer, Middle,
     Inner, OperatorAt, RunAt, ShutdownAt, state, life
<1>6. GuardInv(t)'
  <2>1. t # Nobody
    BY Threads
  <2> QED BY <1>1, <1>0, <1>2, <2>1 DEF Nested, Alters, Shapes, StackInv, Outer,
             Middle, Inner, GuardInv, Held, Some, OperatorAt, RunAt, ShutdownAt,
             state, life
<1>7. QED
  BY <1>1, <1>0, <1>2, <1>3, <1>4, <1>5, <1>6, StepInv

\* A thread allocates the storage of its guards.
LEMMA AllocateStorageStep ==
  ASSUME Inv, NEW t \in Thread, AllocateStorage(t)
  PROVE  Inv'
<1> DEFINE n == Len(stack[t])
<1>1. /\ Shapes /\ OrderInv /\ StackInv(t) /\ GuardInv(t) /\ n \in 1 .. 3
      /\ \A i \in 1 .. 3 : Place(t, i) = "none" <=> i > n
      /\ Place(t, n) \in {"test", "pop"} /\ darwin /\ stack[t] # <<>>
  BY Comes DEF AllocateStorage, At, LacksStorage
<1>0. n < 3
  BY <1>1 DEF StackInv, Inner

<1>2. Alters(t, n + 1, "enter")
  <2> DEFINE s == [stack[t] EXCEPT ![Len(stack[t])].nested = TRUE]
  <2>1. PICK op \in Operator : stack' = [stack EXCEPT ![t] =
                                  Append(s, Call(op, "enter"))]
    BY DEF AllocateStorage, Allocates, Operator
  <2> DEFINE c == Call(op, "enter")
  <2>2. c \in Frame /\ FrameOK(c) /\ c.at = "enter"
    BY DEF Call, Frame, FrameOK, Operator, OperatorAt, RunAt, ShutdownAt
  <2>3. darwin' = darwin
    BY DEF AllocateStorage, state
  <2> HIDE DEF c
  <2>4. Alters(t, n + 1, c.at)
    BY <1>1, <1>0, <2>1, <2>2, <2>3, Calls DEF c
  <2> QED BY <2>2, <2>4
<1> HIDE DEF n
<1>3. Shapes' /\ \A u \in Thread \ {t} : Kept(u)
  <2>1. Shapes'
    BY <1>1, <1>0, <1>2, Threads DEF AllocateStorage, Alters, Shapes, state,
       life
  <2>2. ASSUME NEW u \in Thread \ {t}
        PROVE  Kept(u)
    BY <1>1, <1>0, <1>2, Threads DEF AllocateStorage, Alters, Shapes, Kept,
       state, life
  <2> QED BY <2>1, <2>2
<1>4. OrderInv'
  BY <1>1, <1>0, <1>2, Outermost, Threads DEF AllocateStorage, OrderInv,
     ShutdownAt, state, life
<1>5. Outer(t)' /\ Middle(t)' /\ Inner(t)'
  BY <1>1, <1>0, <1>2, Threads DEF AllocateStorage, Alters, StackInv, Outer,
     Middle, Inner, OperatorAt, RunAt, ShutdownAt, state, life
<1>6. GuardInv(t)'
  <2>1. t # Nobody
    BY Threads
  <2> QED BY <1>1, <1>0, <1>2, <2>1 DEF AllocateStorage, Alters, Shapes,
             StackInv, Outer, Middle, Inner, GuardInv, Held, Some, OperatorAt,
             RunAt, ShutdownAt, state, life
<1>7. QED
  BY <1>1, <1>0, <1>2, <1>3, <1>4, <1>5, <1>6, StepInv

\* A thread stores the storage of its guards.
LEMMA StoreStorageStep ==
  ASSUME Inv, NEW t \in Thread, StoreStorage(t)
  PROVE  Inv'
<1> DEFINE n == Len(stack[t])
<1>1. /\ Shapes /\ OrderInv /\ StackInv(t) /\ GuardInv(t) /\ n \in 1 .. 3
      /\ \A i \in 1 .. 3 : Place(t, i) = "none" <=> i > n
      /\ Place(t, n) \in {"test", "pop"}
      /\ Place(t, n) = Top(t).at /\ darwin /\ FrameOK(Top(t)) /\ stack[t] # <<>>
  BY Comes DEF StoreStorage, At, LacksStorage
<1>2. Alters(t, n, Place(t, n))
  <2>1. /\ stack' = Moved(t, Place(t, n))
        /\ darwin' = darwin
    BY <1>1 DEF StoreStorage
  <2>2. \/ Top(t).fn \in Operator /\ Place(t, n) \in OperatorAt /\ darwin
        \/ Top(t).fn = "run" /\ Place(t, n) \in RunAt
    BY <1>1 DEF FrameOK, OperatorAt, RunAt
  <2> QED BY <1>1, <2>1, <2>2, Moves
<1> HIDE DEF n
<1>3. Shapes' /\ \A u \in Thread \ {t} : Kept(u)
  <2>1. Shapes'
    BY <1>1, <1>2, Threads DEF StoreStorage, Alters, Shapes, state, life
  <2>2. ASSUME NEW u \in Thread \ {t}
        PROVE  Kept(u)
    BY <1>1, <1>2, Threads DEF StoreStorage, Alters, Shapes, Kept, state, life
  <2> QED BY <2>1, <2>2
<1>4. OrderInv'
  BY <1>1, <1>2, Outermost, Threads DEF StoreStorage, OrderInv, ShutdownAt,
     state, life
<1>5. Outer(t)' /\ Middle(t)' /\ Inner(t)'
  BY <1>1, <1>2, Threads DEF StoreStorage, Alters, StackInv, Outer, Middle,
     Inner, OperatorAt, RunAt, ShutdownAt, state, life
<1>6. GuardInv(t)'
  <2>1. t # Nobody
    BY Threads
  <2> QED BY <1>1, <1>2, <2>1 DEF StoreStorage, Alters, Shapes, StackInv, Outer,
             Middle, Inner, GuardInv, Held, Some, OperatorAt, RunAt, ShutdownAt,
             state, life
<1>7. QED
  BY <1>1, <1>2, <1>3, <1>4, <1>5, <1>6, StepInv

\* A call finds all in place, or comes to call_once.
LEMMA EnsureStep ==
  ASSUME Inv, NEW t \in Thread, Ensure(t)
  PROVE  Inv'
<1> DEFINE n == Len(stack[t])
<1>1. /\ Shapes /\ OrderInv /\ StackInv(t) /\ GuardInv(t) /\ n \in 1 .. 3
      /\ \A i \in 1 .. 3 : Place(t, i) = "none" <=> i > n
      /\ Place(t, n) = (IF darwin THEN "test" ELSE "enter")
      /\ Top(t).fn \in Operator /\ stack[t] # <<>>
  BY Comes DEF Ensure, At, Tests
<1>2. Alters(t, n, IF initialized THEN "capture" ELSE "once")
  <2>1. /\ stack' = Moved(t, IF initialized THEN "capture" ELSE "once")
        /\ darwin' = darwin
    BY DEF Ensure, state
  <2> QED BY <1>1, <2>1, Moves DEF OperatorAt
<1> HIDE DEF n
<1>3. Shapes' /\ \A u \in Thread \ {t} : Kept(u)
  <2>1. /\ depth' \in [Thread -> Int]
        /\ \A u \in Thread \ {t} : depth'[u] = depth[u]
    BY <1>1 DEF Ensure, Enter, Shapes
  <2>2. Shapes'
    BY <1>1, <1>2, <2>1, Threads DEF Ensure, Alters, Shapes, state, life
  <2>3. ASSUME NEW u \in Thread \ {t}
        PROVE  Kept(u)
    BY <1>1, <1>2, <2>1, Threads DEF Ensure, Alters, Shapes, Kept, state, life
  <2> QED BY <2>2, <2>3
<1>4. OrderInv'
  BY <1>1, <1>2, Outermost, Threads DEF Ensure, OrderInv, ShutdownAt, state,
     life
<1>5. Outer(t)' /\ Middle(t)' /\ Inner(t)'
  <2>1. depth[t] = 0 /\ ~disabled[t]
    BY <1>1 DEF Ensure, Disabled, GuardInv, Held
  <2>2. \A i \in 1 .. 3 : Place(t, i) \notin
          {"capture", "destroy", "body", "copy", "locked", "handle"}
    BY <1>1, <2>1 DEF GuardInv, Held, Some
  <2>3. \A i \in 1 .. 3 : Place(t, i) = "test" => darwin
    BY <1>1 DEF StackInv, Frames, FrameOK, Place
  <2> QED
    BY <1>1, <1>2, <2>2, <2>3, Threads DEF Ensure, Alters, StackInv, Outer,
       Middle, Inner, OperatorAt, RunAt, ShutdownAt, state, life, OrderInv
<1>6. GuardInv(t)'
  <2>1. t # Nobody
    BY Threads
  <2> QED BY <1>1, <1>2, <2>1 DEF Ensure, Alters, Shapes, StackInv, Outer,
             Middle, Inner, GuardInv, Held, Some, OperatorAt, RunAt, ShutdownAt,
             state, life, Enter, Disabled, OrderInv
<1>7. QED
  BY <1>1, <1>2, <1>3, <1>4, <1>5, <1>6, StepInv

\* A thread has waited for call_once.
LEMMA AfterOnceStep ==
  ASSUME Inv, NEW t \in Thread, AfterOnce(t)
  PROVE  Inv'
<1> DEFINE n == Len(stack[t])
<1>1. /\ Shapes /\ OrderInv /\ StackInv(t) /\ GuardInv(t) /\ n \in 1 .. 3
      /\ \A i \in 1 .. 3 : Place(t, i) = "none" <=> i > n
      /\ Place(t, n) = "once" /\ Top(t).fn \in Operator /\ stack[t] # <<>>
  BY Comes DEF AfterOnce, At
<1>2. Alters(t, n, IF initialized THEN "capture" ELSE "none")
  <2>1. darwin' = darwin
    BY DEF AfterOnce
  <2>2. CASE initialized
    <3>1. stack' = Moved(t, "capture")
      BY <2>2 DEF AfterOnce
    <3> QED BY <1>1, <2>1, <2>2, <3>1, Moves DEF OperatorAt
  <2>3. CASE ~initialized
    <3>1. stack' = Returned(t)
      BY <2>3 DEF AfterOnce, HookReturns
    <3> QED BY <1>1, <2>1, <2>3, <3>1, Pops
  <2> QED BY <2>2, <2>3
<1> HIDE DEF n
<1>3. Shapes' /\ \A u \in Thread \ {t} : Kept(u)
  <2>1. /\ depth' \in [Thread -> Int]
        /\ \A u \in Thread \ {t} : depth'[u] = depth[u]
    BY <1>1 DEF AfterOnce, Enter, Shapes
  <2>2. /\ key' \subseteq Thread
        /\ \A u \in Thread \ {t} : u \in key' <=> u \in key
    BY <1>1 DEF AfterOnce, HookReturns, Shapes
  <2>3. Shapes'
    BY <1>1, <1>2, <2>1, <2>2, Threads DEF AfterOnce, Alters, Shapes, state,
       life
  <2>4. ASSUME NEW u \in Thread \ {t}
        PROVE  Kept(u)
    BY <1>1, <1>2, <2>1, <2>2, Threads DEF AfterOnce, Alters, Shapes, Kept,
       state, life
  <2> QED BY <2>3, <2>4
<1>4. OrderInv'
  BY <1>1, <1>2, Outermost, Threads DEF AfterOnce, OrderInv, ShutdownAt, state,
     life
<1>5. Outer(t)' /\ Middle(t)' /\ Inner(t)'
  BY <1>1, <1>2, Threads DEF AfterOnce, Alters, StackInv, Outer, Middle, Inner,
                    OperatorAt, RunAt, ShutdownAt, state, life, OrderInv
<1>6. GuardInv(t)'
  <2>1. t # Nobody
    BY Threads
  <2> QED BY <1>1, <1>2, <2>1 DEF AfterOnce, Alters, Shapes, StackInv, Outer,
             Middle, Inner, GuardInv, Held, Some, OperatorAt, RunAt, ShutdownAt,
             state, life, Enter, HookReturns, OrderInv
<1>7. QED
  BY <1>1, <1>2, <1>3, <1>4, <1>5, <1>6, StepInv

\* A thread's outermost call goes on and has or gives up an event.
MovedWith(t, place, e) == [Moved(t, place) EXCEPT ![t][1].event = e]

LEMMA MovesWithEvent ==
  ASSUME Shapes, NEW t \in Thread, StackInv(t), stack[t] # <<>>,
         Len(stack[t]) = 1,
         NEW place \in RunAt, NEW e \in Operator \cup {"none"},
         Top(t).fn = "run", darwin' = darwin,
         stack' = MovedWith(t, place, e)
  PROVE  Alters(t, 1, place)
<1> DEFINE c == [Top(t) EXCEPT !.at = place, !.nested = FALSE]
<1> DEFINE d == [c EXCEPT !.event = e]
<1>0. stack[t] \in Seq(Frame)
  BY DEF Shapes
<1>1. stack[t] # <<>> /\ Len(stack[t]) = 1
  OBVIOUS
<1>2. Top(t) \in Frame
  BY <1>1, Places DEF StackInv
<1>3. /\ c \in Frame /\ d \in Frame /\ FrameOK(d)
      /\ d.at = place /\ place # "none"
  <2>1. /\ c \in Frame /\ c.fn = "run" /\ c.at = place
    BY <1>2 DEF Frame, RunAt
  <2> HIDE DEF c
  <2>2. d \in Frame /\ d.fn = "run" /\ d.at = place
    BY <2>1 DEF Frame
  <2> HIDE DEF d
  <2> QED BY <2>1, <2>2 DEF FrameOK, Operator, OperatorAt, RunAt, ShutdownAt
<1> HIDE DEF d
<1> DEFINE s == [stack[t] EXCEPT ![1] = c]
<1> DEFINE r == [s EXCEPT ![1] = d]
<1>4. s \in Seq(Frame) /\ Len(s) = 1 /\ s[1] = c
  BY <1>0, <1>3
<1>5. r \in Seq(Frame) /\ Len(r) = 1 /\ r[1] = d
  <2> HIDE DEF s, c
  <2> QED BY <1>3, <1>4, ExceptSeq
<1>6. stack' = [stack EXCEPT ![t] = r]
  <2>1. Moved(t, place) = [stack EXCEPT ![t] = s]
    BY <1>1 DEF Moved, Top
  <2>2. [stack EXCEPT ![t] = s][t] = s
    BY DEF Shapes
  <2>3. stack' = [[stack EXCEPT ![t] = s] EXCEPT ![t] =
                    [s EXCEPT ![1] = [s[1] EXCEPT !.event = e]]]
    <3> HIDE DEF s
    <3> QED BY <2>1, <2>2 DEF MovedWith
  <2>4. r = [s EXCEPT ![1] = [s[1] EXCEPT !.event = e]]
    <3> HIDE DEF s
    <3> QED BY <1>4 DEF d
  <2> HIDE DEF r, s
  <2> QED BY <2>3, <2>4 DEF Shapes
<1> HIDE DEF r
<1>7. /\ stack' \in [Thread -> Seq(Frame)] /\ stack'[t] = r
      /\ \A u \in Thread \ {t} : stack'[u] = stack[u]
  BY <1>5, <1>6 DEF Shapes
<1>8. \A i \in 1 .. 3 : Place(t, i)' = IF i = 1 THEN place ELSE Place(t, i)
  <2>1. Len(stack[t]) = 1 /\ Len(stack'[t]) = 1 /\ stack'[t][1].at = place
    BY <1>3, <1>5, <1>7
  <2> QED BY <2>1 DEF Place
<1>9. Frames(t)'
  <2>1. Len(stack'[t]) = 1 /\ stack'[t][1] = d /\ FrameOK(d)
    BY <1>3, <1>5, <1>7
  <2> QED BY <2>1 DEF Frames, FrameOK
<1> QED
  BY <1>3, <1>5, <1>7, <1>8, <1>9 DEF Alters

\* waitAndPop returns an event.
LEMMA PopStep ==
  ASSUME Inv, NEW t \in Thread, Pop(t)
  PROVE  Inv'
<1> DEFINE n == Len(stack[t])
<1>1. /\ Shapes /\ OrderInv /\ StackInv(t) /\ GuardInv(t) /\ n \in 1 .. 3
      /\ \A i \in 1 .. 3 : Place(t, i) = "none" <=> i > n
      /\ Place(t, n) = "copy" /\ Top(t).fn = "run" /\ stack[t] # <<>>
  BY Comes DEF Pop, At
<1>2. Alters(t, n, "handle")
  <2>1. n = 1
    <3> HIDE DEF n
    <3> QED BY <1>1 DEF StackInv, Outer, Middle, Inner, OperatorAt, RunAt,
               ShutdownAt
  <2>2. /\ stack' = MovedWith(t, "handle", Head(queue))
        /\ Head(queue) \in Operator \cup {"none"}
        /\ darwin' = darwin
    BY <1>1 DEF Pop, MovedWith, state, Shapes
  <2> QED BY <1>1, <2>1, <2>2, MovesWithEvent DEF RunAt
<1> HIDE DEF n
<1>3. Shapes' /\ \A u \in Thread \ {t} : Kept(u)
  <2>1. queue' \in Seq(Operator) /\ mutex = t
    BY <1>1 DEF Pop, Shapes, GuardInv, Some
  <2>2. Shapes'
    BY <1>1, <1>2, <2>1, Threads, DepthChanges DEF Pop, Alters, Shapes, state,
       life
  <2>3. ASSUME NEW u \in Thread \ {t}
        PROVE  Kept(u)
    BY <1>1, <1>2, <2>1, Threads, DepthChanges DEF Pop, Alters, Shapes, Kept,
       state, life
  <2> QED BY <2>2, <2>3
<1>4. OrderInv'
  BY <1>1, <1>2, Outermost, Threads DEF Pop, OrderInv, ShutdownAt, state, life
<1>5. Outer(t)' /\ Middle(t)' /\ Inner(t)'
  BY <1>1, <1>2, Threads DEF Pop, Alters, StackInv, Outer, Middle, Inner,
                    OperatorAt, RunAt, ShutdownAt, state, life
<1>6. GuardInv(t)'
  <2>1. t # Nobody
    BY Threads
  <2> QED BY <1>1, <1>2, <2>1 DEF Pop, Alters, Shapes, StackInv, Outer, Middle,
             Inner, GuardInv, Held, Some, OperatorAt, RunAt, ShutdownAt, state,
             life, Leave
<1>7. QED
  BY <1>1, <1>2, <1>3, <1>4, <1>5, <1>6, StepInv

\* The event goes out of scope.
LEMMA DiscardedStep ==
  ASSUME Inv, NEW t \in Thread, Discarded(t)
  PROVE  Inv'
<1> DEFINE n == Len(stack[t])
<1>1. /\ Shapes /\ OrderInv /\ StackInv(t) /\ GuardInv(t) /\ n \in 1 .. 3
      /\ \A i \in 1 .. 3 : Place(t, i) = "none" <=> i > n
      /\ Place(t, n) = "discard" /\ Top(t).fn = "run" /\ stack[t] # <<>>
  BY Comes DEF Discarded, At
<1>2. Alters(t, n, "pop")
  <2>1. n = 1
    <3> HIDE DEF n
    <3> QED BY <1>1 DEF StackInv, Outer, Middle, Inner, OperatorAt, RunAt,
               ShutdownAt
  <2>2. /\ stack' = MovedWith(t, "pop", "none")
        /\ "none" \in Operator \cup {"none"}
        /\ darwin' = darwin
    BY <1>1 DEF Discarded, MovedWith, state, Shapes
  <2> QED BY <1>1, <2>1, <2>2, MovesWithEvent DEF RunAt
<1> HIDE DEF n
<1>3. Shapes' /\ \A u \in Thread \ {t} : Kept(u)
  <2>1. Shapes'
    BY <1>1, <1>2, Threads DEF Discarded, Alters, Shapes, state, life
  <2>2. ASSUME NEW u \in Thread \ {t}
        PROVE  Kept(u)
    BY <1>1, <1>2, Threads DEF Discarded, Alters, Shapes, Kept, state, life
  <2> QED BY <2>1, <2>2
<1>4. OrderInv'
  BY <1>1, <1>2, Outermost, Threads DEF Discarded, OrderInv, ShutdownAt, state,
     life
<1>5. Outer(t)' /\ Middle(t)' /\ Inner(t)'
  BY <1>1, <1>2, Threads DEF Discarded, Alters, StackInv, Outer, Middle, Inner,
                    OperatorAt, RunAt, ShutdownAt, state, life
<1>6. GuardInv(t)'
  <2>1. t # Nobody
    BY Threads
  <2> QED BY <1>1, <1>2, <2>1 DEF Discarded, Alters, Shapes, StackInv, Outer,
             Middle, Inner, GuardInv, Held, Some, OperatorAt, RunAt, ShutdownAt,
             state, life
<1>7. QED
  BY <1>1, <1>2, <1>3, <1>4, <1>5, <1>6, StepInv

\* The program calls an operator.
LEMMA UseStep ==
  ASSUME Inv, NEW t \in Thread, Use(t)
  PROVE  Inv'
<1>1. /\ Shapes /\ OrderInv /\ StackInv(t) /\ GuardInv(t)
      /\ \A i \in 1 .. 3 : Place(t, i) = "none"
      /\ t # Worker
  BY ReentrancyAssumption DEF Use, Inv, ThreadInv, Place
<1>0. PICK op \in Operator :
        stack' = [stack EXCEPT ![t] = <<Call(op, "enter")>>]
  BY DEF Use
<1>2. Alters(t, 1, "enter")
  <2> DEFINE c == Call(op, "enter")
  <2>1. c \in Frame /\ FrameOK(c) /\ c.at = "enter"
    BY DEF Call, Frame, FrameOK, Operator, OperatorAt, RunAt, ShutdownAt
  <2>2. /\ stack' = [stack EXCEPT ![t] = <<c>>]
        /\ stack[t] = <<>> /\ darwin' = darwin
    BY <1>0 DEF Use
  <2> HIDE DEF c
  <2>3. <<c>> \in Seq(Frame)
    BY <2>1
  <2>4. /\ stack' \in [Thread -> Seq(Frame)] /\ stack'[t] = <<c>>
        /\ \A u \in Thread \ {t} : stack'[u] = stack[u]
    BY <1>1, <2>2, <2>3 DEF Shapes
  <2> QED BY <1>1, <2>1, <2>2, <2>4, Begins
<1>3. Shapes' /\ \A u \in Thread \ {t} : Kept(u)
  <2>1. Shapes'
    BY <1>1, <1>2, Threads DEF Use, Alters, Shapes, state, life
  <2>2. ASSUME NEW u \in Thread \ {t}
        PROVE  Kept(u)
    BY <1>1, <1>2, Threads DEF Use, Alters, Shapes, Kept, state, life
  <2> QED BY <2>1, <2>2
<1>4. OrderInv'
  BY <1>1, <1>2, Outermost, Threads DEF Use, OrderInv, ShutdownAt, state, life
<1>5. Outer(t)' /\ Middle(t)' /\ Inner(t)'
  BY <1>1, <1>2, Threads DEF Use, Alters, StackInv, Outer, Middle, Inner,
                    OperatorAt, RunAt, ShutdownAt, state, life
<1>6. GuardInv(t)'
  <2>1. t # Nobody
    BY Threads
  <2> QED BY <1>1, <1>2, <2>1 DEF Use, Alters, Shapes, StackInv, Outer, Middle,
             Inner, GuardInv, Held, Some, OperatorAt, RunAt, ShutdownAt, state,
             life
<1>7. QED
  BY <1>1, <1>2, <1>3, <1>4, <1>5, <1>6, StepInv

\* shutdown() begins.
LEMMA ShutdownStep ==
  ASSUME Inv, NEW t \in Thread, Shutdown(t)
  PROVE  Inv'
<1>1. /\ Shapes /\ OrderInv /\ StackInv(t) /\ GuardInv(t)
      /\ \A i \in 1 .. 3 : Place(t, i) = "none"
      /\ t = Main /\ initialized
  BY DEF Shutdown, Inv, ThreadInv, Place
<1>2. Alters(t, 1, "stop")
  <2> DEFINE c == Call("shutdown", "stop")
  <2>1. c \in Frame /\ FrameOK(c) /\ c.at = "stop"
    BY DEF Call, Frame, FrameOK, Operator, OperatorAt, RunAt, ShutdownAt
  <2>2. /\ stack' = [stack EXCEPT ![t] = <<c>>]
        /\ stack[t] = <<>> /\ darwin' = darwin
    BY DEF Shutdown
  <2> HIDE DEF c
  <2>3. <<c>> \in Seq(Frame)
    BY <2>1
  <2>4. /\ stack' \in [Thread -> Seq(Frame)] /\ stack'[t] = <<c>>
        /\ \A u \in Thread \ {t} : stack'[u] = stack[u]
    BY <1>1, <2>2, <2>3 DEF Shapes
  <2> QED BY <1>1, <2>1, <2>2, <2>4, Begins
<1>3. Shapes' /\ \A u \in Thread \ {t} : Kept(u)
  <2>1. Shapes'
    BY <1>1, <1>2, Threads DEF Shutdown, Alters, Shapes, state, life
  <2>2. ASSUME NEW u \in Thread \ {t}
        PROVE  Kept(u)
    BY <1>1, <1>2, Threads DEF Shutdown, Alters, Shapes, Kept, state, life
  <2> QED BY <2>1, <2>2
<1>4. OrderInv'
  BY <1>1, <1>2, Outermost, Threads DEF Shutdown, OrderInv, ShutdownAt, state,
     life
<1>5. Outer(t)' /\ Middle(t)' /\ Inner(t)'
  BY <1>1, <1>2, Threads DEF Shutdown, Alters, StackInv, Outer, Middle, Inner,
                    OperatorAt, RunAt, ShutdownAt, state, life
<1>6. GuardInv(t)'
  <2>1. t # Nobody
    BY Threads
  <2> QED BY <1>1, <1>2, <2>1 DEF Shutdown, Alters, Shapes, StackInv, Outer,
             Middle, Inner, GuardInv, Held, Some, OperatorAt, RunAt, ShutdownAt,
             state, life
<1>7. QED
  BY <1>1, <1>2, <1>3, <1>4, <1>5, <1>6, StepInv

\* The body of call_once is done, and the tracker thread is there.
LEMMA InitializedStep ==
  ASSUME Inv, NEW t \in Thread, Initialized(t)
  PROVE  Inv'
<1> DEFINE n == Len(stack[t])
<1>1. /\ Shapes /\ OrderInv /\ StackInv(t) /\ GuardInv(t) /\ n \in 1 .. 3
      /\ \A i \in 1 .. 3 : Place(t, i) = "none" <=> i > n
      /\ Place(t, n) = "body" /\ stack[t] # <<>>
  BY Comes DEF Initialized, At
<1>2. once = t
  <2> HIDE DEF n
  <2> QED BY <1>1 DEF GuardInv, Some
<1>3. n = 2 /\ Place(t, 1) = "once"
  <2> HIDE DEF n
  <2> QED BY <1>1, Threads DEF StackInv, Outer, Middle, Inner, OperatorAt,
             RunAt, ShutdownAt
<1>4. Place(Worker, 1) = "none" /\ t # Worker
  BY <1>1, <1>2, <1>3, Threads DEF OrderInv, StackInv, Outer, RunAt
<1>5. ThreadInv(Worker)
  BY Threads DEF Inv
<1>6. stack[Worker] = <<>>
  <2>1. 1 > Len(stack[Worker])
    BY <1>1, <1>4, <1>5, Threads, Places DEF ThreadInv, StackInv
  <2> QED BY <1>1, <1>5, <2>1, Threads, Places DEF ThreadInv, StackInv
<1> DEFINE s == SubSeq(stack[t], 1, 1)
<1> DEFINE c == Call("run", "pop")
<1>7. c \in Frame /\ FrameOK(c) /\ c.at = "pop"
  BY DEF Call, Frame, FrameOK, Operator, OperatorAt, RunAt, ShutdownAt
<1> HIDE DEF c
<1>8. s \in Seq(Frame) /\ Len(s) = 1 /\ s[1] = stack[t][1]
  <2>1. stack[t] \in Seq(Frame) /\ 2 = Len(stack[t])
    BY <1>1, <1>3 DEF Shapes
  <2> QED BY <2>1
<1>9. <<c>> \in Seq(Frame) /\ Len(<<c>>) = 1 /\ <<c>>[1] = c
  BY <1>7
<1>10. stack' = [[stack EXCEPT ![t] = s] EXCEPT ![Worker] = <<c>>]
  <2>1. Returned(t) = [stack EXCEPT ![t] = SubSeq(stack[t], 1, n - 1)]
    BY DEF Returned
  <2>2. n - 1 = 1
    <3> HIDE DEF n
    <3> QED BY <1>3
  <2> QED BY <2>1, <2>2 DEF Initialized, c
<1> HIDE DEF s
<1>11. /\ stack' \in [Thread -> Seq(Frame)]
       /\ stack'[t] = s /\ stack'[Worker] = <<c>>
       /\ \A u \in Thread \ {t, Worker} : stack'[u] = stack[u]
  BY <1>1, <1>4, <1>8, <1>9, <1>10, Threads DEF Shapes
<1>12. /\ Place(t, 1)' = "once"
       /\ Place(t, 2)' = "none" /\ Place(t, 3)' = "none"
       /\ Frames(t)' /\ Len(stack'[t]) = 1
  <2>1. /\ Place(t, 1)' = stack[t][1].at
        /\ Place(t, 2)' = "none" /\ Place(t, 3)' = "none"
    <3>1. Len(stack'[t]) = 1 /\ stack'[t][1] = stack[t][1]
      BY <1>8, <1>11
    <3> QED BY <3>1 DEF Place
  <2>2. Place(t, 1) = stack[t][1].at /\ FrameOK(stack[t][1])
    BY <1>1, <1>3 DEF Place, StackInv, Frames
  <2> QED BY <1>3, <1>8, <1>11, <2>1, <2>2 DEF Frames, FrameOK, Initialized
<1>13. /\ Place(Worker, 1)' = "pop"
       /\ Place(Worker, 2)' = "none" /\ Place(Worker, 3)' = "none"
       /\ Frames(Worker)' /\ Len(stack'[Worker]) = 1
  BY <1>7, <1>9, <1>11 DEF Place, Frames, FrameOK, Initialized
<1>14. Shapes' /\ \A u \in Thread \ {t, Worker} : Kept(u)
  <2>1. Shapes'
    BY <1>1, <1>2, <1>11, Threads, DepthChanges DEF Initialized, Shapes
  <2>2. ASSUME NEW u \in Thread \ {t, Worker}
        PROVE  Kept(u)
    BY <1>1, <1>2, <1>11, Threads DEF Initialized, Leave, Shapes, Kept
  <2> QED BY <2>1, <2>2
<1>15. OrderInv'
  <2>1. \A u \in Thread \ {t, Worker} : Place(u, 1)' = Place(u, 1)
    BY <1>11 DEF Place
  <2>2. Place(Main, 1)' \notin ShutdownAt
    BY <1>1, <1>2, <1>12, <2>1, Threads DEF OrderInv, ShutdownAt
  <2> QED BY <2>2 DEF OrderInv, Initialized
<1>16. StackInv(t)'
  BY <1>1, <1>3, <1>4, <1>12 DEF StackInv, Outer, Middle, Inner, OperatorAt
<1>17. GuardInv(t)'
  <2>1. t # Nobody /\ t # "done"
    BY Threads
  <2> QED BY <1>1, <1>2, <1>3, <1>12, <2>1 DEF Initialized, Leave, Shapes,
             GuardInv, Held, Some, OperatorAt
<1>18. StackInv(Worker)'
  BY <1>13 DEF StackInv, Outer, Middle, Inner, RunAt
<1>19. GuardInv(Worker)'
  <2>1. /\ Worker \in Thread /\ t # Worker /\ Worker # "done"
        /\ depth[Worker] = 0 /\ ~disabled[Worker]
        /\ mutex # Worker /\ Worker \notin key
    <3>1. \A i \in 1 .. 3 : Place(Worker, i) = "none"
      BY <1>6 DEF Place
    <3> QED BY <1>4, <1>5, <3>1, Threads DEF ThreadInv, GuardInv, Held, Some,
                      OperatorAt
  <2> QED BY <1>1, <1>13, <2>1 DEF Initialized, Leave, Shapes, GuardInv, Held,
             Some, OperatorAt
<1>20. \A u \in Thread \ {t, Worker} : ThreadInv(u)'
  BY <1>14, KeptInv DEF Inv
<1>21. QED
  BY <1>14, <1>15, <1>16, <1>17, <1>18, <1>19, <1>20 DEF Inv, ThreadInv

-----------------------------------------------------------------------------
(* The invariant                                                           *)

LEMMA InitInv ==
  ASSUME Init
  PROVE  Inv
<1>1. Shapes
  <2>1. <<>> \in Seq(Frame) /\ <<>> \in Seq(Operator)
    OBVIOUS
  <2>2. stack \in [Thread -> Seq(Frame)] /\ queue \in Seq(Operator)
    BY <2>1 DEF Init
  <2>3. depth \in [Thread -> Int] /\ disabled \in [Thread -> BOOLEAN]
    BY DEF Init
  <2>4. /\ initialized \in BOOLEAN /\ complete \in BOOLEAN
        /\ stopped \in BOOLEAN /\ darwin \in BOOLEAN
    BY DEF Init
  <2>5. /\ /\ once \in Thread \cup {Nobody, "done"}
        /\ mutex \in Thread \cup {Nobody}
        /\ key \subseteq Thread /\ storage \subseteq Thread
    BY DEF Init
  <2> QED BY <2>2, <2>3, <2>4, <2>5 DEF Shapes
<1>2. \A t \in Thread : \A i \in 1 .. 3 : Place(t, i) = "none"
  BY DEF Init, Place
<1>3. OrderInv
  BY <1>2, Threads DEF Init, OrderInv, ShutdownAt
<1>4. ASSUME NEW t \in Thread
      PROVE  StackInv(t) /\ GuardInv(t)
  <2>1. Len(stack[t]) = 0
    BY DEF Init
  <2>2. StackInv(t)
    BY <1>2, <2>1 DEF StackInv, Frames, Outer, Middle, Inner
  <2>3. GuardInv(t)
    BY <1>2, Threads DEF Init, GuardInv, Held, Some, OperatorAt
  <2>4. QED
    BY <2>2, <2>3
<1>5. QED
  BY <1>1, <1>3, <1>4 DEF Inv, ThreadInv

LEMMA NextInv ==
  ASSUME Inv, [Next]_vars
  PROVE  Inv'
<1>1. CASE UNCHANGED vars
  <2>1. Shapes' /\ \A u \in Thread : Kept(u)
    BY <1>1 DEF vars, state, life, Inv, Shapes, Kept
  <2>2. OrderInv'
    BY <1>1 DEF vars, state, life, Inv, OrderInv, Place
  <2>3. QED
    BY <2>1, <2>2, KeptInv DEF Inv
<1>2. ASSUME NEW t \in Thread, Use(t) \/ Shutdown(t) \/ Step(t)
      PROVE  Inv'
  BY <1>2, UseStep, ShutdownStep, NestedStep, IgnoreStep, EnsureStep,
     InitializeStep, InitializedStep, AfterOnceStep, CapturedStep, LockStep,
     PushedStep, TrackedStep, WakeStep, PopStep, EndStep, HandledStep,
     DiscardedStep, StopStep, JoinStep, ReportedStep, ReenterStep, SetKeyStep,
     AllocateStorageStep, StoreStorageStep DEF Step
<1>3. QED
  BY <1>1, <1>2 DEF Next

\* The invariant holds for any number of threads and calls.
THEOREM Invariance == Spec => []Inv
<1>1. QED
  BY InitInv, NextInv, PTL DEF Spec

-----------------------------------------------------------------------------
(* What it says of the properties                                          *)

\* One of a thread's calls is at a place, in terms of its stack.
LEMMA SomeCall ==
  ASSUME Inv, NEW t \in Thread, NEW places, "none" \notin places
  PROVE  Some(t, places) <=> \E i \in 1 .. Len(stack[t]) :
                               stack[t][i].at \in places
<1>1. Shapes /\ StackInv(t)
  BY DEF Inv, ThreadInv
<1>2. /\ Len(stack[t]) \in 0 .. 3
      /\ \A i \in 1 .. 3 : Place(t, i) = "none" <=> i > Len(stack[t])
  BY <1>1, Places DEF StackInv
<1>3. \A i \in 1 .. Len(stack[t]) : Place(t, i) = stack[t][i].at
  BY DEF Place
<1>4. QED
  BY <1>2, <1>3 DEF Some

\* The guards of a thread are those of one of its calls, which holds one or two.
LEMMA OneHolder ==
  ASSUME Inv, NEW t \in Thread
  PROVE  \E h \in 1 .. 3 :
           /\ depth[t] = Held(Place(t, h))
           /\ \A i \in 1 .. 3 : i # h => Held(Place(t, i)) = 0
<1>1. StackInv(t) /\ GuardInv(t)
  BY DEF Inv, ThreadInv
<1>2. QED
  BY <1>1 DEF StackInv, GuardInv, Outer, Middle, Inner, Held, OperatorAt, RunAt,
              ShutdownAt

\* The counter of a thread is the number of guards its calls hold.
LEMMA CountedGuards ==
  ASSUME Inv, NEW t \in Thread
  PROVE  depth[t] = Cardinality({guard \in (1 .. Len(stack[t])) \X {1, 2} :
                                   guard[2] <= Guards(stack[t][guard[1]])})
<1> DEFINE C == {guard \in (1 .. Len(stack[t])) \X {1, 2} :
                   guard[2] <= Guards(stack[t][guard[1]])}
<1>1. PICK h \in 1 .. 3 :
        /\ depth[t] = Held(Place(t, h))
        /\ \A i \in 1 .. 3 : i # h => Held(Place(t, i)) = 0
  BY OneHolder
<1> DEFINE k == Held(Place(t, h))
<1>2. k \in 0 .. 2
  BY DEF Held
<1>3. Shapes /\ StackInv(t)
  BY DEF Inv, ThreadInv
<1>4. /\ Len(stack[t]) \in 0 .. 3
      /\ \A i \in 1 .. 3 : Place(t, i) = "none" <=> i > Len(stack[t])
  BY <1>3, Places DEF StackInv
<1>5. \A i \in 1 .. Len(stack[t]) : Guards(stack[t][i]) = IF i = h THEN k ELSE 0
  BY <1>1, <1>4 DEF Guards, Held, Place
<1>6. h > Len(stack[t]) => k = 0
  BY <1>4 DEF Held
<1> HIDE DEF k
<1>7. C = {<<h, g>> : g \in 1 .. k}
  BY <1>2, <1>4, <1>5, <1>6
<1>8. Cardinality(C) = k
  <2> HIDE DEF C
  <2>1. CASE k = 0
    <3>1. C = {}
      BY <1>7, <2>1
    <3> QED BY <2>1, <3>1, FS_EmptySet
  <2>2. CASE k = 1
    <3>1. C = {<<h, 1>>}
      BY <1>7, <2>2
    <3> QED BY <2>2, <3>1, FS_Singleton
  <2>3. CASE k = 2
    <3>1. C = {<<h, 1>>} \cup {<<h, 2>>}
      BY <1>7, <2>3
    <3>2. <<h, 2>> \notin {<<h, 1>>}
      OBVIOUS
    <3>3. /\ IsFiniteSet({<<h, 1>>}) /\ Cardinality({<<h, 1>>}) = 1
      BY FS_Singleton
    <3>4. Cardinality({<<h, 1>>} \cup {<<h, 2>>}) = 2
      <4> DEFINE S == {<<h, 1>>}
      <4>1. IsFiniteSet(S) /\ Cardinality(S) = 1 /\ <<h, 2>> \notin S
        BY <3>2, <3>3
      <4> HIDE DEF S
      <4>2. Cardinality(S \cup {<<h, 2>>}) = 2
        BY <4>1, FS_AddElement
      <4> QED BY <4>2 DEF S
    <3> QED BY <2>3, <3>1, <3>4
  <2> QED BY <1>2, <2>1, <2>2, <2>3
<1>9. QED
  BY <1>1, <1>8 DEF k

LEMMA InvTypeOK ==
  ASSUME Inv
  PROVE  TypeOK
<1> SUFFICES ASSUME NEW t \in Thread
             PROVE  /\ disabled[t] <=> \E i \in 1 .. Len(stack[t]) :
                                         stack[t][i].at = "handle"
                    /\ mutex = t <=> \E i \in 1 .. Len(stack[t]) :
                                       stack[t][i].at \in {"locked", "copy"}
                    /\ once = t <=> \E i \in 1 .. Len(stack[t]) :
                                      stack[t][i].at = "body"
                    /\ t \in key <=> /\ darwin
                                     /\ \E i \in 1 .. Len(stack[t]) :
                                          /\ stack[t][i].fn \in Operator
                                          /\ stack[t][i].at # "enter"
  BY CountedGuards DEF TypeOK
<1>1. GuardInv(t) /\ StackInv(t)
  BY DEF Inv, ThreadInv
<1>2. Some(t, {"handle"}) <=> \E i \in 1 .. Len(stack[t]) :
                                stack[t][i].at = "handle"
  BY SomeCall
<1>3. Some(t, {"locked", "copy"}) <=> \E i \in 1 .. Len(stack[t]) :
                                        stack[t][i].at \in {"locked", "copy"}
  BY SomeCall
<1>4. Some(t, {"body"}) <=>
        \E i \in 1 .. Len(stack[t]) : stack[t][i].at = "body"
  BY SomeCall
<1>5. Some(t, OperatorAt \ {"enter"}) <=>
        \E i \in 1 .. Len(stack[t]) :
          stack[t][i].fn \in Operator /\ stack[t][i].at # "enter"
  <2>1. "none" \notin OperatorAt \ {"enter"}
    BY DEF OperatorAt
  <2>2. \A i \in 1 .. Len(stack[t]) : FrameOK(stack[t][i])
    BY <1>1 DEF StackInv, Frames
  <2> QED BY <2>1, <2>2, SomeCall DEF FrameOK
<1>6. QED
  BY <1>1, <1>2, <1>3, <1>4, <1>5 DEF GuardInv

LEMMA InvNoSelfDeadlock ==
  ASSUME Inv
  PROVE  NoSelfDeadlock
<1> SUFFICES ASSUME NEW t \in Thread, stack[t] # <<>>
             PROVE  /\ Top(t).at \in {"lock", "pop", "stop"} => mutex # t
                    /\ Top(t).at = "once" => once # t
  BY DEF NoSelfDeadlock
<1> DEFINE n == Len(stack[t])
<1>1. /\ StackInv(t) /\ GuardInv(t) /\ n \in 1 .. 3
      /\ \A i \in 1 .. 3 : Place(t, i) = "none" <=> i > n
      /\ Place(t, n) = Top(t).at
  BY Comes
<1> HIDE DEF n
<1>2. QED
  BY <1>1 DEF StackInv, GuardInv, Outer, Middle, Inner, Some, OperatorAt, RunAt,
              ShutdownAt

LEMMA InvOwnAllocationsAreSilent ==
  ASSUME Inv
  PROVE  OwnAllocationsAreSilent
<1> SUFFICES ASSUME NEW t \in Thread, NEW i \in 2 .. Len(stack[t]),
                    stack[t][i].fn \in Operator,
                    stack[t][i].at \notin {"enter", "test", "once"}
             PROVE  \/ stack[t][i - 1].at = "discard"
                    \/ darwin /\ stack[t][i - 1].at = "pop"
  BY DEF OwnAllocationsAreSilent
<1>1. Shapes /\ StackInv(t)
  BY DEF Inv, ThreadInv
<1>2. Len(stack[t]) \in 0 .. 3
  BY <1>1, Places DEF StackInv
<1>3. i \in {2, 3} /\ i - 1 \in 1 .. Len(stack[t])
  BY <1>2
<1>4. /\ Place(t, i) = stack[t][i].at
      /\ Place(t, i - 1) = stack[t][i - 1].at
  BY <1>2, <1>3 DEF Place
<1>5. FrameOK(stack[t][i])
  BY <1>1, <1>2 DEF StackInv, Frames
<1>6. Place(t, i) \in OperatorAt \ {"enter", "test", "once"}
  BY <1>4, <1>5 DEF FrameOK
<1>7. i = 2
  BY <1>1, <1>3, <1>6 DEF StackInv, Inner, OperatorAt
<1>8. Place(t, 1) = "discard" \/ (darwin /\ Place(t, 1) = "pop")
  BY <1>1, <1>6, <1>7 DEF StackInv, Middle, OperatorAt
<1>9. QED
  BY <1>4, <1>7, <1>8

LEMMA InvFirstUseEnds ==
  ASSUME Inv
  PROVE  FirstUseEnds
<1> SUFFICES ASSUME NEW t \in Thread
             PROVE  Cardinality({i \in {j \in 1 .. Len(stack[t]) :
                                   stack[t][j].at \in {"test", "pop"}} :
                                   stack[t][i].nested}) <= 2
  BY DEF FirstUseEnds
<1> DEFINE S == {i \in {j \in 1 .. Len(stack[t]) :
                   stack[t][j].at \in {"test", "pop"}} : stack[t][i].nested}
<1>1. Shapes /\ StackInv(t)
  BY DEF Inv, ThreadInv
<1>2. Len(stack[t]) \in 0 .. 3
  BY <1>1, Places DEF StackInv
<1>3. S \subseteq 1 .. 2
  <2>1. Place(t, 3) \notin {"test", "pop"}
    BY <1>1 DEF StackInv, Inner
  <2> QED BY <1>2, <2>1 DEF Place
<1> HIDE DEF S
<1>4. IsFiniteSet(1 .. 2) /\ Cardinality(1 .. 2) = 2
  <2>1. {1} \cup {2} = 1 .. 2 /\ 2 \notin {1}
    OBVIOUS
  <2>2. IsFiniteSet({1}) /\ Cardinality({1}) = 1
    BY FS_Singleton
  <2>3. IsFiniteSet({1} \cup {2}) /\ Cardinality({1} \cup {2}) = 1 + 1
    <3> DEFINE O == {1}
    <3>1. IsFiniteSet(O) /\ Cardinality(O) = 1 /\ 2 \notin O
      BY <2>1, <2>2
    <3> HIDE DEF O
    <3>2. IsFiniteSet(O \cup {2}) /\ Cardinality(O \cup {2}) = 1 + 1
      BY <3>1, FS_AddElement
    <3> QED BY <3>2 DEF O
  <2> QED BY <2>1, <2>3
<1>5. Cardinality(S) <= 2
  BY <1>3, <1>4, FS_Subset
<1>6. QED
  BY <1>5 DEF S

-----------------------------------------------------------------------------
(* The theorems                                                            *)

\* Whatever the threads do, a thread's counter, flag, key and locks say where
\* its calls are: no inner guard takes back what an outer one needs.
THEOREM GuardsAreBalanced == Spec => []TypeOK
<1>1. QED
  BY Invariance, InvTypeOK, PTL

\* No thread waits for a mutex it holds, or for a call_once it runs.
THEOREM NoThreadBlocksItself == Spec => []NoSelfDeadlock
<1>1. QED
  BY Invariance, InvNoSelfDeadlock, PTL

\* The analyzer announces nothing of its own, the two exceptions aside.
THEOREM AnalyzerIsSilent == Spec => []OwnAllocationsAreSilent
<1>1. QED
  BY Invariance, InvOwnAllocationsAreSilent, PTL

\* On macOS the first use of a guard does not recurse.
THEOREM GuardStorageIsFound == Spec => []FirstUseEnds
<1>1. QED
  BY Invariance, InvFirstUseEnds, PTL

\* The guards and the key end every recursion: a thread is in three calls at
\* most, so that a MaxDepth of four keeps nothing from happening.
ThreeCallsDeep == \A t \in Thread : Len(stack[t]) <= 3

THEOREM NestingEnds == Spec => []ThreeCallsDeep
<1>1. Inv => ThreeCallsDeep
  BY DEF Inv, ThreadInv, StackInv, ThreeCallsDeep
<1>2. QED
  BY <1>1, Invariance, PTL

==============================================================================
