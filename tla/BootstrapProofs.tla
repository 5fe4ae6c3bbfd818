--------------------------- MODULE BootstrapProofs ---------------------------
(***************************************************************************)
(* The safety properties of Bootstrap for any number of threads, any sizes *)
(* and buffer, any width of size_t, and whatever the bounds are.            *)
(***************************************************************************)
EXTENDS Bootstrap, FiniteSetTheorems, SequenceTheorems, TLAPS

-----------------------------------------------------------------------------
(* Stacks of calls                                                         *)

Place == {"load", "dlsym", "dlsym_again", "store", "call"}

Frames == [op : Op \cup {"malloc", "free"}, arg : Nat, at : Place]

\* The innermost call is the last one.
LEMMA TopOfStack ==
  ASSUME TypeOK, NEW t \in Thread, stack[t] # <<>>
  PROVE  /\ Len(stack[t]) \in Nat \ {0}
         /\ Len(stack[t]) \in 1 .. Len(stack[t])
         /\ Top(t) = stack[t][Len(stack[t])]
         /\ Top(t) \in Frames
<1>1. stack[t] \in Seq(Frames)
  BY DEF TypeOK, Frames, Place
<1>2. QED
  BY <1>1 DEF Top

\* The last call of a stack comes to another place.
LEMMA LastMoves ==
  ASSUME NEW s \in Seq(Frames), s # <<>>, NEW place \in Place
  PROVE  /\ [s EXCEPT ![Len(s)].at = place] \in Seq(Frames)
         /\ Len([s EXCEPT ![Len(s)].at = place]) = Len(s)
         /\ \A i \in 1 .. Len(s) :
              /\ [s EXCEPT ![Len(s)].at = place][i].op = s[i].op
              /\ [s EXCEPT ![Len(s)].at = place][i].arg = s[i].arg
              /\ [s EXCEPT ![Len(s)].at = place][i].at =
                   IF i = Len(s) THEN place ELSE s[i].at
<1>1. Len(s) \in 1 .. Len(s) /\ s[Len(s)] \in Frames
  OBVIOUS
<1>2. [s[Len(s)] EXCEPT !.at = place] \in Frames
  BY <1>1 DEF Frames
<1>3. PICK r : r = [s EXCEPT ![Len(s)] = [s[Len(s)] EXCEPT !.at = place]]
  OBVIOUS
<1>4. r \in Seq(Frames) /\ Len(r) = Len(s)
  BY <1>1, <1>2, <1>3
<1>5. \A i \in 1 .. Len(s) : /\ r[i].op = s[i].op
                             /\ r[i].arg = s[i].arg
                             /\ r[i].at = IF i = Len(s) THEN place ELSE s[i].at
  BY <1>1, <1>3 DEF Frames
<1>6. QED
  BY <1>3, <1>4, <1>5

\* A call comes to another place.
LEMMA GotoMoves ==
  ASSUME TypeOK, NEW t \in Thread, stack[t] # <<>>, NEW place \in Place,
         Goto(t, place)
  PROVE  /\ stack' \in [Thread -> Seq(Frames)]
         /\ \A u \in Thread \ {t} : stack'[u] = stack[u]
         /\ Len(stack'[t]) = Len(stack[t])
         /\ \A i \in 1 .. Len(stack[t]) :
              /\ stack'[t][i].op = stack[t][i].op
              /\ stack'[t][i].arg = stack[t][i].arg
              /\ stack'[t][i].at = IF i = Len(stack[t]) THEN place
                                   ELSE stack[t][i].at
<1>1. stack[t] \in Seq(Frames)
  BY DEF TypeOK, Frames, Place
<1>2. stack'[t] = [stack[t] EXCEPT ![Len(stack[t])].at = place]
  BY DEF Goto, TypeOK
<1>3. stack'[t] \in Seq(Frames)
  BY <1>1, <1>2, LastMoves
<1>4. /\ \A u \in Thread \ {t} : stack'[u] = stack[u]
      /\ stack' \in [Thread -> Seq(Frames)]
  BY <1>3 DEF Goto, TypeOK, Frames, Place
<1>5. QED
  BY <1>1, <1>2, <1>4, LastMoves

\* A call returns.
LEMMA PopShortens ==
  ASSUME NEW s \in Seq(Frames), s # <<>>
  PROVE  /\ Pop(s) \in Seq(Frames)
         /\ Len(Pop(s)) = Len(s) - 1
         /\ \A i \in 1 .. Len(s) - 1 : Pop(s)[i] = s[i]
<1>1. /\ Len(s) \in Nat \ {0}
      /\ 1 \in Int /\ Len(s) - 1 \in Int
      /\ \A i \in 1 .. Len(s) - 1 : s[i] \in Frames
  OBVIOUS
<1>2. /\ SubSeq(s, 1, Len(s) - 1) \in Seq(Frames)
      /\ Len(SubSeq(s, 1, Len(s) - 1)) =
           IF 1 <= Len(s) - 1 THEN (Len(s) - 1) - 1 + 1 ELSE 0
      /\ \A i \in 1 .. (Len(s) - 1) - 1 + 1 :
           SubSeq(s, 1, Len(s) - 1)[i] = s[1 + i - 1]
  BY <1>1, SubSeqProperties
<1>3. \A n \in Nat \ {0} :
        /\ (IF 1 <= n - 1 THEN (n - 1) - 1 + 1 ELSE 0) = n - 1
        /\ (n - 1) - 1 + 1 = n - 1
  OBVIOUS
<1>4. \A i \in 1 .. Len(s) - 1 : 1 + i - 1 = i
  OBVIOUS
<1>5. QED
  BY <1>1, <1>2, <1>3, <1>4 DEF Pop

\* A call returns a pointer.
LEMMA ReturnPops ==
  ASSUME TypeOK, NEW t \in Thread, stack[t] # <<>>, NEW p \in Nat, Return(t, p)
  PROVE  /\ stack' = [stack EXCEPT ![t] = Pop(@)]
         /\ held' \subseteq Nat
         /\ dlBuffer' \in [Thread -> Nat]
BY DEF Return, TypeOK

\* Stacks whose innermost call has returned are stacks.
LEMMA PoppedStacks ==
  ASSUME TypeOK, NEW t \in Thread, stack[t] # <<>>,
         stack' = [stack EXCEPT ![t] = Pop(@)]
  PROVE  /\ stack' \in [Thread -> Seq(Frames)]
         /\ \A u \in Thread \ {t} : stack'[u] = stack[u]
         /\ Len(stack'[t]) = Len(stack[t]) - 1
         /\ \A i \in 1 .. Len(stack[t]) - 1 : stack'[t][i] = stack[t][i]
<1>1. stack[t] \in Seq(Frames)
  BY DEF TypeOK, Frames, Place
<1>2. stack'[t] = Pop(stack[t])
  BY DEF TypeOK
<1>3. QED
  BY <1>1, <1>2, PopShortens DEF TypeOK, Frames, Place

\* What is below 2^w stays as it is.
LEMMA BelowWord ==
  ASSUME NEW x \in Nat
  PROVE  x % Word \in 0 .. Word - 1 /\ (x < Word => x % Word = x)
<1>1. Word \in Nat /\ Word > 0
  BY BootstrapAssumption
<1>2. QED
  BY <1>1

\* The buffer serves a request, or is exhausted.
LEMMA Serves ==
  ASSUME TypeOK, NEW t \in Thread, stack[t] # <<>>, NEW asked \in Nat,
         BootstrapCalloc(t, asked)
  PROVE  /\ stack' = [stack EXCEPT ![t] = Pop(@)]
         /\ held' \subseteq Nat
         /\ dlBuffer' \in [Thread -> Nat]
         /\ offset' \in 0 .. Word - 1
         /\ offset + asked < Word => offset' = offset + asked
         /\ ~wrapped' <=> ~wrapped /\ offset + asked < Word
         /\ wrapped' \in BOOLEAN
         /\ served' \subseteq Nat \X Nat
         /\ \/ Return(t, Null) /\ served' = served
            \/ /\ offset' <= BufferSize
               /\ Return(t, offset + 1) /\ served' = served \cup {<<offset, asked>>}
<1> DEFINE end == (offset + (asked % Word)) % Word
<1>1. offset \in Nat /\ BufferSize \in Nat /\ Null \in Nat /\ Word \in Nat
  BY BootstrapAssumption DEF TypeOK, Null
<1>2. asked % Word \in Nat /\ (asked < Word => asked % Word = asked)
  BY <1>1, BelowWord
<1>3. offset + (asked % Word) \in Nat
  BY <1>1, <1>2
<1>4. /\ end \in 0 .. Word - 1
      /\ offset + (asked % Word) < Word => end = offset + (asked % Word)
  BY <1>3, BelowWord
<1>5. offset + asked < Word => end = offset + asked
  <2>1. offset + asked < Word => asked < Word
    BY <1>1
  <2>2. QED
    BY <1>2, <1>4, <2>1
<1>6. /\ offset' = end /\ wrapped' = (wrapped \/ offset + asked >= Word)
      /\ \/ Return(t, Null) /\ served' = served
         \/ /\ ~(end > BufferSize)
            /\ Return(t, offset + 1) /\ served' = served \cup {<<offset, asked>>}
  BY DEF BootstrapCalloc
<1>7. \A p \in Nat : Return(t, p) =>
        /\ stack' = [stack EXCEPT ![t] = Pop(@)]
        /\ held' \subseteq Nat /\ dlBuffer' \in [Thread -> Nat]
  BY ReturnPops
<1>8. served \subseteq Nat \X Nat /\ <<offset, asked>> \in Nat \X Nat
  BY <1>1 DEF TypeOK
<1>9. offset + 1 \in Nat /\ wrapped \in BOOLEAN
  BY <1>1 DEF TypeOK
<1>10. ~(end > BufferSize) => end <= BufferSize
  BY <1>1, <1>4
<1>11. /\ stack' = [stack EXCEPT ![t] = Pop(@)]
       /\ held' \subseteq Nat /\ dlBuffer' \in [Thread -> Nat]
       /\ served' \subseteq Nat \X Nat
  BY <1>1, <1>6, <1>7, <1>8, <1>9
<1>12. wrapped' \in BOOLEAN /\ (~wrapped' <=> ~wrapped /\ offset + asked < Word)
  <2>1. (offset + asked >= Word) <=> ~(offset + asked < Word)
    BY <1>1
  <2>2. QED
    BY <1>6, <1>9, <2>1, Zenon
<1>13. QED
  BY <1>4, <1>5, <1>6, <1>10, <1>11, <1>12

\* dlsym calls calloc.
LEMMA DlsymCalls ==
  ASSUME TypeOK, NEW t \in Thread, NEW op \in Op, DlsymAllocates(t, op)
  PROVE  /\ stack[t] # <<>> /\ Top(t).op = op
         /\ stack' \in [Thread -> Seq(Frames)]
         /\ \A u \in Thread \ {t} : stack'[u] = stack[u]
         /\ Len(stack'[t]) = Len(stack[t]) + 1
         /\ \A i \in 1 .. Len(stack[t]) :
              /\ stack'[t][i].op = stack[t][i].op
              /\ stack'[t][i].arg = stack[t][i].arg
              /\ stack'[t][i].at = IF i = Len(stack[t]) THEN "dlsym_again"
                                   ELSE stack[t][i].at
         /\ stack'[t][Len(stack[t]) + 1] = Frame("calloc", DlSize)
<1>1. stack[t] \in Seq(Frames) /\ stack[t] # <<>>
  BY DEF DlsymAllocates, At, TypeOK, Frames, Place
<1>2. PICK again \in Seq(Frames) :
        /\ again = [stack[t] EXCEPT ![Len(stack[t])].at = "dlsym_again"]
        /\ Len(again) = Len(stack[t])
        /\ \A i \in 1 .. Len(stack[t]) :
             /\ again[i].op = stack[t][i].op
             /\ again[i].arg = stack[t][i].arg
             /\ again[i].at = IF i = Len(stack[t]) THEN "dlsym_again"
                              ELSE stack[t][i].at
  <2>1. "dlsym_again" \in Place
    BY DEF Place
  <2> DEFINE a == [stack[t] EXCEPT ![Len(stack[t])].at = "dlsym_again"]
  <2>2. /\ a \in Seq(Frames) /\ Len(a) = Len(stack[t])
        /\ \A i \in 1 .. Len(stack[t]) :
             /\ a[i].op = stack[t][i].op
             /\ a[i].arg = stack[t][i].arg
             /\ a[i].at = IF i = Len(stack[t]) THEN "dlsym_again"
                          ELSE stack[t][i].at
    BY <1>1, <2>1, LastMoves
  <2>4. QED
    BY <2>2
<1>4. Frame("calloc", DlSize) \in Frames
  BY BootstrapAssumption DEF Frame, Frames, Place
<1>5. stack' = [stack EXCEPT ![t] = Append(again, Frame("calloc", DlSize))]
  BY <1>2 DEF DlsymAllocates
<1>6. stack'[t] = Append(again, Frame("calloc", DlSize))
  BY <1>5 DEF TypeOK
<1>7. /\ stack'[t] \in Seq(Frames) /\ Len(stack'[t]) = Len(again) + 1
      /\ \A i \in 1 .. Len(again) : stack'[t][i] = again[i]
      /\ stack'[t][Len(again) + 1] = Frame("calloc", DlSize)
  BY <1>4, <1>6, AppendProperties
<1>8. /\ \A u \in Thread \ {t} : stack'[u] = stack[u]
      /\ stack' \in [Thread -> Seq(Frames)]
  BY <1>5, <1>7 DEF TypeOK, Frames, Place
<1>9. Top(t).op = op
  BY DEF DlsymAllocates, At
<1>10. /\ Len(stack'[t]) = Len(stack[t]) + 1
       /\ stack'[t][Len(stack[t]) + 1] = Frame("calloc", DlSize)
  BY <1>2, <1>7
<1>11. \A i \in 1 .. Len(stack[t]) :
         /\ stack'[t][i].op = stack[t][i].op
         /\ stack'[t][i].arg = stack[t][i].arg
         /\ stack'[t][i].at = IF i = Len(stack[t]) THEN "dlsym_again"
                              ELSE stack[t][i].at
  <2>1. \A i \in 1 .. Len(stack[t]) : stack'[t][i] = again[i]
    BY <1>2, <1>7
  <2>2. QED
    BY <1>2, <2>1, Zenon
<1>12. QED
  BY <1>1, <1>8, <1>9, <1>10, <1>11

-----------------------------------------------------------------------------
(* Types                                                                   *)

\* Stacks hold calls of the allocation functions, and every pointer is a number.
THEOREM TypeCorrect == Spec => []TypeOK
<1>1. Init => TypeOK
  <2>1. 0 \in 0 .. Word - 1
    BY BootstrapAssumption
  <2>2. ASSUME Init
        PROVE  /\ resolved \subseteq Op /\ resolving \in [Thread -> BOOLEAN]
               /\ served \subseteq Nat \X Nat /\ heap \subseteq Nat
               /\ held \subseteq Nat /\ dlBuffer \in [Thread -> Nat]
               /\ offset \in 0 .. Word - 1 /\ wrapped \in BOOLEAN
    BY <2>1, <2>2 DEF Init, Null
  <2>3. Init => stack \in [Thread -> Seq([op : Op \cup {"malloc", "free"}, arg : Nat,
                                         at : {"load", "dlsym", "dlsym_again",
                                               "store", "call"}])]
    BY DEF Init
  <2>4. QED
    BY <2>2, <2>3, Zenon DEF TypeOK
<1>2. TypeOK /\ [Next]_vars => TypeOK'
  <2> SUFFICES ASSUME TypeOK, [Next]_vars PROVE TypeOK'
    OBVIOUS
  <2> USE BootstrapAssumption
  <2>17. Null \in Nat /\ \A u \in Thread : dlBuffer[u] \in Nat
    BY DEF Null, TypeOK
  <2>0. \A s : s \in [Thread -> Seq(Frames)] <=>
             s \in [Thread -> Seq([op : Op \cup {"malloc", "free"}, arg : Nat,
                                   at : {"load", "dlsym", "dlsym_again", "store",
                                         "call"}])]
    BY DEF Frames, Place
  <2>1. ASSUME NEW t \in Thread, NEW op \in Op, Call(t, op) PROVE TypeOK'
    <3>1. PICK arg \in Nat : stack' = [stack EXCEPT ![t] = <<Frame(op, arg)>>]
      BY <2>1 DEF Call, TypeOK, Null
    <3>2. <<Frame(op, arg)>> \in Seq(Frames)
      BY DEF Frame, Frames, Place
    <3>3. stack' \in [Thread -> Seq(Frames)]
      BY <3>1, <3>2 DEF TypeOK, Frames, Place
    <3>4. held' \subseteq Nat
      BY <2>1 DEF Call, TypeOK
    <3>5. QED
      BY <2>0, <2>1, <3>3, <3>4 DEF Call, TypeOK
  <2>2. ASSUME NEW t \in Thread, ThreadExit(t) PROVE TypeOK'
    <3>1. stack' = [stack EXCEPT ![t] = <<Frame("free", dlBuffer[t])>>]
      BY <2>2 DEF ThreadExit
    <3>2. <<Frame("free", dlBuffer[t])>> \in Seq(Frames)
      <4>1. Frame("free", dlBuffer[t]) \in Frames
        BY <2>17 DEF Frame, Frames, Place
      <4>2. QED
        BY <4>1
    <3>3. stack' \in [Thread -> Seq(Frames)]
      BY <3>1, <3>2 DEF TypeOK, Frames, Place
    <3>4. QED
      BY <2>0, <2>2, <3>3 DEF ThreadExit, TypeOK, Null
  <2>3. ASSUME NEW t \in Thread, NEW op \in Op, StartLookup(t, op) PROVE TypeOK'
    BY <2>0, <2>3, GotoMoves DEF StartLookup, NeedsReal, At, Place, TypeOK
  <2>4. ASSUME NEW t \in Thread, StartCallocLookup(t) PROVE TypeOK'
    BY <2>0, <2>4, GotoMoves DEF StartCallocLookup, At, Place, TypeOK
  <2>5. ASSUME NEW t \in Thread, ServeNested(t) PROVE TypeOK'
    <3>1. stack[t] # <<>> /\ Top(t).arg \in Nat
      BY <2>5, TopOfStack DEF ServeNested, At, Frames
    <3>2. BootstrapCalloc(t, Top(t).arg)
      BY <2>5 DEF ServeNested
    <3>3. stack' \in [Thread -> Seq(Frames)]
      BY <3>1, <3>2, Serves, PoppedStacks
    <3>4. /\ held' \subseteq Nat /\ dlBuffer' \in [Thread -> Nat]
          /\ served' \subseteq Nat \X Nat /\ wrapped' \in BOOLEAN
          /\ offset' \in 0 .. Word - 1
      BY <3>1, <3>2, Serves
    <3>5. QED
      BY <2>0, <2>5, <3>3, <3>4 DEF ServeNested, TypeOK
  <2>6. ASSUME NEW t \in Thread, FreeNothing(t) PROVE TypeOK'
    BY <2>0, <2>6, PoppedStacks DEF FreeNothing, At, TypeOK
  <2>7. ASSUME NEW t \in Thread, ReallocBootstrap(t) PROVE TypeOK'
    <3>1. stack[t] \in Seq(Frames) /\ stack[t] # <<>> /\ Top(t).arg \in Nat
      BY <2>7, TopOfStack DEF ReallocBootstrap, At, TypeOK, Frames, Place
    <3>2. Append(Pop(stack[t]), Frame("malloc", Top(t).arg)) \in Seq(Frames)
      <4>1. Frame("malloc", Top(t).arg) \in Frames
        BY <3>1 DEF Frame, Frames, Place
      <4>2. Pop(stack[t]) \in Seq(Frames)
        BY <3>1, PopShortens
      <4>3. QED
        BY <4>1, <4>2, AppendProperties
    <3>3. stack' \in [Thread -> Seq(Frames)]
      BY <2>7, <3>2 DEF ReallocBootstrap, TypeOK, Frames, Place
    <3>4. QED
      BY <2>0, <2>7, <3>3 DEF ReallocBootstrap, TypeOK
  <2>8. ASSUME NEW t \in Thread, NEW op \in Op, DlsymAllocates(t, op)
        PROVE  TypeOK'
    <3>1. stack' \in [Thread -> Seq(Frames)]
      BY <2>8, DlsymCalls DEF TypeOK
    <3>2. QED
      BY <2>0, <2>8, <3>1 DEF DlsymAllocates, TypeOK
  <2>9. ASSUME NEW t \in Thread, NEW op \in Op, Found(t, op) PROVE TypeOK'
    BY <2>0, <2>9, GotoMoves DEF Found, InDlsym, At, Place, TypeOK
  <2>10. ASSUME NEW t \in Thread, NEW op \in Op, Store(t, op) PROVE TypeOK'
    BY <2>0, <2>10, GotoMoves DEF Store, At, Place, TypeOK
  <2>11. ASSUME NEW t \in Thread, NEW op \in Op, NotFound(t, op) PROVE TypeOK'
    <3>1. stack[t] # <<>> /\ Top(t).arg \in Nat
      BY <2>11, TopOfStack DEF NotFound, InDlsym, At, Frames
    <3>2. CASE op = "calloc"
      <4>1. BootstrapCalloc(t, Top(t).arg) /\ resolving' \in [Thread -> BOOLEAN]
        BY <2>11, <3>2 DEF NotFound, TypeOK
      <4>2. stack' \in [Thread -> Seq(Frames)]
        BY <3>1, <4>1, Serves, PoppedStacks
      <4>3. /\ held' \subseteq Nat /\ dlBuffer' \in [Thread -> Nat]
            /\ served' \subseteq Nat \X Nat /\ wrapped' \in BOOLEAN
            /\ offset' \in 0 .. Word - 1
        BY <3>1, <4>1, Serves
      <4>4. QED
        BY <2>0, <2>11, <4>1, <4>2, <4>3 DEF NotFound, TypeOK
    <3>3. CASE op # "calloc"
      <4>1. stack' \in [Thread -> Seq(Frames)]
        BY <2>11, <3>1, <3>3, PoppedStacks DEF NotFound
      <4>2. held' \subseteq Nat
        BY <2>11, <3>1, <3>3 DEF NotFound, TypeOK
      <4>3. QED
        BY <2>0, <2>11, <3>3, <4>1, <4>2 DEF NotFound, TypeOK
    <3>4. QED
      BY <3>2, <3>3
  <2>12. ASSUME NEW t \in Thread, NEW op \in Op, CallAllocate(t, op)
         PROVE  TypeOK'
    <3>1. stack[t] # <<>> /\ Top(t).arg \in Nat
      BY <2>12, TopOfStack DEF CallAllocate, HasReal, NeedsReal, At, Frames
    <3>2. /\ \E p \in Nat : Return(t, p)
          /\ heap' \subseteq heap \cup HeapAddress
      BY <2>12, <2>17, <3>1 DEF CallAllocate
    <3>6. heap' \subseteq Nat
      BY <3>2 DEF TypeOK
    <3>3. stack' \in [Thread -> Seq(Frames)]
      BY <3>1, <3>2, ReturnPops, PoppedStacks
    <3>4. held' \subseteq Nat /\ dlBuffer' \in [Thread -> Nat]
      BY <3>1, <3>2, ReturnPops
    <3>5. QED
      BY <2>0, <2>12, <3>3, <3>4, <3>6 DEF CallAllocate, TypeOK
  <2>13. ASSUME NEW t \in Thread, CallFree(t) PROVE TypeOK'
    <3>1. stack' \in [Thread -> Seq(Frames)]
      BY <2>13, PoppedStacks DEF CallFree, HasReal, NeedsReal, At
    <3>2. QED
      BY <2>0, <2>13, <3>1 DEF CallFree, TypeOK
  <2>14. ASSUME NEW t \in Thread, CallRealloc(t) PROVE TypeOK'
    <3>1. stack[t] # <<>> /\ Top(t).arg \in Nat
      BY <2>14, TopOfStack DEF CallRealloc, HasReal, NeedsReal, At, Frames
    <3>2. stack' \in [Thread -> Seq(Frames)]
      BY <2>14, <3>1, PoppedStacks DEF CallRealloc
    <3>3. held' \subseteq Nat /\ heap' \subseteq Nat
      <4>1. heap \subseteq Nat /\ held \subseteq Nat /\ HeapAddress \subseteq Nat
        BY DEF TypeOK
      <4>2. CASE heap' = heap /\ held' = held \cup ({Top(t).arg} \ {Null})
        BY <3>1, <4>1, <4>2
      <4>3. CASE heap' = heap \ {Top(t).arg} /\ held' = held
        BY <4>1, <4>3
      <4>4. ASSUME NEW a \in (HeapAddress \ heap) \cup (heap \cap {Top(t).arg}),
                   heap' = (heap \ {Top(t).arg}) \cup {a},
                   held' = held \cup {a}
            PROVE  held' \subseteq Nat /\ heap' \subseteq Nat
        BY <4>1, <4>4
      <4>5. QED
        BY <2>14, <4>2, <4>3, <4>4 DEF CallRealloc
    <3>4. QED
      BY <2>0, <2>14, <3>2, <3>3 DEF CallRealloc, TypeOK
  <2>15. CASE UNCHANGED vars
    BY <2>15 DEF vars, TypeOK
  <2>16. QED
    BY <2>1, <2>2, <2>3, <2>4, <2>5, <2>6, <2>7, <2>8, <2>9, <2>10, <2>11,
       <2>12, <2>13, <2>14, <2>15 DEF Next, Step
<1>3. QED
  BY <1>1, <1>2, PTL DEF Spec

-----------------------------------------------------------------------------
(* Nesting                                                                 *)

\* The call at place i of a stack is looking up calloc.
Looks(s, i) == s[i].op = "calloc" /\ s[i].at \in {"dlsym", "dlsym_again"}

\* Only a lookup that allocates has a call above it, only dlsym calls from
\* above, and at most one call looks up calloc.
Shape(s) ==
  /\ \A i \in 1 .. Len(s) : i < Len(s) => s[i].at = "dlsym_again"
  /\ \A i \in 1 .. Len(s) : i > 1 => s[i].op = "calloc" /\ s[i].arg = DlSize
  /\ \A i, j \in 1 .. Len(s) : Looks(s, i) /\ Looks(s, j) => i = j

LooksUp(s) == \E i \in 1 .. Len(s) : Looks(s, i)

Nested == /\ \A t \in Thread : Shape(stack[t])
          /\ \A t \in Thread : resolving[t] = LooksUp(stack[t])

\* A stack of this shape is at most three calls deep.
LEMMA ShapeIsShallow ==
  ASSUME NEW s \in Seq(Frames), Shape(s)
  PROVE  Len(s) <= 3
<1>1. Len(s) \in Nat
  OBVIOUS
<1>2. SUFFICES ASSUME Len(s) > 3 PROVE FALSE
  BY <1>1
<1>3. 2 \in 1 .. Len(s) /\ 3 \in 1 .. Len(s) /\ 2 < Len(s) /\ 3 < Len(s)
  BY <1>1, <1>2
<1>4. ASSUME NEW i \in 1 .. Len(s), i > 1, i < Len(s) PROVE Looks(s, i)
  BY <1>4 DEF Shape, Looks
<1>5. Looks(s, 2) /\ Looks(s, 3)
  BY <1>3, <1>4
<1>6. 2 = 3
  BY <1>3, <1>5, Zenon DEF Shape
<1>7. QED
  BY <1>6

\* A first call looks up nothing.
LEMMA ShapeOfFirst ==
  ASSUME NEW f \in Frames, f.at = "load"
  PROVE  Shape(<<f>>) /\ ~LooksUp(<<f>>)
<1>1. Len(<<f>>) = 1 /\ <<f>>[1] = f
  OBVIOUS
<1>2. \A i \in 1 .. Len(<<f>>) : i = 1
  BY <1>1
<1>3. ~Looks(<<f>>, 1)
  BY <1>1 DEF Looks
<1>4. QED
  BY <1>1, <1>2, <1>3 DEF Shape, LooksUp

\* The innermost call goes on to another place.
LEMMA ShapeGoesOn ==
  ASSUME NEW s \in Seq(Frames), s # <<>>, NEW r \in Seq(Frames),
         Shape(s), Len(r) = Len(s),
         \A i \in 1 .. Len(s) : /\ r[i].op = s[i].op
                                /\ r[i].arg = s[i].arg
                                /\ i < Len(s) => r[i].at = s[i].at,
         Looks(r, Len(s)) => Looks(s, Len(s)) \/ ~LooksUp(s)
  PROVE  /\ Shape(r)
         /\ Looks(s, Len(s)) => (LooksUp(r) <=> Looks(r, Len(s)))
         /\ Looks(r, Len(s)) => LooksUp(r)
         /\ ~Looks(s, Len(s)) /\ ~Looks(r, Len(s)) => (LooksUp(r) <=> LooksUp(s))
<1>1. Len(s) \in Nat /\ Len(s) \in 1 .. Len(s)
  OBVIOUS
<1>2. \A i \in 1 .. Len(s) : i # Len(s) => (Looks(r, i) <=> Looks(s, i))
  BY <1>1 DEF Looks
<1>3. \A i \in 1 .. Len(s) : i > 1 => r[i].op = "calloc" /\ r[i].arg = DlSize
  BY <1>1 DEF Shape
<1>4. \A i \in 1 .. Len(s) : i < Len(s) => r[i].at = "dlsym_again"
  BY <1>1 DEF Shape
<1>5. \A i, j \in 1 .. Len(s) : Looks(r, i) /\ Looks(r, j) => i = j
  BY <1>1, <1>2 DEF Shape, LooksUp
<1>6. Looks(s, Len(s)) => \A i \in 1 .. Len(s) : Looks(s, i) => i = Len(s)
  BY <1>1 DEF Shape
<1>7. QED
  BY <1>1, <1>2, <1>3, <1>4, <1>5, <1>6 DEF Shape, LooksUp

\* The innermost call returns.
LEMMA ShapeReturns ==
  ASSUME NEW s \in Seq(Frames), s # <<>>, NEW r \in Seq(Frames),
         Shape(s), Len(r) = Len(s) - 1,
         \A i \in 1 .. Len(s) - 1 : r[i] = s[i]
  PROVE  /\ Shape(r)
         /\ Looks(s, Len(s)) => ~LooksUp(r)
         /\ ~Looks(s, Len(s)) => (LooksUp(r) <=> LooksUp(s))
<1>1. Len(s) \in Nat /\ Len(s) \in 1 .. Len(s)
  OBVIOUS
<1>2. \A i \in 1 .. Len(r) : i \in 1 .. Len(s) /\ i < Len(s) /\ r[i] = s[i]
  BY <1>1
<1>3. \A i \in 1 .. Len(s) : i \in 1 .. Len(r) \/ i = Len(s)
  BY <1>1
<1>4. \A i \in 1 .. Len(r) : Looks(r, i) <=> Looks(s, i)
  BY <1>2 DEF Looks
<1>5. \A i \in 1 .. Len(r) : i < Len(r) => r[i].at = "dlsym_again"
  BY <1>1, <1>2 DEF Shape
<1>6. \A i \in 1 .. Len(r) : i > 1 => r[i].op = "calloc" /\ r[i].arg = DlSize
  BY <1>1, <1>2 DEF Shape
<1>7. \A i, j \in 1 .. Len(r) : Looks(r, i) /\ Looks(r, j) => i = j
  BY <1>2, <1>4 DEF Shape
<1>8. Looks(s, Len(s)) => ~LooksUp(r)
  <2>1. SUFFICES ASSUME Looks(s, Len(s)), NEW i \in 1 .. Len(r), Looks(r, i)
                 PROVE  FALSE
    BY DEF LooksUp
  <2>2. Looks(s, i) /\ i \in 1 .. Len(s) /\ i < Len(s)
    BY <1>2, <1>4, <2>1
  <2>3. i = Len(s)
    BY <1>1, <2>1, <2>2 DEF Shape
  <2>4. QED
    BY <1>1, <2>2, <2>3
<1>9. ~Looks(s, Len(s)) => (LooksUp(r) <=> LooksUp(s))
  BY <1>2, <1>3, <1>4, Zenon DEF LooksUp
<1>10. QED
  BY <1>5, <1>6, <1>7, <1>8, <1>9 DEF Shape

\* dlsym calls calloc.
LEMMA ShapeCalls ==
  ASSUME NEW s \in Seq(Frames), s # <<>>, NEW r \in Seq(Frames),
         Shape(s), Len(r) = Len(s) + 1,
         \A i \in 1 .. Len(s) :
           /\ r[i].op = s[i].op
           /\ r[i].arg = s[i].arg
           /\ r[i].at = IF i = Len(s) THEN "dlsym_again" ELSE s[i].at,
         s[Len(s)].at = "dlsym",
         r[Len(s) + 1] = Frame("calloc", DlSize)
  PROVE  Shape(r) /\ (LooksUp(r) <=> LooksUp(s))
<1>1. /\ Len(s) \in Nat /\ Len(s) \in 1 .. Len(s)
      /\ Len(r) \in Nat /\ Len(r) \in 1 .. Len(r)
  OBVIOUS
<1>2. \A i \in 1 .. Len(r) : (i \in 1 .. Len(s) /\ i < Len(r)) \/ i = Len(r)
  BY <1>1
<1>3. /\ r[Len(r)].op = "calloc" /\ r[Len(r)].arg = DlSize
      /\ ~Looks(r, Len(r))
  BY DEF Frame, Looks
<1>4. \A i \in 1 .. Len(s) : Looks(r, i) <=> Looks(s, i)
  BY <1>1 DEF Looks
<1>5. \A i \in 1 .. Len(s) : i \in 1 .. Len(r)
  BY <1>1
<1>6. \A i \in 1 .. Len(s) : r[i].at = "dlsym_again"
  BY <1>1 DEF Shape
<1>7. \A i \in 1 .. Len(r) : i < Len(r) => r[i].at = "dlsym_again"
  BY <1>1, <1>2, <1>6
<1>8. \A i \in 1 .. Len(s) : i > 1 => r[i].op = "calloc" /\ r[i].arg = DlSize
  BY <1>1 DEF Shape
<1>9. \A i \in 1 .. Len(r) : i > 1 => r[i].op = "calloc" /\ r[i].arg = DlSize
  BY <1>1, <1>2, <1>3, <1>8
<1>10. \A i \in 1 .. Len(r) : Looks(r, i) => i \in 1 .. Len(s) /\ Looks(s, i)
  BY <1>2, <1>3, <1>4, Zenon
<1>11. \A i, j \in 1 .. Len(r) : Looks(r, i) /\ Looks(r, j) => i = j
  BY <1>10 DEF Shape
<1>12. LooksUp(r) <=> LooksUp(s)
  BY <1>4, <1>5, <1>10, Zenon DEF LooksUp
<1>13. QED
  BY <1>7, <1>9, <1>11, <1>12 DEF Shape

-----------------------------------------------------------------------------
(* Kinds of steps                                                          *)

\* A thread with no call enters one.
Enters(t) ==
  /\ stack[t] = <<>>
  /\ \E f \in Frames : f.at = "load" /\ stack' = [stack EXCEPT ![t] = <<f>>]
  /\ UNCHANGED <<resolved, resolving, offset, served, wrapped>>

\* A call returns that was not looking up calloc.
Leaves(t) ==
  /\ stack[t] # <<>>
  /\ Top(t).op = "calloc" => Top(t).at \in {"load", "call"}
  /\ stack' = [stack EXCEPT ![t] = Pop(@)]
  /\ UNCHANGED <<resolved, resolving, offset, served, wrapped>>

\* calloc or its dlsym is served from the buffer.
TakesFromBuffer(t) == ServeNested(t) \/ NotFound(t, "calloc")

LookupStep(t, op) ==
  StartLookup(t, op) \/ DlsymAllocates(t, op) \/ Found(t, op) \/ Store(t, op)

\* Every step is one of these.
LEMMA StepKinds ==
  ASSUME TypeOK, [Next]_vars
  PROVE  \/ UNCHANGED <<stack, resolved, resolving, offset, served, wrapped>>
         \/ \E t \in Thread :
              \/ Enters(t) \/ Leaves(t) \/ TakesFromBuffer(t)
              \/ ReallocBootstrap(t) \/ StartCallocLookup(t)
              \/ \E op \in Op : LookupStep(t, op)
<1> USE BootstrapAssumption
<1>1. ASSUME NEW t \in Thread, NEW op \in Op, Call(t, op) PROVE Enters(t)
  <2>1. PICK arg \in Nat : stack' = [stack EXCEPT ![t] = <<Frame(op, arg)>>]
    BY <1>1 DEF Call, TypeOK, Null
  <2>2. Frame(op, arg) \in Frames /\ Frame(op, arg).at = "load"
    BY DEF Frame, Frames, Place
  <2>3. QED
    BY <1>1, <2>1, <2>2 DEF Call, Enters
<1>2. ASSUME NEW t \in Thread, ThreadExit(t) PROVE Enters(t)
  <2>1. dlBuffer[t] \in Nat
    BY DEF TypeOK
  <2>2. /\ Frame("free", dlBuffer[t]) \in Frames
        /\ Frame("free", dlBuffer[t]).at = "load"
    BY <2>1 DEF Frame, Frames, Place
  <2>3. QED
    BY <1>2, <2>2 DEF ThreadExit, Enters
<1>3. ASSUME NEW t \in Thread, FreeNothing(t) PROVE Leaves(t)
  BY <1>3 DEF FreeNothing, Leaves, At
<1>4. ASSUME NEW t \in Thread, CallFree(t) PROVE Leaves(t)
  BY <1>4 DEF CallFree, HasReal, NeedsReal, Leaves, At
<1>5. ASSUME NEW t \in Thread, CallRealloc(t) PROVE Leaves(t)
  BY <1>5 DEF CallRealloc, HasReal, NeedsReal, Leaves, At
<1>6. ASSUME NEW t \in Thread, NEW op \in Op, CallAllocate(t, op) PROVE Leaves(t)
  BY <1>6 DEF CallAllocate, HasReal, NeedsReal, Return, Leaves, At
<1>7. ASSUME NEW t \in Thread, NEW op \in Op, NotFound(t, op)
      PROVE  Leaves(t) \/ TakesFromBuffer(t)
  BY <1>7 DEF NotFound, InDlsym, Leaves, TakesFromBuffer, At
<1>8. CASE UNCHANGED vars
  BY <1>8 DEF vars
<1>9. QED
  BY <1>1, <1>2, <1>3, <1>4, <1>5, <1>6, <1>7, <1>8
     DEF Next, Step, TakesFromBuffer, LookupStep

\* What serving a request does to stacks and buffer.
LEMMA BufferServes ==
  ASSUME TypeOK, NEW t \in Thread, TakesFromBuffer(t)
  PROVE  /\ stack[t] # <<>> /\ Top(t).arg \in Nat /\ Top(t).op = "calloc"
         /\ BootstrapCalloc(t, Top(t).arg)
BY BootstrapAssumption, TopOfStack
   DEF TakesFromBuffer, ServeNested, NotFound, InDlsym, At, Frames

-----------------------------------------------------------------------------
(* Nested calls                                                            *)

\* A thread enters its first call.
LEMMA EnteredStack ==
  ASSUME TypeOK, NEW t \in Thread, Enters(t)
  PROVE  /\ \A u \in Thread \ {t} : stack'[u] = stack[u]
         /\ \E f \in Frames : f.at = "load" /\ stack'[t] = <<f>>
BY DEF Enters, TypeOK

\* The call that realloc makes for a block of the buffer takes its place.
LEMMA ReplacedCall ==
  ASSUME TypeOK, NEW t \in Thread, ReallocBootstrap(t), Shape(stack[t])
  PROVE  /\ \A u \in Thread \ {t} : stack'[u] = stack[u]
         /\ \E f \in Frames : f.at = "load" /\ stack'[t] = <<f>>
         /\ stack'[t] = <<Frame("malloc", Top(t).arg)>>
         /\ stack[t][1] = Top(t)
         /\ ~LooksUp(stack[t])
<1> DEFINE f == Frame("malloc", Top(t).arg)
<1>1. /\ stack[t] \in Seq(Frames) /\ stack[t] # <<>>
      /\ Top(t).arg \in Nat /\ Top(t).op = "realloc"
      /\ Top(t) = stack[t][Len(stack[t])]
      /\ Len(stack[t]) \in 1 .. Len(stack[t])
  BY TopOfStack DEF ReallocBootstrap, At, TypeOK, Frames, Place
<1>2. f \in Frames /\ f.at = "load"
  BY <1>1 DEF Frame, Frames, Place
<1>3. Len(stack[t]) = 1
  <2>1. Len(stack[t]) > 1 => stack[t][Len(stack[t])].op = "calloc"
    BY <1>1, Zenon DEF Shape
  <2>2. ~(Len(stack[t]) > 1)
    BY <1>1, <2>1
  <2>3. Len(stack[t]) \in Nat \ {0}
    BY <1>1, TopOfStack
  <2>4. QED
    BY <2>2, <2>3
<1>4. Pop(stack[t]) = <<>>
  <2>1. Pop(stack[t]) \in Seq(Frames) /\ Len(Pop(stack[t])) = 0
    BY <1>1, <1>3, PopShortens
  <2>2. QED
    BY <2>1
<1>5. Append(<<>>, f) = <<f>>
  BY <1>2
<1>6. stack' = [stack EXCEPT ![t] = <<f>>]
  BY <1>4, <1>5 DEF ReallocBootstrap
<1>7. stack'[t] = <<f>> /\ \A u \in Thread \ {t} : stack'[u] = stack[u]
  BY <1>6 DEF TypeOK
<1>8. \A i \in 1 .. Len(stack[t]) : i = Len(stack[t])
  BY <1>3
<1>9. ~LooksUp(stack[t])
  BY <1>1, <1>8 DEF LooksUp, Looks
<1>10. stack[t][1] = Top(t)
  BY <1>1, <1>3
<1>11. QED
  BY <1>2, <1>7, <1>9, <1>10

\* Calls nest as Nested says, in every step.
LEMMA NestedStays ==
  ASSUME TypeOK, TypeOK', Nested, [Next]_vars
  PROVE  Nested'
<1>1. \A t \in Thread : /\ stack[t] \in Seq(Frames) /\ stack'[t] \in Seq(Frames)
                        /\ Shape(stack[t])
                        /\ resolving[t] = LooksUp(stack[t])
  BY DEF TypeOK, Frames, Place, Nested
<1>2. ASSUME NEW t \in Thread,
             \A u \in Thread \ {t} : /\ stack'[u] = stack[u]
                                     /\ resolving'[u] = resolving[u],
             Shape(stack'[t]), resolving'[t] = LooksUp(stack'[t])
      PROVE  Nested'
  BY <1>1, <1>2, Zenon DEF Nested
<1>3. ASSUME NEW t \in Thread, NEW place \in Place, Goto(t, place), stack[t] # <<>>,
             \A u \in Thread \ {t} : resolving'[u] = resolving[u],
             Top(t).op = "calloc" /\ place \in {"dlsym", "dlsym_again"}
               => \/ Top(t).at \in {"dlsym", "dlsym_again"}
                  \/ ~resolving[t],
             resolving'[t] = IF Top(t).op # "calloc" THEN resolving[t]
                             ELSE IF place \in {"dlsym", "dlsym_again"} THEN TRUE
                             ELSE IF Top(t).at \in {"dlsym", "dlsym_again"} THEN FALSE
                             ELSE resolving[t]
      PROVE  Nested'
  <2>1. PICK s \in Seq(Frames), r \in Seq(Frames) : s = stack[t] /\ r = stack'[t]
    BY <1>1
  <2>2. /\ \A u \in Thread \ {t} : stack'[u] = stack[u]
        /\ Len(r) = Len(s)
        /\ \A i \in 1 .. Len(s) : /\ r[i].op = s[i].op
                                  /\ r[i].arg = s[i].arg
                                  /\ r[i].at = IF i = Len(s) THEN place ELSE s[i].at
    BY <1>3, <2>1, GotoMoves
  <2>3. /\ s # <<>> /\ Shape(s) /\ resolving[t] = LooksUp(s)
        /\ Top(t) = s[Len(s)] /\ Len(s) \in 1 .. Len(s)
    BY <1>1, <1>3, <2>1 DEF Top
  <2>4. /\ r[Len(s)].op = s[Len(s)].op /\ r[Len(s)].at = place
        /\ \A i \in 1 .. Len(s) : /\ r[i].op = s[i].op
                                  /\ r[i].arg = s[i].arg
                                  /\ i < Len(s) => r[i].at = s[i].at
    BY <2>2, <2>3
  <2>5. /\ Looks(s, Len(s)) <=> /\ Top(t).op = "calloc"
                               /\ Top(t).at \in {"dlsym", "dlsym_again"}
        /\ Looks(r, Len(s)) <=> /\ Top(t).op = "calloc"
                               /\ place \in {"dlsym", "dlsym_again"}
    BY <2>3, <2>4 DEF Looks
  <2>6. Looks(r, Len(s)) => Looks(s, Len(s)) \/ ~LooksUp(s)
    BY <1>3, <2>3, <2>5
  <2>7. /\ Shape(r)
        /\ Looks(s, Len(s)) => (LooksUp(r) <=> Looks(r, Len(s)))
        /\ Looks(r, Len(s)) => LooksUp(r)
        /\ ~Looks(s, Len(s)) /\ ~Looks(r, Len(s)) => (LooksUp(r) <=> LooksUp(s))
    BY <2>2, <2>3, <2>4, <2>6, ShapeGoesOn
  <2>8. resolving'[t] = LooksUp(r)
    <3>1. LooksUp(r) \in BOOLEAN /\ LooksUp(s) \in BOOLEAN
      BY DEF LooksUp
    <3>2. CASE Top(t).op # "calloc"
      BY <1>3, <2>3, <2>5, <2>7, <3>1, <3>2
    <3>3. CASE Top(t).op = "calloc" /\ place \in {"dlsym", "dlsym_again"}
      BY <1>3, <2>5, <2>7, <3>1, <3>3
    <3>4. CASE /\ Top(t).op = "calloc" /\ place \notin {"dlsym", "dlsym_again"}
               /\ Top(t).at \in {"dlsym", "dlsym_again"}
      BY <1>3, <2>5, <2>7, <3>1, <3>4
    <3>5. CASE /\ Top(t).op = "calloc" /\ place \notin {"dlsym", "dlsym_again"}
               /\ Top(t).at \notin {"dlsym", "dlsym_again"}
      BY <1>3, <2>3, <2>5, <2>7, <3>1, <3>5
    <3>6. QED
      BY <3>2, <3>3, <3>4, <3>5
  <2>9. QED
    BY <1>2, <1>3, <2>1, <2>2, <2>7, <2>8
<1>4. ASSUME NEW t \in Thread, stack[t] # <<>>, stack' = [stack EXCEPT ![t] = Pop(@)],
             \A u \in Thread \ {t} : resolving'[u] = resolving[u],
             \/ /\ Top(t).op = "calloc" /\ Top(t).at \in {"dlsym", "dlsym_again"}
                /\ ~resolving'[t]
             \/ /\ ~(Top(t).op = "calloc" /\ Top(t).at \in {"dlsym", "dlsym_again"})
                /\ resolving'[t] = resolving[t]
      PROVE  Nested'
  <2>1. PICK s \in Seq(Frames), r \in Seq(Frames) : s = stack[t] /\ r = stack'[t]
    BY <1>1
  <2>2. /\ \A u \in Thread \ {t} : stack'[u] = stack[u]
        /\ Len(r) = Len(s) - 1
        /\ \A i \in 1 .. Len(s) - 1 : r[i] = s[i]
    BY <1>4, <2>1, PoppedStacks
  <2>3. /\ s # <<>> /\ Shape(s) /\ resolving[t] = LooksUp(s)
        /\ Top(t) = s[Len(s)]
    BY <1>1, <1>4, <2>1 DEF Top
  <2>4. /\ Shape(r)
        /\ Looks(s, Len(s)) => ~LooksUp(r)
        /\ ~Looks(s, Len(s)) => (LooksUp(r) <=> LooksUp(s))
    BY <2>2, <2>3, ShapeReturns
  <2>5. LooksUp(r) \in BOOLEAN /\ LooksUp(s) \in BOOLEAN /\ resolving'[t] \in BOOLEAN
    BY DEF LooksUp, TypeOK
  <2>6. resolving'[t] = LooksUp(r)
    BY <1>4, <2>3, <2>4, <2>5 DEF Looks
  <2>7. QED
    BY <1>2, <1>4, <2>1, <2>2, <2>4, <2>6
<1>5. CASE UNCHANGED <<stack, resolved, resolving, offset, served, wrapped>>
  BY <1>5 DEF Nested
<1>6. ASSUME NEW t \in Thread, Enters(t) PROVE Nested'
  <2>1. PICK f \in Frames : f.at = "load" /\ stack'[t] = <<f>>
    BY <1>6, EnteredStack
  <2>2. Shape(<<f>>) /\ ~LooksUp(<<f>>)
    BY <2>1, ShapeOfFirst
  <2>3. resolving'[t] = resolving[t] /\ ~LooksUp(stack[t])
    BY <1>6 DEF Enters, LooksUp
  <2>4. \A u \in Thread \ {t} : stack'[u] = stack[u] /\ resolving'[u] = resolving[u]
    BY <1>6, EnteredStack DEF Enters
  <2>5. resolving'[t] = LooksUp(stack'[t])
    <3>1. LooksUp(<<f>>) \in BOOLEAN /\ LooksUp(stack[t]) \in BOOLEAN
      BY DEF LooksUp
    <3>2. QED
      BY <1>1, <2>1, <2>2, <2>3, <3>1
  <2>6. QED
    BY <1>2, <2>1, <2>2, <2>4, <2>5
<1>7. ASSUME NEW t \in Thread, Leaves(t) PROVE Nested'
  BY <1>4, <1>7 DEF Leaves
<1>8. ASSUME NEW t \in Thread, TakesFromBuffer(t) PROVE Nested'
  <2>1. /\ stack[t] # <<>> /\ Top(t).op = "calloc"
        /\ stack' = [stack EXCEPT ![t] = Pop(@)]
    BY <1>8, BufferServes, Serves
  <2>2. CASE ServeNested(t)
    BY <1>4, <2>1, <2>2 DEF ServeNested, At
  <2>3. CASE NotFound(t, "calloc")
    BY <1>4, <2>1, <2>3 DEF NotFound, InDlsym, At, TypeOK
  <2>4. QED
    BY <1>8, <2>2, <2>3 DEF TakesFromBuffer
<1>9. ASSUME NEW t \in Thread, ReallocBootstrap(t) PROVE Nested'
  <2>1. PICK f \in Frames : f.at = "load" /\ stack'[t] = <<f>>
    BY <1>1, <1>9, ReplacedCall
  <2>2. Shape(<<f>>) /\ ~LooksUp(<<f>>)
    BY <2>1, ShapeOfFirst
  <2>3. resolving' = resolving /\ ~LooksUp(stack[t])
    BY <1>1, <1>9, ReplacedCall DEF ReallocBootstrap
  <2>4. \A u \in Thread \ {t} : stack'[u] = stack[u]
    BY <1>1, <1>9, ReplacedCall
  <2>5. resolving'[t] = LooksUp(stack'[t])
    <3>1. LooksUp(<<f>>) \in BOOLEAN /\ LooksUp(stack[t]) \in BOOLEAN
      BY DEF LooksUp
    <3>2. QED
      BY <1>1, <2>1, <2>2, <2>3, <3>1
  <2>6. QED
    BY <1>2, <2>1, <2>2, <2>3, <2>4, <2>5
<1>10. ASSUME NEW t \in Thread, StartCallocLookup(t) PROVE Nested'
  BY <1>3, <1>10 DEF StartCallocLookup, At, TypeOK, Place
<1>11. ASSUME NEW t \in Thread, NEW op \in Op, LookupStep(t, op) PROVE Nested'
  <2>1. CASE StartLookup(t, op)
    BY <1>3, <2>1 DEF StartLookup, NeedsReal, At, Place
  <2>2. CASE Found(t, op)
    BY <1>3, <2>2 DEF Found, InDlsym, At, Place, TypeOK
  <2>3. CASE Store(t, op)
    BY <1>3, <2>3 DEF Store, At, Place
  <2>4. CASE DlsymAllocates(t, op)
    <3>1. PICK s \in Seq(Frames), r \in Seq(Frames) : s = stack[t] /\ r = stack'[t]
      BY <1>1
    <3>2. /\ s # <<>> /\ Shape(s) /\ resolving[t] = LooksUp(s)
          /\ s[Len(s)].at = "dlsym" /\ resolving' = resolving
      BY <1>1, <2>4, <3>1 DEF DlsymAllocates, At, Top
    <3>3. /\ \A u \in Thread \ {t} : stack'[u] = stack[u]
          /\ Len(r) = Len(s) + 1
          /\ \A i \in 1 .. Len(s) :
               /\ r[i].op = s[i].op
               /\ r[i].arg = s[i].arg
               /\ r[i].at = IF i = Len(s) THEN "dlsym_again" ELSE s[i].at
          /\ r[Len(s) + 1] = Frame("calloc", DlSize)
      BY <2>4, <3>1, DlsymCalls
    <3>4. Shape(r) /\ (LooksUp(r) <=> LooksUp(s))
      BY <3>2, <3>3, ShapeCalls
    <3>5. resolving'[t] = LooksUp(r)
      <4>1. LooksUp(r) \in BOOLEAN /\ LooksUp(s) \in BOOLEAN
        BY DEF LooksUp
      <4>2. QED
        BY <3>2, <3>4, <4>1
    <3>6. QED
      BY <1>2, <3>1, <3>2, <3>3, <3>4, <3>5
  <2>5. QED
    BY <1>11, <2>1, <2>2, <2>3, <2>4 DEF LookupStep
<1>12. QED
  BY <1>5, <1>6, <1>7, <1>8, <1>9, <1>10, <1>11, StepKinds

\* Calls always nest as Nested says.
THEOREM CallsNest == Spec => []Nested
<1>1. Init => Nested
  BY DEF Init, Nested, Shape, LooksUp
<1>2. TypeOK /\ TypeOK' /\ Nested /\ [Next]_vars => Nested'
  BY NestedStays
<1>3. QED
  BY <1>1, <1>2, TypeCorrect, PTL DEF Spec

\* The lookup of calloc does not recurse: no stack is deeper than a call, the
\* calloc of its dlsym and the calloc of the dlsym for that, though dlsym may
\* allocate at any time (RealAllocator.cpp:22-32).
THEOREM LookupDoesNotRecurse == Spec => []NestingIsBounded
<1>1. TypeOK /\ Nested => NestingIsBounded
  BY ShapeIsShallow DEF TypeOK, Nested, NestingIsBounded, Frames, Place
<1>2. QED
  BY <1>1, TypeCorrect, CallsNest, PTL

-----------------------------------------------------------------------------
(* How much of the buffer dlsym can take                                   *)

\* The threads whose lookup of calloc has made its request.
Asked == {t \in Thread : \/ At(t, "calloc", "dlsym_again")
                         \/ At(t, "calloc", "store")}

\* One request for each of them, until calloc is found; the offset has room for all.
OncePerLookup ==
  "calloc" \notin missing =>
    /\ ~wrapped
    /\ offset <= DlSize * Cardinality(Thread)
    /\ "calloc" \notin resolved => offset <= DlSize * Cardinality(Asked)

LEMMA MoreAsked ==
  ASSUME NEW S, NEW T, IsFiniteSet(T), S \subseteq T, NEW t \in T, t \notin S
  PROVE  /\ Cardinality(S) \in Nat /\ Cardinality(T) \in Nat
         /\ Cardinality(S) + 1 <= Cardinality(T)
<1>1. IsFiniteSet(S) /\ S \cup {t} \subseteq T
  BY FS_Subset
<1>2. Cardinality(S \cup {t}) = Cardinality(S) + 1
  BY <1>1, FS_AddElement
<1>3. Cardinality(S \cup {t}) <= Cardinality(T)
  BY <1>1, FS_Subset
<1>4. QED
  BY <1>1, <1>2, <1>3, FS_CardinalityType

LEMMA OneMore ==
  ASSUME NEW d \in Nat, NEW o \in Nat, NEW m \in Nat, NEW n \in Nat,
         m + 1 <= n, o <= d * m
  PROVE  o + d <= d * n
<1>1. d * (m + 1) <= d * n
  BY SMTT(30)
<1>2. d * (m + 1) = d * m + d
  BY SMTT(30)
<1>3. d * m \in Nat /\ d * n \in Nat
  OBVIOUS
<1>4. QED
  BY <1>1, <1>2, <1>3

LEMMA NoLess ==
  ASSUME NEW d \in Nat, NEW o \in Nat, NEW m \in Nat, NEW n \in Nat,
         m <= n, o <= d * m
  PROVE  o <= d * n
<1>1. d * m <= d * n
  BY SMTT(30)
<1>2. d * m \in Nat /\ d * n \in Nat
  OBVIOUS
<1>3. QED
  BY <1>1, <1>2

\* dlsym's calloc is served: the lookup below it has now made its request.
LEMMA ServedOnce ==
  ASSUME TypeOK, Nested, NEW t \in Thread, ServeNested(t)
  PROVE  /\ Top(t).arg = DlSize
         /\ t \notin Asked
         /\ At(t, "calloc", "dlsym_again")'
         /\ \A u \in Thread \ {t} : stack'[u] = stack[u]
<1>1. PICK s \in Seq(Frames) : s = stack[t]
  BY DEF TypeOK, Frames, Place
<1>2. /\ stack[t] # <<>> /\ Top(t) = s[Len(s)] /\ Top(t).op = "calloc"
      /\ Top(t).at = "load" /\ Shape(s) /\ resolving[t] /\ resolving[t] = LooksUp(s)
      /\ Len(s) \in Nat \ {0} /\ Len(s) \in 1 .. Len(s)
  BY <1>1, TopOfStack DEF ServeNested, At, Top, Nested
<1>3. PICK i \in 1 .. Len(s) : Looks(s, i)
  BY <1>2 DEF LooksUp
<1>4. i # Len(s)
  BY <1>2, <1>3 DEF Looks
<1>5. /\ i < Len(s) /\ Len(s) > 1 /\ Len(s) - 1 \in 1 .. Len(s)
      /\ Len(s) - 1 < Len(s)
  BY <1>2, <1>4
<1>6. s[Len(s) - 1].at = "dlsym_again"
  BY <1>2, <1>5 DEF Shape
<1>7. s[Len(s) - 1].op = "calloc"
  <2>1. CASE Len(s) - 1 > 1
    BY <1>2, <1>5, <2>1 DEF Shape
  <2>2. CASE ~(Len(s) - 1 > 1)
    <3>1. i = Len(s) - 1
      BY <1>2, <1>5, <2>2
    <3>2. QED
      BY <1>3, <3>1 DEF Looks
  <2>3. QED
    BY <2>1, <2>2
<1>8. Top(t).arg = DlSize
  BY <1>2, <1>5 DEF Shape
<1>9. stack' = [stack EXCEPT ![t] = Pop(@)]
  BY <1>2, BufferServes, Serves DEF TakesFromBuffer
<1>10. /\ \A u \in Thread \ {t} : stack'[u] = stack[u]
       /\ Len(stack'[t]) = Len(s) - 1
       /\ \A j \in 1 .. Len(s) - 1 : stack'[t][j] = s[j]
       /\ stack'[t] \in Seq(Frames)
  <2>1. /\ stack' \in [Thread -> Seq(Frames)]
        /\ \A u \in Thread \ {t} : stack'[u] = stack[u]
        /\ Len(stack'[t]) = Len(stack[t]) - 1
        /\ \A j \in 1 .. Len(stack[t]) - 1 : stack'[t][j] = stack[t][j]
    BY <1>2, <1>9, PoppedStacks
  <2>2. QED
    BY <1>1, <2>1
<1>11. Len(s) - 1 \in 1 .. Len(s) - 1 /\ stack'[t] # <<>>
  BY <1>5, <1>10
<1>12. stack'[t][Len(stack'[t])] = s[Len(s) - 1]
  BY <1>10, <1>11
<1>13. At(t, "calloc", "dlsym_again")'
  BY <1>6, <1>7, <1>11, <1>12 DEF At, Top
<1>14. t \notin Asked
  BY <1>2 DEF Asked, At
<1>15. QED
  BY <1>8, <1>10, <1>13, <1>14

\* Until calloc is found, no other step takes back a request.
LEMMA AskedStays ==
  ASSUME TypeOK, Nested, [Next]_vars,
         \A t \in Thread : ~TakesFromBuffer(t) /\ ~Store(t, "calloc")
  PROVE  Asked \subseteq Asked' /\ offset' = offset /\ wrapped' = wrapped
<1>1. ASSUME NEW t \in Thread, \A u \in Thread \ {t} : stack'[u] = stack[u],
             t \in Asked => t \in Asked'
      PROVE  Asked \subseteq Asked'
  BY <1>1 DEF Asked, At, Top
<1>2. ASSUME NEW t \in Thread, Enters(t) PROVE Asked \subseteq Asked'
  BY <1>1, <1>2, EnteredStack DEF Asked, At, Enters
<1>3. ASSUME NEW t \in Thread, Leaves(t) PROVE Asked \subseteq Asked'
  <2>1. t \notin Asked
    BY <1>3 DEF Asked, At, Leaves
  <2>2. QED
    BY <1>1, <1>3, <2>1, PoppedStacks DEF Leaves
<1>4. ASSUME NEW t \in Thread, ReallocBootstrap(t) PROVE Asked \subseteq Asked'
  <2>1. t \notin Asked /\ Shape(stack[t])
    BY <1>4 DEF Asked, At, ReallocBootstrap, Nested
  <2>2. QED
    BY <1>1, <1>4, <2>1, ReplacedCall
<1>5. ASSUME NEW t \in Thread, StartCallocLookup(t) PROVE Asked \subseteq Asked'
  <2>1. t \notin Asked /\ stack[t] # <<>> /\ Goto(t, "dlsym")
    BY <1>5 DEF Asked, At, StartCallocLookup
  <2>2. QED
    BY <1>1, <2>1, GotoMoves DEF Place
<1>6. ASSUME NEW t \in Thread, NEW op \in Op, LookupStep(t, op)
      PROVE  Asked \subseteq Asked'
  <2>1. CASE StartLookup(t, op)
    <3>1. t \notin Asked /\ stack[t] # <<>> /\ Goto(t, "dlsym")
      BY <2>1 DEF Asked, At, StartLookup, NeedsReal
    <3>2. QED
      BY <1>1, <3>1, GotoMoves DEF Place
  <2>2. CASE Found(t, op)
    <3>1. stack[t] # <<>> /\ Goto(t, "store") /\ Top(t).op = op
      BY <2>2 DEF Found, InDlsym, At
    <3>2. /\ \A u \in Thread \ {t} : stack'[u] = stack[u]
          /\ Len(stack'[t]) = Len(stack[t]) /\ stack'[t] \in Seq(Frames)
          /\ \A i \in 1 .. Len(stack[t]) :
               /\ stack'[t][i].op = stack[t][i].op
               /\ stack'[t][i].at = IF i = Len(stack[t]) THEN "store"
                                    ELSE stack[t][i].at
      BY <3>1, GotoMoves DEF Place
    <3>3. /\ Len(stack[t]) \in Nat \ {0} /\ Len(stack[t]) \in 1 .. Len(stack[t])
          /\ Top(t) = stack[t][Len(stack[t])]
      BY <3>1, TopOfStack
    <3>4. /\ stack'[t] # <<>> /\ Top(t)' = stack'[t][Len(stack[t])]
          /\ Top(t)'.op = op /\ Top(t)'.at = "store"
      BY <3>1, <3>2, <3>3 DEF Top
    <3>5. t \in Asked => t \in Asked'
      BY <3>1, <3>4 DEF Asked, At
    <3>6. QED
      BY <1>1, <3>2, <3>5
  <2>3. CASE Store(t, op)
    <3>1. t \notin Asked /\ stack[t] # <<>> /\ Goto(t, "call")
      BY <2>3 DEF Asked, At, Store
    <3>2. QED
      BY <1>1, <3>1, GotoMoves DEF Place
  <2>4. CASE DlsymAllocates(t, op)
    <3>1. t \notin Asked
      BY <2>4 DEF Asked, At, DlsymAllocates
    <3>2. QED
      BY <1>1, <2>4, <3>1, DlsymCalls
  <2>5. QED
    BY <1>6, <2>1, <2>2, <2>3, <2>4 DEF LookupStep
<1>7. CASE UNCHANGED <<stack, resolved, resolving, offset, served, wrapped>>
  BY <1>7 DEF Asked, At, Top
<1>8. Asked \subseteq Asked'
  BY <1>2, <1>3, <1>4, <1>5, <1>6, <1>7, StepKinds
<1>9. offset' = offset /\ wrapped' = wrapped
  BY StepKinds DEF Enters, Leaves, ReallocBootstrap, StartCallocLookup, LookupStep,
       StartLookup, DlsymAllocates, Found, Store
<1>10. QED
  BY <1>8, <1>9

\* Each lookup of calloc makes one request at most, and the offset has room.
THEOREM EachLookupAsksOnce == Spec => []OncePerLookup
<1> USE BootstrapAssumption
<1>1. Init => OncePerLookup
  <2>1. Cardinality(Thread) \in Nat
    BY FS_CardinalityType
  <2>2. SUFFICES ASSUME Init PROVE OncePerLookup
    OBVIOUS
  <2>3. IsFiniteSet(Asked) /\ Cardinality(Asked) \in Nat
    BY FS_Subset, FS_CardinalityType DEF Asked
  <2>4. 0 <= DlSize * Cardinality(Thread) /\ 0 <= DlSize * Cardinality(Asked)
    BY <2>1, <2>3, SMTT(30)
  <2>5. QED
    BY <2>2, <2>4 DEF Init, OncePerLookup
<1>2. TypeOK /\ TypeOK' /\ Nested /\ OncePerLookup /\ [Next]_vars => OncePerLookup'
  <2> SUFFICES ASSUME TypeOK, TypeOK', Nested, OncePerLookup, [Next]_vars,
                      "calloc" \notin missing
               PROVE  OncePerLookup'
    BY DEF OncePerLookup, Next, vars
  <2>1. /\ Asked \subseteq Thread /\ Asked' \subseteq Thread
        /\ IsFiniteSet(Asked) /\ IsFiniteSet(Asked')
        /\ offset \in Nat /\ DlSize \in Nat /\ Word \in Nat
    BY FS_Subset DEF Asked, TypeOK
  <2>2. /\ Cardinality(Thread) \in Nat /\ Cardinality(Asked) \in Nat
        /\ Cardinality(Asked') \in Nat
        /\ Cardinality(Asked') <= Cardinality(Thread)
    BY <2>1, FS_Subset, FS_CardinalityType
  <2>3. /\ ~wrapped
        /\ offset <= DlSize * Cardinality(Thread)
        /\ "calloc" \notin resolved => offset <= DlSize * Cardinality(Asked)
    BY DEF OncePerLookup
  <2>4. ASSUME NEW t \in Thread, TakesFromBuffer(t) PROVE OncePerLookup'
    <3>1. ServeNested(t) /\ "calloc" \notin resolved
      BY <2>4 DEF TakesFromBuffer, NotFound, ServeNested
    <3>2. Asked \subseteq Asked' /\ t \in Asked' /\ t \notin Asked
      BY <3>1, ServedOnce DEF Asked, At, Top
    <3>3. Cardinality(Asked) + 1 <= Cardinality(Asked')
      BY <2>1, <3>2, MoreAsked
    <3>4. offset + DlSize <= DlSize * Cardinality(Asked')
      BY <2>1, <2>2, <2>3, <3>1, <3>3, OneMore
    <3>5. offset + DlSize <= DlSize * Cardinality(Thread)
      BY <2>1, <2>2, <3>4, NoLess
    <3>6. offset + DlSize < Word
      <4>1. DlSize * Cardinality(Thread) \in Nat
        BY <2>1, <2>2
      <4>2. QED
        BY <2>1, <3>5, <4>1
    <3>7. offset' = offset + DlSize /\ ~wrapped'
      <4>1. /\ stack[t] # <<>> /\ Top(t).arg = DlSize
            /\ BootstrapCalloc(t, DlSize)
        BY <2>4, <3>1, BufferServes, ServedOnce
      <4>2. /\ ~wrapped' <=> ~wrapped /\ offset + DlSize < Word
            /\ offset + DlSize < Word => offset' = offset + DlSize
        BY <2>1, <4>1, Serves
      <4>3. QED
        BY <2>3, <3>6, <4>2
    <3>8. QED
      BY <3>4, <3>5, <3>7 DEF OncePerLookup
  <2>5. ASSUME NEW t \in Thread, Store(t, "calloc") PROVE OncePerLookup'
    BY <2>3, <2>5 DEF Store, OncePerLookup
  <2>6. CASE \A t \in Thread : ~TakesFromBuffer(t) /\ ~Store(t, "calloc")
    <3>1. Asked \subseteq Asked' /\ offset' = offset /\ wrapped' = wrapped
      BY <2>6, AskedStays
    <3>2. "calloc" \in resolved => "calloc" \in resolved'
      BY StepKinds, <2>6 DEF Enters, Leaves, ReallocBootstrap, StartCallocLookup,
         LookupStep, StartLookup, DlsymAllocates, Found, Store
    <3>3. Cardinality(Asked) <= Cardinality(Asked')
      BY <2>1, <3>1, FS_Subset
    <3>4. "calloc" \notin resolved' => offset' <= DlSize * Cardinality(Asked')
      BY <2>1, <2>2, <2>3, <3>1, <3>2, <3>3, NoLess
    <3>5. QED
      BY <2>3, <3>1, <3>4 DEF OncePerLookup
  <2>7. QED
    BY <2>4, <2>5, <2>6
<1>3. QED
  BY <1>1, <1>2, TypeCorrect, CallsNest, PTL DEF Spec

\* If calloc can be found, the buffer serves dlsym at most once on each thread,
\* however the lookups interleave (RealAllocator.cpp:22-49).
THEOREM DlsymAsksOncePerThread == Spec => []OneRequestPerThread
<1>1. OncePerLookup => OneRequestPerThread
  BY DEF OncePerLookup, OneRequestPerThread
<1>2. QED
  BY <1>1, EachLookupAsksOnce, PTL

-----------------------------------------------------------------------------
(* The buffer                                                              *)

\* Only serving a request changes the buffer.
LEMMA BufferStays ==
  ASSUME TypeOK, [Next]_vars, \A t \in Thread : ~TakesFromBuffer(t)
  PROVE  UNCHANGED <<offset, served, wrapped>>
<1>1. ASSUME NEW t \in Thread,
             Enters(t) \/ Leaves(t) \/ ReallocBootstrap(t) \/ StartCallocLookup(t)
      PROVE  UNCHANGED <<offset, served, wrapped>>
  BY <1>1 DEF Enters, Leaves, ReallocBootstrap, StartCallocLookup
<1>2. ASSUME NEW t \in Thread, NEW op \in Op, LookupStep(t, op)
      PROVE  UNCHANGED <<offset, served, wrapped>>
  BY <1>2 DEF LookupStep, StartLookup, DlsymAllocates, Found, Store
<1>3. QED
  BY <1>1, <1>2, StepKinds

\* Until a size_t goes round, every served block ends before the offset.
ServedBeforeOffset ==
  ~wrapped => \A b \in served : b[1] + b[2] <= offset /\ b[1] + b[2] <= BufferSize

\* Until a size_t goes round, served blocks do not overlap.
ServedApart ==
  ~wrapped => \A b, c \in served :
                b # c => b[1] + b[2] <= c[1] \/ c[1] + c[2] <= b[1]

\* What the buffer serves lies inside it and does not overlap until a size_t goes
\* round, which the requests of dlsym cannot bring about
\* (RealAllocator.cpp:38-49).
THEOREM BlocksDoNotOverlap == Spec => []ServedBlocksAreDisjoint
<1> DEFINE IInv == ServedBeforeOffset /\ ServedApart
<1>1. Init => IInv
  BY DEF Init, ServedBeforeOffset, ServedApart
<1>2. TypeOK /\ IInv /\ [Next]_vars => IInv'
  <2> SUFFICES ASSUME TypeOK, IInv, [Next]_vars PROVE IInv'
    OBVIOUS
  <2>1. /\ offset \in Nat /\ served \subseteq Nat \X Nat
        /\ BufferSize \in Nat /\ Word \in Nat
    BY BootstrapAssumption DEF TypeOK
  <2>2. CASE UNCHANGED <<offset, served, wrapped>>
    BY <2>2 DEF ServedBeforeOffset, ServedApart
  <2>3. ASSUME NEW t \in Thread, TakesFromBuffer(t) PROVE IInv'
    <3> SUFFICES ASSUME ~wrapped' PROVE IInv'
      BY DEF ServedBeforeOffset, ServedApart
    <3>1. PICK asked \in Nat :
            /\ offset + asked < Word => offset' = offset + asked
            /\ ~wrapped' <=> ~wrapped /\ offset + asked < Word
            /\ \/ served' = served
               \/ offset' <= BufferSize /\ served' = served \cup {<<offset, asked>>}
      BY <2>3, BufferServes, Serves
    <3>2. ~wrapped /\ offset' = offset + asked
      BY <2>1, <3>1
    <3>3. \A b \in served : /\ b[1] \in Nat /\ b[2] \in Nat
                            /\ b[1] + b[2] <= offset
                            /\ b[1] + b[2] <= BufferSize
      BY <2>1, <3>2 DEF ServedBeforeOffset
    <3>4. \A b \in served' : b \in served \/ (/\ b = <<offset, asked>>
                                              /\ b[1] = offset /\ b[2] = asked
                                              /\ offset + asked <= BufferSize)
      BY <3>1, <3>2
    <3>5. ServedBeforeOffset'
      <4>1. SUFFICES ASSUME NEW b \in served'
                     PROVE  b[1] + b[2] <= offset' /\ b[1] + b[2] <= BufferSize
        BY DEF ServedBeforeOffset
      <4>2. QED
        BY <2>1, <3>2, <3>3, <3>4
    <3>6. ServedApart'
      <4>1. SUFFICES ASSUME NEW b \in served', NEW c \in served', b # c
                     PROVE  b[1] + b[2] <= c[1] \/ c[1] + c[2] <= b[1]
        BY DEF ServedApart
      <4>2. CASE b \in served /\ c \in served
        BY <3>2, <4>1, <4>2 DEF ServedApart
      <4>3. CASE b \in served /\ c = <<offset, asked>>
        BY <3>3, <4>3
      <4>4. CASE c \in served /\ b = <<offset, asked>>
        BY <3>3, <4>4
      <4>5. QED
        BY <3>4, <4>1, <4>2, <4>3, <4>4
    <3>7. QED
      BY <3>5, <3>6
  <2>4. QED
    BY <2>2, <2>3, BufferStays
<1>3. IInv /\ OncePerLookup => ServedBlocksAreDisjoint
  BY DEF ServedBeforeOffset, ServedApart, OncePerLookup, ServedBlocksAreDisjoint
<1>4. QED
  BY <1>1, <1>2, <1>3, TypeCorrect, EachLookupAsksOnce, PTL DEF Spec

-----------------------------------------------------------------------------
(* Blocks of the buffer stay out of the C library                          *)

\* A call of free or realloc past its early returns has no block of the buffer.
Checked(s) ==
  \A i \in 1 .. Len(s) : s[i].op \in {"free", "realloc"} /\ s[i].at # "load" =>
    ~IsInternalBootstrapPointer(s[i].arg)

AllChecked == \A t \in Thread : Checked(stack[t])

\* Whichever thread got a block of the buffer and whichever gives it back, free
\* and realloc stop at their early returns.
THEOREM BufferStaysOutOfTheHeap == Spec => []AllChecked
<1>1. Init => AllChecked
  BY DEF Init, AllChecked, Checked
<1>2. TypeOK /\ TypeOK' /\ Nested /\ AllChecked /\ [Next]_vars
        => AllChecked'
  <2> SUFFICES ASSUME TypeOK, TypeOK', Nested, AllChecked, [Next]_vars
               PROVE  AllChecked'
    OBVIOUS
  <2>1. \A t \in Thread : /\ stack[t] \in Seq(Frames) /\ stack'[t] \in Seq(Frames)
                          /\ Shape(stack[t]) /\ Checked(stack[t])
    BY DEF TypeOK, Frames, Place, Nested, AllChecked
  <2>2. ASSUME NEW t \in Thread, \A u \in Thread \ {t} : stack'[u] = stack[u],
               Checked(stack'[t])
        PROVE  AllChecked'
    <3>1. \A u \in Thread : Checked(stack'[u])
      BY <2>1, <2>2
    <3>2. QED
      BY <3>1 DEF AllChecked
  <2>3. ASSUME NEW t \in Thread, NEW place \in Place, Goto(t, place), stack[t] # <<>>,
               Top(t).op \in {"free", "realloc"} /\ Top(t).at = "load" =>
                 ~IsInternalBootstrapPointer(Top(t).arg)
        PROVE  AllChecked'
    <3>1. PICK s \in Seq(Frames), r \in Seq(Frames) : s = stack[t] /\ r = stack'[t]
      BY <2>1
    <3>2. /\ \A u \in Thread \ {t} : stack'[u] = stack[u]
          /\ Len(r) = Len(s)
          /\ \A i \in 1 .. Len(s) : /\ r[i].op = s[i].op
                                    /\ r[i].arg = s[i].arg
                                    /\ r[i].at = IF i = Len(s) THEN place ELSE s[i].at
      BY <2>3, <3>1, GotoMoves
    <3>3. Top(t) = s[Len(s)] /\ Checked(s)
      BY <2>1, <3>1 DEF Top
    <3>4. Checked(r)
      BY <2>3, <3>2, <3>3 DEF Checked
    <3>5. QED
      BY <2>2, <3>1, <3>2, <3>4
  <2>4. ASSUME NEW t \in Thread, stack[t] # <<>>,
               stack' = [stack EXCEPT ![t] = Pop(@)]
        PROVE  AllChecked'
    <3>1. PICK s \in Seq(Frames), r \in Seq(Frames) : s = stack[t] /\ r = stack'[t]
      BY <2>1
    <3>2. /\ \A u \in Thread \ {t} : stack'[u] = stack[u]
          /\ Len(r) = Len(s) - 1
          /\ \A i \in 1 .. Len(s) - 1 : r[i] = s[i]
      BY <2>4, <3>1, PoppedStacks
    <3>3. \A i \in 1 .. Len(r) : i \in 1 .. Len(s) /\ r[i] = s[i]
      BY <3>2
    <3>4. Checked(r)
      BY <2>1, <3>1, <3>3 DEF Checked
    <3>5. QED
      BY <2>2, <3>1, <3>2, <3>4
  <2>5. ASSUME NEW f \in Frames, f.at = "load"
        PROVE  Checked(<<f>>)
    BY <2>5 DEF Checked
  <2>6. CASE UNCHANGED <<stack, resolved, resolving, offset, served, wrapped>>
    BY <2>6 DEF AllChecked
  <2>7. ASSUME NEW t \in Thread, Enters(t) PROVE AllChecked'
    BY <2>2, <2>5, <2>7, EnteredStack
  <2>8. ASSUME NEW t \in Thread, Leaves(t) PROVE AllChecked'
    BY <2>4, <2>8 DEF Leaves
  <2>9. ASSUME NEW t \in Thread, TakesFromBuffer(t) PROVE AllChecked'
    BY <2>4, <2>9, BufferServes, Serves
  <2>10. ASSUME NEW t \in Thread, ReallocBootstrap(t) PROVE AllChecked'
    <3>1. /\ \A u \in Thread \ {t} : stack'[u] = stack[u]
          /\ \E f \in Frames : f.at = "load" /\ stack'[t] = <<f>>
      BY <2>1, <2>10, ReplacedCall
    <3>2. Checked(stack'[t])
      BY <2>5, <3>1
    <3>3. QED
      BY <2>2, <3>1, <3>2
  <2>11. ASSUME NEW t \in Thread, StartCallocLookup(t) PROVE AllChecked'
    BY <2>3, <2>11 DEF StartCallocLookup, At, Place
  <2>12. ASSUME NEW t \in Thread, NEW op \in Op, LookupStep(t, op)
         PROVE  AllChecked'
    <3>1. CASE StartLookup(t, op)
      BY <2>3, <3>1 DEF StartLookup, NeedsReal, At, Place
    <3>2. CASE Found(t, op)
      BY <2>3, <3>2 DEF Found, InDlsym, At, Place
    <3>3. CASE Store(t, op)
      BY <2>3, <3>3 DEF Store, At, Place
    <3>4. CASE DlsymAllocates(t, op)
      <4>1. PICK s \in Seq(Frames), r \in Seq(Frames) : s = stack[t] /\ r = stack'[t]
        BY <2>1
      <4>2. /\ s # <<>> /\ s[Len(s)].at = "dlsym" /\ Checked(s)
            /\ Len(s) \in 1 .. Len(s) /\ Len(r) \in Nat
        BY <2>1, <3>4, <4>1 DEF DlsymAllocates, At, Top
      <4>3. /\ \A u \in Thread \ {t} : stack'[u] = stack[u]
            /\ Len(r) = Len(s) + 1
            /\ \A i \in 1 .. Len(s) :
                 /\ r[i].op = s[i].op
                 /\ r[i].arg = s[i].arg
                 /\ r[i].at = IF i = Len(s) THEN "dlsym_again" ELSE s[i].at
            /\ r[Len(s) + 1] = Frame("calloc", DlSize)
        BY <3>4, <4>1, DlsymCalls
      <4>4. \A i \in 1 .. Len(r) : i \in 1 .. Len(s) \/ r[i].op = "calloc"
        BY <4>2, <4>3 DEF Frame
      <4>5. \A i \in 1 .. Len(s) : r[i].at # "load" => s[i].at # "load"
        BY <4>2, <4>3
      <4>6. Checked(r)
        BY <4>2, <4>3, <4>4, <4>5 DEF Checked
      <4>7. QED
        BY <2>2, <4>1, <4>3, <4>6
    <3>5. QED
      BY <2>12, <3>1, <3>2, <3>3, <3>4 DEF LookupStep
  <2>13. QED
    BY <2>6, <2>7, <2>8, <2>9, <2>10, <2>11, <2>12, StepKinds
<1>3. QED
  BY <1>1, <1>2, TypeCorrect, CallsNest, PTL DEF Spec

-----------------------------------------------------------------------------
(* Who holds the blocks of the C library                                   *)

\* The block that a call of free or realloc is about.
Given(s) == IF s # <<>> /\ s[1].op \in {"free", "realloc"} THEN s[1].arg ELSE Null

\* malloc called by realloc keeps the block of the buffer, otherwise none.
KeepsSpare(s) ==
  s # <<>> /\ s[1].op = "malloc" =>
    s[1].arg = Null \/ IsInternalBootstrapPointer(s[1].arg)

\* What a holder of p may expect.
IsSound(p) == p \in heap \cup {Null} \/ IsInternalBootstrapPointer(p) \/ IsLoose(p)

\* p is held by the program, or by thread t for dlsym or for a call.
Holds(t, p) == p \in held \/ dlBuffer[t] = p \/ Given(stack[t]) = p

\* At most one of them holds it.
HoldsOnce(t, p) ==
  /\ ~(p \in held /\ dlBuffer[t] = p)
  /\ ~(p \in held /\ Given(stack[t]) = p)
  /\ ~(dlBuffer[t] = p /\ Given(stack[t]) = p)

\* Whatever anyone holds is sound, and a block of the C library has one holder.
Owned ==
  /\ heap \subseteq HeapAddress
  /\ \A t \in Thread : KeepsSpare(stack[t])
  /\ \A t \in Thread, p \in Nat : Holds(t, p) => IsSound(p)
  /\ \A t \in Thread, p \in heap : HoldsOnce(t, p)
  /\ \A t, u \in Thread, p \in heap :
       t # u /\ Holds(t, p) /\ Holds(u, p) => p \in held

\* A block that the C library has not handed out has no holder.
LEMMA NotHandedOut ==
  ASSUME TypeOK, Owned, NEW a \in HeapAddress, a \notin heap, NEW t \in Thread
  PROVE  a \in Nat /\ a # Null /\ ~Holds(t, a)
<1>1. /\ a \in Nat /\ a > Word /\ Word \in Nat /\ BufferSize \in Nat
      /\ BufferSize < Word
  BY BootstrapAssumption
<1>2. ~IsInternalBootstrapPointer(a) /\ ~IsLoose(a) /\ a # Null
  BY <1>1 DEF IsInternalBootstrapPointer, IsLoose, Null
<1>3. ~IsSound(a)
  BY <1>2 DEF IsSound
<1>4. QED
  BY <1>1, <1>2, <1>3 DEF Owned

\* A step of one thread in which holdings change hands only between the program
\* and that thread, or are newly handed out, keeps them apart.
LEMMA OwnersMove ==
  ASSUME TypeOK, TypeOK', Owned, NEW t \in Thread,
         \A u \in Thread \ {t} : dlBuffer'[u] = dlBuffer[u] /\ stack'[u] = stack[u],
         heap' \subseteq HeapAddress,
         \A p \in heap \ heap' : Holds(t, p) /\ p \notin held,
         \A p \in Nat : IsLoose(p) => IsLoose(p)',
         \A p \in Nat : Holds(t, p)' => IsSound(p)',
         \A p \in heap' : HoldsOnce(t, p)' /\ (p \in heap /\ Holds(t, p)' => Holds(t, p)),
         KeepsSpare(stack'[t])
  PROVE  Owned'
<1>1. \A p \in heap : p \in Nat
  BY DEF TypeOK
<1>2. \A u \in Thread : Given(stack'[u]) = Given(stack[u]) \/ u = t
  OBVIOUS
<1>3. \A u \in Thread \ {t} : /\ Given(stack'[u]) = Given(stack[u])
                              /\ dlBuffer'[u] = dlBuffer[u]
  OBVIOUS
<1>4. \A u \in Thread \ {t}, p \in heap' :
        dlBuffer[u] = p \/ Given(stack[u]) = p => p \in heap /\ ~Holds(t, p)'
  <2>1. SUFFICES ASSUME NEW u \in Thread \ {t}, NEW p \in heap',
                        dlBuffer[u] = p \/ Given(stack[u]) = p
                 PROVE  p \in heap /\ ~Holds(t, p)'
    OBVIOUS
  <2>2. p \in heap
    BY <2>1, NotHandedOut DEF Holds
  <2>3. ~Holds(t, p)
    BY <2>1, <2>2 DEF Owned, Holds, HoldsOnce
  <2>4. QED
    BY <2>2, <2>3
<1>5. \A u \in Thread : KeepsSpare(stack'[u])
  BY DEF Owned
<1>6. \A u \in Thread, p \in Nat : Holds(u, p)' => IsSound(p)'
  <2>1. SUFFICES ASSUME NEW u \in Thread \ {t}, NEW p \in Nat, Holds(u, p)'
                 PROVE  IsSound(p)'
    OBVIOUS
  <2>2. CASE p \in held'
    BY <2>2 DEF Holds
  <2>3. CASE dlBuffer[u] = p \/ Given(stack[u]) = p
    <3>1. IsSound(p)
      BY <2>3 DEF Owned, Holds
    <3>2. p \in heap => p \in heap'
      BY <2>3 DEF Owned, Holds, HoldsOnce
    <3>3. QED
      BY <3>1, <3>2 DEF IsSound, IsInternalBootstrapPointer
  <2>4. QED
    BY <1>3, <2>1, <2>2, <2>3 DEF Holds
<1>7. \A u \in Thread, p \in heap' : HoldsOnce(u, p)'
  <2>1. SUFFICES ASSUME NEW u \in Thread \ {t}, NEW p \in heap'
                 PROVE  HoldsOnce(u, p)'
    OBVIOUS
  <2>2. CASE dlBuffer[u] = p \/ Given(stack[u]) = p
    <3>1. p \in heap /\ p \notin held'
      BY <1>4, <2>2 DEF Holds
    <3>2. HoldsOnce(u, p)
      BY <3>1 DEF Owned
    <3>3. QED
      BY <1>3, <3>1, <3>2 DEF HoldsOnce
  <2>3. CASE dlBuffer[u] # p /\ Given(stack[u]) # p
    BY <1>3, <2>3 DEF HoldsOnce
  <2>4. QED
    BY <2>2, <2>3
<1>8. \A u, v \in Thread, p \in heap' :
        u # v /\ Holds(u, p)' /\ Holds(v, p)' => p \in held'
  <2>1. SUFFICES ASSUME NEW u \in Thread, NEW v \in Thread, NEW p \in heap', u # v,
                        Holds(u, p)', Holds(v, p)', p \notin held'
                 PROVE  FALSE
    OBVIOUS
  <2>2. /\ dlBuffer'[u] = p \/ Given(stack'[u]) = p
        /\ dlBuffer'[v] = p \/ Given(stack'[v]) = p
    BY <2>1 DEF Holds
  <2>3. CASE u # t /\ v # t
    <3>1. /\ dlBuffer[u] = p \/ Given(stack[u]) = p
          /\ dlBuffer[v] = p \/ Given(stack[v]) = p
          /\ p \in heap
      BY <1>3, <1>4, <2>2, <2>3
    <3>2. p \in held
      BY <2>1, <3>1 DEF Owned, Holds
    <3>3. QED
      BY <3>1, <3>2 DEF Owned, HoldsOnce
  <2>4. CASE u = t \/ v = t
    BY <1>3, <1>4, <2>1, <2>2, <2>4
  <2>5. QED
    BY <2>3, <2>4
<1>9. QED
  BY <1>5, <1>6, <1>7, <1>8 DEF Owned

\* What is not a block of the C library is not one of its addresses.
LEMMA NotOfTheHeap ==
  ASSUME NEW p, p = Null \/ IsInternalBootstrapPointer(p) \/ IsLoose(p)
  PROVE  p \notin HeapAddress
<1>1. SUFFICES ASSUME p \in HeapAddress PROVE FALSE
  OBVIOUS
<1>2. /\ p \in Nat /\ p > Word /\ Word \in Nat /\ BufferSize \in Nat
      /\ BufferSize < Word
  BY <1>1, BootstrapAssumption
<1>3. QED
  BY <1>2 DEF IsInternalBootstrapPointer, IsLoose, Null

\* A stack whose first call stays is about the same block.
LEMMA FirstCallStays ==
  ASSUME NEW s \in Seq(Frames), s # <<>>, NEW r \in Seq(Frames), r # <<>>,
         r[1].op = s[1].op, r[1].arg = s[1].arg
  PROVE  Given(r) = Given(s) /\ (KeepsSpare(s) => KeepsSpare(r))
BY DEF Given, KeepsSpare

\* Only calloc returns to another call.
LEMMA LastCallReturns ==
  ASSUME TypeOK, Nested, NEW t \in Thread, stack[t] # <<>>,
         stack' = [stack EXCEPT ![t] = Pop(@)]
  PROVE  /\ \A u \in Thread \ {t} : stack'[u] = stack[u]
         /\ Top(t).op # "calloc" =>
              Len(stack[t]) = 1 /\ stack'[t] = <<>> /\ stack[t][1] = Top(t)
         /\ Top(t).op = "calloc" =>
              /\ Given(stack'[t]) = Given(stack[t])
              /\ KeepsSpare(stack[t]) => KeepsSpare(stack'[t])
<1>1. PICK s \in Seq(Frames), r \in Seq(Frames) : s = stack[t] /\ r = stack'[t]
  BY PoppedStacks DEF TypeOK, Frames, Place
<1>2. /\ \A u \in Thread \ {t} : stack'[u] = stack[u]
      /\ Len(r) = Len(s) - 1
      /\ \A i \in 1 .. Len(s) - 1 : r[i] = s[i]
  BY <1>1, PoppedStacks
<1>3. /\ s # <<>> /\ Len(s) \in Nat \ {0} /\ Top(t) = s[Len(s)] /\ Shape(s)
      /\ Len(s) \in 1 .. Len(s)
  BY <1>1, TopOfStack DEF Nested
<1>4. CASE Len(s) = 1
  <2>1. r = <<>> /\ s[1] = Top(t)
    BY <1>2, <1>3, <1>4
  <2>2. Top(t).op = "calloc" => Given(r) = Null /\ Given(s) = Null
    BY <2>1 DEF Given
  <2>3. KeepsSpare(r)
    BY <2>1 DEF KeepsSpare
  <2>4. QED
    BY <1>1, <1>2, <1>4, <2>1, <2>2, <2>3
<1>5. CASE Len(s) # 1
  <2>1. Len(s) > 1 /\ Top(t).op = "calloc"
    <3>1. Len(s) > 1
      <4>1. \A n \in Nat \ {0} : n # 1 => n > 1
        OBVIOUS
      <4>2. QED
        BY <1>3, <1>5, <4>1
    <3>2. QED
      BY <1>3, <3>1, Zenon DEF Shape
  <2>2. r # <<>> /\ r[1] = s[1]
    BY <1>2, <2>1, <1>3
  <2>3. QED
    BY <1>1, <1>2, <1>3, <2>1, <2>2, FirstCallStays
<1>6. QED
  BY <1>4, <1>5

\* What was loose stays so.
LEMMA LooseStays ==
  ASSUME missing' = missing, served \subseteq served', wrapped => wrapped'
  PROVE  \A p \in Nat : IsLoose(p) => IsLoose(p)'
BY DEF IsLoose

\* malloc or calloc returns.
LEMMA ReturnOwns ==
  ASSUME TypeOK, TypeOK', Nested, Owned, missing' = missing,
         served \subseteq served', wrapped => wrapped',
         NEW t \in Thread, stack[t] # <<>>, Top(t).op \in {"malloc", "calloc"},
         NEW q \in Nat, Return(t, q),
         \/ q \in HeapAddress \ heap /\ heap' = heap \cup {q}
         \/ heap' = heap /\ q \notin HeapAddress /\ IsSound(q)'
  PROVE  Owned'
<1>1. stack' = [stack EXCEPT ![t] = Pop(@)]
  BY DEF Return
<1>2. /\ \A u \in Thread \ {t} : stack'[u] = stack[u]
      /\ Given(stack'[t]) = Given(stack[t]) \/ Given(stack'[t]) = Null
      /\ KeepsSpare(stack'[t])
      /\ Given(stack'[t]) = Given(stack[t])
  <2>1. CASE Top(t).op = "calloc"
    BY <1>1, <2>1, LastCallReturns DEF Owned
  <2>2. CASE Top(t).op = "malloc"
    <3>1. stack'[t] = <<>> /\ stack[t][1].op = "malloc"
      BY <1>1, <2>2, LastCallReturns
    <3>2. Given(stack'[t]) = Null /\ Given(stack[t]) = Null
      BY <3>1 DEF Given
    <3>3. QED
      BY <1>1, <3>1, <3>2, LastCallReturns DEF KeepsSpare
  <2>3. QED
    BY <2>1, <2>2
<1>3. \/ held' = held \cup ({q} \ {Null}) /\ dlBuffer' = dlBuffer
      \/ dlBuffer' = [dlBuffer EXCEPT ![t] = q] /\ held' = held
  BY DEF Return
<1>4. \A u \in Thread \ {t} : dlBuffer'[u] = dlBuffer[u]
  BY <1>3 DEF TypeOK
<1>5. /\ dlBuffer'[t] = q \/ dlBuffer'[t] = dlBuffer[t]
      /\ held \subseteq held' /\ held' \subseteq held \cup {q}
      /\ q \in held' /\ q \notin held => dlBuffer'[t] = dlBuffer[t]
      /\ dlBuffer'[t] = q /\ dlBuffer[t] # q => held' = held
  BY <1>3 DEF TypeOK
<1>6. heap \subseteq heap' /\ heap' \subseteq HeapAddress
  BY DEF Owned
<1>7. q \in heap' => q \notin heap /\ ~Holds(t, q)
  BY <1>6, NotHandedOut
<1>8. IsSound(q)'
  BY DEF IsSound
<1>9. \A p \in Nat : IsLoose(p) => IsLoose(p)'
  BY LooseStays
<1>10. \A p \in Nat : Holds(t, p)' => Holds(t, p) \/ p = q
  BY <1>2, <1>5 DEF Holds
<1>11. \A p \in Nat : Holds(t, p)' => IsSound(p)'
  BY <1>6, <1>8, <1>9, <1>10 DEF Owned, IsSound, IsInternalBootstrapPointer
<1>12. \A p \in heap' : p \in Nat /\ (p # q => p \in heap)
  BY DEF TypeOK
<1>13. \A p \in heap' : p \in heap /\ Holds(t, p)' => Holds(t, p)
  BY <1>7, <1>10, <1>12
<1>14. \A p \in heap' : HoldsOnce(t, p)'
  <2>1. SUFFICES ASSUME NEW p \in heap' PROVE HoldsOnce(t, p)'
    OBVIOUS
  <2>2. CASE p = q
    BY <1>2, <1>5, <1>7, <2>2 DEF Holds, HoldsOnce
  <2>3. CASE p # q
    <3>1. HoldsOnce(t, p)
      BY <1>12, <2>3 DEF Owned
    <3>2. QED
      BY <1>2, <1>5, <2>3, <3>1 DEF HoldsOnce
  <2>4. QED
    BY <2>2, <2>3
<1>15. QED
  BY <1>2, <1>4, <1>6, <1>9, <1>11, <1>13, <1>14, OwnersMove

\* free or realloc returns.
LEMMA CallEnds ==
  ASSUME TypeOK, TypeOK', Nested, Owned,
         UNCHANGED <<missing, served, wrapped, dlBuffer>>,
         NEW t \in Thread, stack[t] # <<>>, Top(t).op \in {"free", "realloc"},
         stack' = [stack EXCEPT ![t] = Pop(@)],
         \/ heap' = heap /\ held' = held
         \/ heap' = heap /\ held' = held \cup ({Top(t).arg} \ {Null})
         \/ heap' = heap \ {Top(t).arg} /\ held' = held
         \/ \E a \in (HeapAddress \ heap) \cup (heap \cap {Top(t).arg}) :
              heap' = (heap \ {Top(t).arg}) \cup {a} /\ held' = held \cup {a}
  PROVE  Owned'
<1>1. /\ \A u \in Thread \ {t} : stack'[u] = stack[u]
      /\ stack'[t] = <<>> /\ Given(stack[t]) = Top(t).arg
  BY LastCallReturns DEF Given
<1>2. Given(stack'[t]) = Null /\ KeepsSpare(stack'[t])
  BY <1>1 DEF Given, KeepsSpare
<1>3. PICK g \in Nat : g = Top(t).arg
  BY TopOfStack DEF Frames
<1>4. /\ Holds(t, g) /\ IsSound(g)
      /\ g \in heap => g \notin held /\ dlBuffer[t] # g
  BY <1>1, <1>3 DEF Holds, Owned, HoldsOnce
<1>5. PICK b : /\ b = Null \/ b = g \/ b \in HeapAddress \ heap
               /\ held' = held \cup ({b} \ {Null})
               /\ \/ heap' = heap /\ b \in {Null, g}
                  \/ heap' = heap \ {g} /\ b = Null
                  \/ heap' = heap \cup {b} /\ b = g /\ g \in heap
                  \/ heap' = (heap \ {g}) \cup {b} /\ b \in HeapAddress \ heap
  <2>1. CASE heap' = heap /\ held' = held
    BY <2>1 DEF Null
  <2>2. CASE heap' = heap /\ held' = held \cup ({Top(t).arg} \ {Null})
    BY <1>3, <2>2
  <2>3. CASE heap' = heap \ {Top(t).arg} /\ held' = held
    BY <1>3, <2>3
  <2>4. ASSUME NEW a \in (HeapAddress \ heap) \cup (heap \cap {Top(t).arg}),
               heap' = (heap \ {Top(t).arg}) \cup {a}, held' = held \cup {a}
        PROVE  /\ a = Null \/ a = g \/ a \in HeapAddress \ heap
               /\ held' = held \cup ({a} \ {Null})
               /\ \/ heap' = heap \cup {a} /\ a = g /\ g \in heap
                  \/ heap' = (heap \ {g}) \cup {a} /\ a \in HeapAddress \ heap
    <3>1. a # Null
      BY <2>4, NotOfTheHeap DEF Owned
    <3>2. QED
      BY <1>3, <2>4, <3>1
  <2>5. QED
    BY <2>1, <2>2, <2>3, <2>4
<1>6. b \in HeapAddress \ heap => b \in Nat /\ b # Null /\ ~Holds(t, b)
  BY NotHandedOut
<1>7. heap' \subseteq HeapAddress
  BY <1>5 DEF Owned
<1>8. \A p \in heap \ heap' : Holds(t, p) /\ p \notin held
  BY <1>4, <1>5
<1>9. \A p \in Nat : IsLoose(p) => IsLoose(p)'
  BY LooseStays
<1>10. /\ \A p \in Nat : Holds(t, p)' => p = Null \/ p = b \/ Holds(t, p)
       /\ g \in heap /\ Holds(t, g)' => g = Null \/ g \in heap'
  BY <1>2, <1>4, <1>5 DEF Holds
<1>11. \A p \in Nat : Holds(t, p)' => IsSound(p)'
  <2>1. SUFFICES ASSUME NEW p \in Nat, Holds(t, p)' PROVE IsSound(p)'
    OBVIOUS
  <2>2. CASE p = Null \/ p \in heap'
    BY <2>2 DEF IsSound
  <2>3. CASE p # Null /\ p \notin heap'
    <3>1. p \notin heap /\ (p = g \/ Holds(t, p))
      BY <1>4, <1>5, <1>6, <1>10, <2>1, <2>3
    <3>2. IsSound(p)
      BY <1>4, <3>1 DEF Owned
    <3>3. QED
      BY <1>9, <3>1, <3>2 DEF IsSound, IsInternalBootstrapPointer
  <2>4. QED
    BY <2>2, <2>3
<1>12. \A p \in heap' : p \in Nat /\ p # Null
  BY <1>7, NotOfTheHeap DEF TypeOK
<1>13. \A p \in heap' : p \in heap /\ Holds(t, p)' => Holds(t, p)
  BY <1>2, <1>4, <1>5, <1>6, <1>12 DEF Holds
<1>14. \A p \in heap' : HoldsOnce(t, p)'
  <2>1. SUFFICES ASSUME NEW p \in heap', p \in held', dlBuffer[t] = p PROVE FALSE
    BY <1>2, <1>12 DEF HoldsOnce
  <2>2. p \in held \/ p = b
    BY <1>5, <2>1
  <2>3. CASE p \in heap
    BY <1>4, <1>5, <1>6, <1>12, <2>1, <2>2, <2>3 DEF Owned, HoldsOnce
  <2>4. CASE p \notin heap
    BY <1>5, <1>6, <1>12, <2>1, <2>2, <2>4 DEF Holds
  <2>5. QED
    BY <2>3, <2>4
<1>15. QED
  BY <1>1, <1>2, <1>7, <1>8, <1>9, <1>11, <1>13, <1>14, OwnersMove

\* A thread goes on in the call it is in, or calls from dlsym.
LEMMA SameCallOwns ==
  ASSUME TypeOK, TypeOK', Owned,
         UNCHANGED <<missing, served, wrapped, heap, held, dlBuffer>>,
         NEW t \in Thread, stack[t] # <<>>, stack'[t] # <<>>,
         \A u \in Thread \ {t} : stack'[u] = stack[u],
         stack'[t][1].op = stack[t][1].op, stack'[t][1].arg = stack[t][1].arg
  PROVE  Owned'
<1>1. stack[t] \in Seq(Frames) /\ stack'[t] \in Seq(Frames)
  BY DEF TypeOK, Frames, Place
<1>2. Given(stack'[t]) = Given(stack[t]) /\ KeepsSpare(stack'[t])
  BY <1>1, FirstCallStays DEF Owned
<1>3. \A p : Holds(t, p)' <=> Holds(t, p)
  BY <1>2 DEF Holds
<1>4. \A p \in Nat : IsLoose(p) => IsLoose(p)'
  BY LooseStays
<1>5. \A p \in Nat : Holds(t, p)' => IsSound(p)'
  BY <1>3, <1>4 DEF Owned, IsSound, IsInternalBootstrapPointer
<1>6. \A p \in heap' : HoldsOnce(t, p)' /\ (p \in heap /\ Holds(t, p)' => Holds(t, p))
  BY <1>2, <1>3 DEF Owned, HoldsOnce
<1>7. heap' \subseteq HeapAddress /\ heap \ heap' = {}
  BY DEF Owned
<1>8. QED
  BY <1>2, <1>4, <1>5, <1>6, <1>7, OwnersMove

\* A thread enters a call, with a block that the program or dlsym held.
LEMMA FirstCallOwns ==
  ASSUME TypeOK, TypeOK', Owned,
         UNCHANGED <<missing, served, wrapped, heap>>,
         NEW t \in Thread, stack[t] = <<>>, NEW f \in Frames, f.at = "load",
         stack' = [stack EXCEPT ![t] = <<f>>],
         \A u \in Thread \ {t} : dlBuffer'[u] = dlBuffer[u],
         f.op = "malloc" => f.arg = Null,
         \/ f.op \in {"free", "realloc"} /\ f.arg \in held
              /\ held' = held \ {f.arg} /\ dlBuffer' = dlBuffer
         \/ f.op \in {"free", "realloc"} /\ f.arg = dlBuffer[t]
              /\ held' = held /\ dlBuffer'[t] = Null
         \/ f.op \in {"free", "realloc"} /\ f.arg = Null
              /\ held' \subseteq held /\ dlBuffer' = dlBuffer
         \/ f.op \notin {"free", "realloc"} /\ held' = held /\ dlBuffer' = dlBuffer
  PROVE  Owned'
<1>1. /\ stack'[t] = <<f>> /\ f.arg \in Nat
      /\ \A u \in Thread \ {t} : stack'[u] = stack[u]
  BY DEF TypeOK, Frames
<1>2. /\ Given(stack'[t]) = IF f.op \in {"free", "realloc"} THEN f.arg ELSE Null
      /\ KeepsSpare(stack'[t]) /\ Given(stack[t]) = Null
  <2>1. <<f>> # <<>> /\ <<f>>[1] = f
    OBVIOUS
  <2>2. Given(<<f>>) = IF f.op \in {"free", "realloc"} THEN f.arg ELSE Null
    BY <2>1 DEF Given
  <2>3. KeepsSpare(<<f>>)
    BY <2>1 DEF KeepsSpare
  <2>4. Given(stack[t]) = Null
    BY DEF Given
  <2>5. QED
    BY <1>1, <2>2, <2>3, <2>4
<1>3. \A p \in Nat : Holds(t, p)' => p = Null \/ Holds(t, p)
  BY <1>2 DEF Holds
<1>4. \A p \in Nat : IsLoose(p) => IsLoose(p)'
  BY LooseStays
<1>5. \A p \in Nat : Holds(t, p)' => IsSound(p)'
  BY <1>3, <1>4 DEF Owned, IsSound, IsInternalBootstrapPointer
<1>6. \A p \in heap : p \in Nat /\ p # Null
  BY NotOfTheHeap DEF Owned, TypeOK
<1>7. \A p \in heap' : HoldsOnce(t, p)'
  <2>1. SUFFICES ASSUME NEW p \in heap, p # Null, HoldsOnce(t, p)
                 PROVE  HoldsOnce(t, p)'
    BY <1>6 DEF Owned
  <2>2. QED
    BY <1>2, <2>1 DEF HoldsOnce
<1>8. heap' \subseteq HeapAddress /\ heap \ heap' = {}
  BY DEF Owned
<1>9. QED
  BY <1>1, <1>2, <1>3, <1>4, <1>5, <1>6, <1>7, <1>8, OwnersMove

\* The buffer serves a request: what it returns is inside, unless calloc cannot be
\* found.
LEMMA ServedIsSound ==
  ASSUME TypeOK, Nested, OncePerLookup', missing' = missing,
         NEW t \in Thread, TakesFromBuffer(t)
  PROVE  \E q \in Nat : Return(t, q) /\ IsSound(q)' /\ q \notin HeapAddress
<1>1. PICK asked \in Nat : /\ stack[t] # <<>> /\ asked = Top(t).arg
                           /\ BootstrapCalloc(t, asked)
  BY BufferServes
<1>2. /\ offset \in 0 .. Word - 1 /\ BufferSize \in Nat /\ Word \in Nat
      /\ DlSize \in Nat \ {0} /\ Null \in Nat
  BY BootstrapAssumption DEF TypeOK, Null
<1>3. /\ offset + asked < Word => offset' = offset + asked
      /\ ~wrapped' <=> ~wrapped /\ offset + asked < Word
      /\ \/ Return(t, Null)
         \/ /\ offset' <= BufferSize
            /\ Return(t, offset + 1) /\ served' = served \cup {<<offset, asked>>}
  BY <1>1, Serves
<1>4. CASE Return(t, Null)
  <2>1. IsSound(Null)' /\ Null \notin HeapAddress
    BY NotOfTheHeap DEF IsSound, Null
  <2>2. QED
    BY <1>2, <1>4, <2>1
<1>5. CASE /\ offset' <= BufferSize
           /\ Return(t, offset + 1) /\ served' = served \cup {<<offset, asked>>}
  <2>1. PICK q \in Nat : q = offset + 1
    BY <1>2
  <2>2. IsInternalBootstrapPointer(q) \/ IsLoose(q)'
    <3>1. CASE "calloc" \notin missing
      <4>1. ~wrapped' /\ offset' = offset + asked
        BY <1>2, <1>3, <3>1 DEF OncePerLookup
      <4>2. asked = DlSize
        BY <1>1, <3>1, ServedOnce DEF TakesFromBuffer, NotFound
      <4>3. q \in 1 .. BufferSize
        BY <1>2, <1>5, <2>1, <4>1, <4>2
      <4>4. QED
        BY <4>3 DEF IsInternalBootstrapPointer
    <3>2. CASE "calloc" \in missing /\ wrapped'
      <4>1. q \in 1 .. BufferSize \/ q \in BufferSize + 1 .. Word
        BY <1>2, <2>1
      <4>2. QED
        BY <3>2, <4>1 DEF IsInternalBootstrapPointer, IsLoose
    <3>3. CASE "calloc" \in missing /\ ~wrapped'
      <4>1. offset + asked <= BufferSize
        BY <1>3, <1>5, <3>3
      <4>2. \/ q \in 1 .. BufferSize
            \/ q = BufferSize + 1 /\ offset = BufferSize /\ asked = 0
        BY <1>2, <2>1, <4>1
      <4>3. QED
        BY <1>5, <3>3, <4>2 DEF IsInternalBootstrapPointer, IsLoose
    <3>4. QED
      BY <3>1, <3>2, <3>3
  <2>3. q \notin HeapAddress
    <3>1. q <= Word
      BY <1>2, <2>1
    <3>2. QED
      BY <1>2, <3>1, BootstrapAssumption
  <2>4. IsSound(q)'
    BY <2>2 DEF IsSound, IsInternalBootstrapPointer
  <2>5. QED
    BY <1>5, <2>1, <2>3, <2>4
<1>6. QED
  BY <1>3, <1>4, <1>5

\* Every step keeps what is held sound and held once.
LEMMA OwnedStays ==
  ASSUME TypeOK, TypeOK', Nested, OncePerLookup', Owned, [Next]_vars
  PROVE  Owned'
<1> USE BootstrapAssumption
<1>1. CASE UNCHANGED vars
  BY <1>1 DEF vars, Owned, Holds, HoldsOnce, IsSound, IsLoose,
              IsInternalBootstrapPointer
<1>2. SUFFICES ASSUME missing' = missing,
                      NEW t \in Thread,
                      \/ \E op \in Op : Call(t, op)
                      \/ ThreadExit(t) \/ Step(t)
               PROVE  Owned'
  BY <1>1 DEF Next
<1>3. dlBuffer[t] \in Nat /\ Null \in Nat
  BY DEF TypeOK, Null
<1>4. ASSUME NEW op \in Op, Call(t, op) PROVE Owned'
  <2>1. PICK arg \in CASE op = "free" -> held \cup {Null}
                       [] op = "realloc" -> held \cup {Null}
                       [] op = "calloc" -> Size
                       [] OTHER -> {Null} :
          /\ stack' = [stack EXCEPT ![t] = <<Frame(op, arg)>>]
          /\ held' = IF op \in {"free", "realloc"} THEN held \ {arg} ELSE held
    BY <1>4 DEF Call
  <2>2. /\ arg \in Nat
        /\ op \in {"free", "realloc"} => arg \in held \/ arg = Null
        /\ op = "malloc" => arg = Null
    BY <1>3, <2>1 DEF TypeOK
  <2>3. PICK f \in Frames : /\ f = Frame(op, arg)
                            /\ f.op = op /\ f.arg = arg /\ f.at = "load"
    <3>1. Frame(op, arg) \in Frames
      BY <2>2 DEF Frame, Frames, Place
    <3>2. QED
      BY <3>1 DEF Frame
  <2>4. /\ stack[t] = <<>> /\ UNCHANGED <<served, wrapped, heap, dlBuffer>>
        /\ stack' = [stack EXCEPT ![t] = <<f>>]
    BY <1>4, <2>1, <2>3 DEF Call
  <2>5. \/ f.op \in {"free", "realloc"} /\ f.arg \in held /\ held' = held \ {f.arg}
        \/ f.op \in {"free", "realloc"} /\ f.arg = Null /\ held' \subseteq held
        \/ f.op \notin {"free", "realloc"} /\ held' = held
    BY <2>1, <2>2, <2>3
  <2>6. QED
    BY <1>2, <2>2, <2>3, <2>4, <2>5, FirstCallOwns
<1>5. ASSUME ThreadExit(t) PROVE Owned'
  <2>1. PICK f \in Frames : /\ f = Frame("free", dlBuffer[t]) /\ f.at = "load"
                            /\ f.op = "free" /\ f.arg = dlBuffer[t]
    <3>1. Frame("free", dlBuffer[t]) \in Frames
      BY <1>3 DEF Frame, Frames, Place
    <3>2. QED
      BY <3>1 DEF Frame
  <2>2. /\ stack[t] = <<>> /\ UNCHANGED <<served, wrapped, heap, held>>
        /\ stack' = [stack EXCEPT ![t] = <<f>>]
        /\ dlBuffer' = [dlBuffer EXCEPT ![t] = Null]
    BY <1>5, <2>1 DEF ThreadExit
  <2>3. /\ dlBuffer'[t] = Null
        /\ \A u \in Thread \ {t} : dlBuffer'[u] = dlBuffer[u]
    BY <2>2 DEF TypeOK
  <2>4. QED
    BY <1>2, <2>1, <2>2, <2>3, FirstCallOwns
<1>6. ASSUME NEW place \in Place, Goto(t, place), stack[t] # <<>>,
             UNCHANGED <<served, wrapped, heap, held, dlBuffer>>
      PROVE  Owned'
  <2>1. stack[t] \in Seq(Frames) /\ stack'[t] \in Seq(Frames)
    BY DEF TypeOK, Frames, Place
  <2>2. /\ \A u \in Thread \ {t} : stack'[u] = stack[u]
        /\ Len(stack'[t]) = Len(stack[t])
        /\ \A i \in 1 .. Len(stack[t]) : /\ stack'[t][i].op = stack[t][i].op
                                         /\ stack'[t][i].arg = stack[t][i].arg
    BY <1>6, GotoMoves
  <2>3. stack'[t] # <<>> /\ 1 \in 1 .. Len(stack[t])
    BY <1>6, <2>1, <2>2
  <2>4. QED
    BY <1>2, <1>6, <2>2, <2>3, SameCallOwns
<1>7. ASSUME NEW op \in Op, StartLookup(t, op) PROVE Owned'
  BY <1>6, <1>7 DEF StartLookup, NeedsReal, At, Place
<1>8. ASSUME StartCallocLookup(t) PROVE Owned'
  BY <1>6, <1>8 DEF StartCallocLookup, At, Place
<1>9. ASSUME NEW op \in Op, Found(t, op) PROVE Owned'
  BY <1>6, <1>9 DEF Found, InDlsym, At, Place
<1>10. ASSUME NEW op \in Op, Store(t, op) PROVE Owned'
  BY <1>6, <1>10 DEF Store, At, Place
<1>11. ASSUME NEW op \in Op, DlsymAllocates(t, op) PROVE Owned'
  <2>1. stack[t] \in Seq(Frames) /\ stack'[t] \in Seq(Frames)
    BY DEF TypeOK, Frames, Place
  <2>2. /\ stack[t] # <<>>
        /\ \A u \in Thread \ {t} : stack'[u] = stack[u]
        /\ Len(stack'[t]) = Len(stack[t]) + 1
        /\ \A i \in 1 .. Len(stack[t]) : /\ stack'[t][i].op = stack[t][i].op
                                         /\ stack'[t][i].arg = stack[t][i].arg
    BY <1>11, DlsymCalls
  <2>3. stack'[t] # <<>> /\ 1 \in 1 .. Len(stack[t])
    BY <2>1, <2>2
  <2>4. UNCHANGED <<served, wrapped, heap, held, dlBuffer>>
    BY <1>11 DEF DlsymAllocates
  <2>5. QED
    BY <1>2, <2>2, <2>3, <2>4, SameCallOwns
<1>12. ASSUME TakesFromBuffer(t), heap' = heap PROVE Owned'
  <2>1. PICK q \in Nat : Return(t, q) /\ IsSound(q)' /\ q \notin HeapAddress
    BY <1>2, <1>12, ServedIsSound
  <2>2. /\ stack[t] # <<>> /\ Top(t).op = "calloc" /\ Top(t).arg \in Nat
        /\ BootstrapCalloc(t, Top(t).arg)
    BY <1>12, BufferServes
  <2>3. served \subseteq served' /\ (wrapped => wrapped')
    BY <2>2, Serves
  <2>4. QED
    BY <1>2, <1>12, <2>1, <2>2, <2>3, ReturnOwns
<1>13. ASSUME ServeNested(t) PROVE Owned'
  BY <1>12, <1>13 DEF TakesFromBuffer, ServeNested
<1>14. ASSUME FreeNothing(t) PROVE Owned'
  BY <1>2, <1>14, CallEnds DEF FreeNothing, At
<1>15. ASSUME CallFree(t) PROVE Owned'
  BY <1>2, <1>15, CallEnds DEF CallFree, HasReal, NeedsReal, At
<1>16. ASSUME CallRealloc(t) PROVE Owned'
  <2>1. /\ stack[t] # <<>> /\ Top(t).op \in {"free", "realloc"}
        /\ stack' = [stack EXCEPT ![t] = Pop(@)]
        /\ UNCHANGED <<served, wrapped, dlBuffer>>
    BY <1>16 DEF CallRealloc, HasReal, NeedsReal, At
  <2>2. \/ heap' = heap /\ held' = held \cup ({Top(t).arg} \ {Null})
        \/ heap' = heap \ {Top(t).arg} /\ held' = held
        \/ \E a \in (HeapAddress \ heap) \cup (heap \cap {Top(t).arg}) :
             heap' = (heap \ {Top(t).arg}) \cup {a} /\ held' = held \cup {a}
    BY <1>16, Zenon DEF CallRealloc
  <2>3. QED
    BY <1>2, <2>1, <2>2, CallEnds
<1>17. ASSUME Top(t).op = "malloc", stack[t] # <<>>
       PROVE  /\ Len(stack[t]) = 1 /\ Top(t).arg \in Nat
              /\ Top(t).arg = Null \/ IsInternalBootstrapPointer(Top(t).arg)
  <2>1. PICK s \in Seq(Frames) : s = stack[t]
    BY DEF TypeOK, Frames, Place
  <2>2. Shape(s) /\ s # <<>> /\ Len(s) \in Nat \ {0} /\ Len(s) \in 1 .. Len(s)
        /\ s[Len(s)].op = "malloc" /\ Top(t) = s[Len(s)]
    BY <1>17, <2>1, TopOfStack DEF Nested
  <2>3. ~(Len(s) > 1)
    BY <2>2, Zenon DEF Shape
  <2>4. Len(s) = 1
    <3>1. \A n \in Nat \ {0} : ~(n > 1) => n = 1
      OBVIOUS
    <3>2. QED
      BY <2>2, <2>3, <3>1
  <2>5. KeepsSpare(s) /\ s[1] = Top(t)
    BY <2>1, <2>2, <2>4 DEF Owned
  <2>6. QED
    BY <1>17, <2>1, <2>2, <2>4, <2>5, TopOfStack DEF KeepsSpare, Frames
<1>18. ASSUME NEW q \in Nat, q = Null \/ IsInternalBootstrapPointer(q)
       PROVE  q \notin HeapAddress /\ IsSound(q)'
  BY <1>18, NotOfTheHeap DEF IsSound, IsInternalBootstrapPointer
<1>19. ASSUME NEW op \in Op, NotFound(t, op) PROVE Owned'
  <2>1. stack[t] # <<>> /\ Top(t).op = op
    BY <1>19 DEF NotFound, InDlsym, At
  <2>2. CASE op = "calloc"
    BY <1>12, <1>19, <2>2 DEF TakesFromBuffer, NotFound
  <2>3. CASE op # "calloc"
    <3>1. /\ stack' = [stack EXCEPT ![t] = Pop(@)]
          /\ held' = IF op \in {"realloc", "malloc"}
                     THEN held \cup ({Top(t).arg} \ {Null}) ELSE held
          /\ UNCHANGED <<served, wrapped, dlBuffer, heap>>
      BY <1>19, <2>3 DEF NotFound
    <3>2. CASE op = "malloc"
      <4>1. PICK q \in Nat : q = Top(t).arg
        BY <1>17, <2>1, <3>2
      <4>2. Return(t, q)
        <5>1. ~(Len(stack[t]) > 1)
          <6>1. Len(stack[t]) = 1
            BY <1>17, <2>1, <3>2
          <6>2. QED
            BY <6>1
        <5>2. held' = held \cup ({q} \ {Null}) /\ dlBuffer' = dlBuffer
          BY <3>1, <3>2, <4>1
        <5>3. QED
          BY <3>1, <5>1, <5>2 DEF Return
      <4>3. q \notin HeapAddress /\ IsSound(q)'
        BY <1>17, <1>18, <2>1, <3>2, <4>1
      <4>4. QED
        BY <1>2, <2>1, <3>1, <3>2, <4>2, <4>3, ReturnOwns
    <3>3. CASE op # "malloc"
      BY <1>2, <2>1, <2>3, <3>1, <3>3, CallEnds
    <3>4. QED
      BY <3>2, <3>3
  <2>4. QED
    BY <2>2, <2>3
<1>20. ASSUME NEW op \in Op, CallAllocate(t, op) PROVE Owned'
  <2>1. /\ stack[t] # <<>> /\ Top(t).op = op /\ op \in {"malloc", "calloc"}
        /\ UNCHANGED <<served, wrapped>>
    BY <1>20 DEF CallAllocate, HasReal, NeedsReal, At
  <2>2. CASE /\ heap' = heap
             /\ Return(t, IF op = "malloc" THEN Top(t).arg ELSE Null)
    <3>1. PICK q \in Nat : /\ q = IF op = "malloc" THEN Top(t).arg ELSE Null
                           /\ q = Null \/ IsInternalBootstrapPointer(q)
      BY <1>3, <1>17, <2>1
    <3>2. q \notin HeapAddress /\ IsSound(q)'
      BY <1>18, <3>1
    <3>3. QED
      BY <1>2, <2>1, <2>2, <3>1, <3>2, ReturnOwns
  <2>3. ASSUME NEW a \in HeapAddress \ heap, Return(t, a), heap' = heap \cup {a}
        PROVE  Owned'
    BY <1>2, <2>1, <2>3, ReturnOwns
  <2>4. QED
    BY <1>20, <2>2, <2>3 DEF CallAllocate
<1>21. ASSUME ReallocBootstrap(t) PROVE Owned'
  <2>1. /\ stack[t] # <<>> /\ Top(t).op = "realloc"
        /\ IsInternalBootstrapPointer(Top(t).arg)
        /\ UNCHANGED <<served, wrapped, heap, held, dlBuffer>>
    BY <1>21 DEF ReallocBootstrap, At
  <2>2. PICK f : f = Frame("malloc", Top(t).arg)
    OBVIOUS
  <2>3. /\ \A u \in Thread \ {t} : stack'[u] = stack[u]
        /\ stack'[t] = <<f>> /\ stack[t][1] = Top(t)
    BY <1>21, <2>2, ReplacedCall DEF Nested
  <2>4. f.op = "malloc" /\ f.arg = Top(t).arg
    BY <2>2 DEF Frame
  <2>5. Given(stack'[t]) = Null /\ KeepsSpare(stack'[t])
    <3>1. <<f>> # <<>> /\ <<f>>[1] = f
      OBVIOUS
    <3>2. Given(<<f>>) = Null /\ KeepsSpare(<<f>>)
      BY <2>1, <2>4, <3>1 DEF Given, KeepsSpare
    <3>3. QED
      BY <2>3, <3>2
  <2>6. \A p \in Nat : Holds(t, p)' => p = Null \/ Holds(t, p)
    BY <2>1, <2>5 DEF Holds
  <2>7. \A p \in Nat : IsLoose(p) => IsLoose(p)'
    BY <1>2, <2>1, LooseStays
  <2>8. \A p \in Nat : Holds(t, p)' => IsSound(p)'
    BY <2>1, <2>6, <2>7 DEF Owned, IsSound, IsInternalBootstrapPointer
  <2>9. \A p \in heap : p \in Nat /\ p # Null
    BY NotOfTheHeap DEF Owned, TypeOK
  <2>10. \A p \in heap' : HoldsOnce(t, p)'
    BY <2>1, <2>5, <2>9 DEF Owned, HoldsOnce
  <2>11. heap' \subseteq HeapAddress /\ heap \ heap' = {}
    BY <2>1 DEF Owned
  <2>12. QED
    BY <2>1, <2>3, <2>5, <2>6, <2>7, <2>8, <2>9, <2>10, <2>11, OwnersMove
<1>22. QED
  BY <1>2, <1>4, <1>5, <1>7, <1>8, <1>9, <1>10, <1>11, <1>13, <1>14, <1>15, <1>16,
     <1>19, <1>20, <1>21 DEF Step

\* What the C library is given to free or to reallocate it has handed out and not
\* had back, whoever holds it now: no block is given to it twice, and none of the
\* buffer (RealAllocator.cpp:67-82, 106-126).
THEOREM RealFreesItsOwn == Spec => []RealGetsItsOwn
<1>1. Init => Owned
  BY DEF Init, Owned, KeepsSpare, Holds, HoldsOnce, Given, IsSound
<1>2. /\ TypeOK /\ TypeOK' /\ Nested /\ OncePerLookup' /\ Owned /\ [Next]_vars
      => Owned'
  BY OwnedStays
<1>3. TypeOK /\ Nested /\ AllChecked /\ Owned => RealGetsItsOwn
  <2>1. SUFFICES ASSUME TypeOK, Nested, AllChecked, Owned, NEW t \in Thread,
                        NEW op \in {"free", "realloc"}, HasReal(t, op)
                 PROVE  Top(t).arg \in heap \cup {Null} \/ IsLoose(Top(t).arg)
    BY DEF RealGetsItsOwn
  <2>2. PICK s \in Seq(Frames) : s = stack[t]
    BY <2>1 DEF TypeOK, Frames, Place
  <2>3. /\ s # <<>> /\ Top(t) = s[Len(s)] /\ Top(t).op = op /\ Top(t).arg \in Nat
        /\ Len(s) \in Nat \ {0} /\ Len(s) \in 1 .. Len(s)
        /\ Shape(s) /\ Checked(s)
    BY <2>1, <2>2, TopOfStack DEF HasReal, NeedsReal, At, Frames, Nested, AllChecked
  <2>4. ~IsInternalBootstrapPointer(Top(t).arg)
    BY <2>1, <2>2, <2>3 DEF HasReal, NeedsReal, At, Checked
  <2>5. Len(s) = 1
    <3>1. ~(Len(s) > 1)
      BY <2>1, <2>3, Zenon DEF Shape
    <3>2. \A n \in Nat \ {0} : ~(n > 1) => n = 1
      OBVIOUS
    <3>3. QED
      BY <2>3, <3>1, <3>2
  <2>6. Given(stack[t]) = Top(t).arg
    BY <2>1, <2>2, <2>3, <2>5 DEF Given
  <2>7. IsSound(Top(t).arg)
    BY <2>1, <2>3, <2>6 DEF Owned, Holds
  <2>8. QED
    BY <2>4, <2>7 DEF IsSound
<1>4. QED
  BY <1>1, <1>2, <1>3, TypeCorrect, CallsNest, EachLookupAsksOnce,
     BufferStaysOutOfTheHeap, PTL DEF Spec

=============================================================================
