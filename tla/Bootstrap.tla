----------------------------- MODULE Bootstrap ------------------------------
(***************************************************************************)
(* RealAllocator of the preloaded library (MemoryAnalyzer/Linux/           *)
(* RealAllocator.cpp): the real functions, looked up with dlsym at first   *)
(* use, and the small buffer that serves calloc while calloc itself is     *)
(* being looked up.  Each thread is its stack of calls.                    *)
(*                                                                         *)
(* dlsym is external: on a thread it has not run on before it may allocate *)
(* a buffer of its own, with the calloc of the process, which is the hook. *)
(* So is the allocator of the C library.                                   *)
(***************************************************************************)
EXTENDS Naturals, Sequences, FiniteSets

CONSTANTS
  Thread,
  Op,           \* the functions in use; malloc stands for alignedAlloc too
  Word,         \* 2^w, one more than the largest size_t
  Size,         \* what the program asks calloc for: count times size, unreduced
  DlSize,       \* what dlsym asks for
  BufferSize,   \* BootstrapBufferSize
  HeapAddress,  \* what the C library hands out
  Missing,      \* sets of functions that dlsym may not find
  MaxServed,    \* bound: no more requests once so many blocks are served
  MaxHeld,      \* bound: the program asks for no more once it holds so many
  MaxDepth      \* bound: calls on a stack

ASSUME BootstrapAssumption ==
  /\ Op \subseteq {"malloc", "free", "calloc", "realloc"} /\ "calloc" \in Op
  /\ Word \in Nat /\ BufferSize \in Nat /\ BufferSize < Word
  /\ Size \subseteq Nat /\ DlSize \in Nat \ {0}
  /\ MaxServed \in Nat /\ MaxHeld \in Nat /\ MaxDepth \in Nat
  /\ \A a \in HeapAddress : a \in Nat /\ a > Word
  /\ IsFiniteSet(Thread) /\ DlSize * Cardinality(Thread) < Word

Null == 0

VARIABLES
  missing,    \* the functions that dlsym does not find
  stack,      \* the calls each thread is in, innermost last
  resolved,   \* the functions whose pointer is stored
  resolving,  \* resolvingCalloc of each thread
  offset,     \* bootstrapOffset
  served,     \* blocks cut from the buffer: <<offset, size asked for>>
  wrapped,    \* history: a product or the offset has gone round
  heap,       \* blocks of the C library
  held,       \* pointers the program holds
  dlBuffer    \* dlsym's buffer for each thread

vars == <<missing, stack, resolved, resolving, offset, served, wrapped, heap, held,
          dlBuffer>>

\* A place in the buffer is its offset plus one, heap addresses come after.
IsInternalBootstrapPointer(p) == p \in 1 .. BufferSize

Frame(op, arg) == [op |-> op, at |-> "load", arg |-> arg]

Top(t) == stack[t][Len(stack[t])]

\* The innermost call is of op and has come to this place.
At(t, op, place) == stack[t] # <<>> /\ Top(t).op = op /\ Top(t).at = place

Goto(t, place) == stack' = [stack EXCEPT ![t][Len(stack[t])].at = place]

Pop(s) == SubSeq(s, 1, Len(s) - 1)

\* The innermost call returns p, to the program or to dlsym.
Return(t, p) ==
  /\ stack' = [stack EXCEPT ![t] = Pop(@)]
  /\ IF Len(stack[t]) > 1
     THEN dlBuffer' = [dlBuffer EXCEPT ![t] = p] /\ held' = held
     ELSE held' = held \cup ({p} \ {Null}) /\ dlBuffer' = dlBuffer

Init ==
  /\ missing \in Missing
  /\ stack = [t \in Thread |-> <<>>]
  /\ resolved = {}
  /\ resolving = [t \in Thread |-> FALSE]
  /\ offset = 0
  /\ served = {}
  /\ wrapped = FALSE
  /\ heap = {}
  /\ held = {}
  /\ dlBuffer = [t \in Thread |-> Null]

-----------------------------------------------------------------------------
(* Mutants: definitions below with one plausible bug each.                 *)

\* Only the start of the block must be inside the buffer.
BootstrapCallocUntilEnd(t, asked) ==
  /\ offset' = (offset + asked) % Word
  /\ wrapped' = (wrapped \/ offset + asked >= Word)
  /\ IF offset >= BufferSize
     THEN Return(t, Null) /\ served' = served
     ELSE Return(t, offset + 1) /\ served' = served \cup {<<offset, asked>>}

\* The thread does not note that it is looking up calloc.
StartWithoutFlag(t) ==
  /\ At(t, "calloc", "load") /\ "calloc" \notin resolved /\ ~resolving[t]
  /\ Goto(t, "dlsym")
  /\ UNCHANGED <<resolved, resolving, offset, served, wrapped, heap, held, dlBuffer>>

\* The pointer to calloc is not stored.
StoreNothing(t, op) ==
  /\ At(t, op, "store")
  /\ Goto(t, "call")
  /\ UNCHANGED <<resolved, resolving, offset, served, wrapped, heap, held, dlBuffer>>

\* free() and realloc() pass every pointer on.
NeedsRealAlways(t, op) ==
  /\ At(t, op, "load")
  /\ op = "free" => Top(t).arg # Null

-----------------------------------------------------------------------------
(* Calls of the program                                                    *)

\* It frees and reallocates what it holds.
Call(t, op) ==
  /\ stack[t] = <<>>
  /\ \E arg \in CASE op = "free" -> held \cup {Null}
                  [] op = "realloc" -> held \cup {Null}
                  [] op = "calloc" -> Size
                  [] OTHER -> {Null} :
       /\ stack' = [stack EXCEPT ![t] = <<Frame(op, arg)>>]
       /\ held' = IF op \in {"free", "realloc"} THEN held \ {arg} ELSE held
  /\ op = "calloc" => Cardinality(served) < MaxServed
  /\ op \in {"malloc", "calloc"} => Cardinality(held) < MaxHeld
  /\ UNCHANGED <<resolved, resolving, offset, served, wrapped, heap, dlBuffer>>

\* A thread ends and dlsym's buffer is freed; the name stands for another
\* thread after that.
ThreadExit(t) ==
  /\ stack[t] = <<>> /\ dlBuffer[t] # Null
  /\ stack' = [stack EXCEPT ![t] = <<Frame("free", dlBuffer[t])>>]
  /\ dlBuffer' = [dlBuffer EXCEPT ![t] = Null]
  /\ UNCHANGED <<resolved, resolving, offset, served, wrapped, heap, held>>

-----------------------------------------------------------------------------
(* RealAllocator                                                           *)

\* fetch_add, then the test whether the block still fits.  The product of count
\* and size, the offset and the sum tested are of type size_t.
BootstrapCalloc(t, asked) ==
  LET end == (offset + (asked % Word)) % Word
  IN  /\ offset' = end
      /\ wrapped' = (wrapped \/ offset + asked >= Word)
      /\ IF end > BufferSize
         THEN Return(t, Null) /\ served' = served
         ELSE Return(t, offset + 1) /\ served' = served \cup {<<offset, asked>>}

\* Past the early returns of free and realloc.
NeedsReal(t, op) ==
  /\ At(t, op, "load")
  /\ op = "free" => Top(t).arg # Null
  /\ op \in {"free", "realloc"} => ~IsInternalBootstrapPointer(Top(t).arg)

\* The stored pointer was there, or has just been looked up.
HasReal(t, op) == At(t, op, "call") \/ (NeedsReal(t, op) /\ op \in resolved)

\* It is not there: dlsym is called.
StartLookup(t, op) ==
  /\ NeedsReal(t, op) /\ op \notin resolved /\ op # "calloc"
  /\ Goto(t, "dlsym")
  /\ UNCHANGED <<resolved, resolving, offset, served, wrapped, heap, held, dlBuffer>>

\* calloc notes first that this thread is looking it up.
StartCallocLookup(t) ==
  /\ At(t, "calloc", "load") /\ "calloc" \notin resolved /\ ~resolving[t]
  /\ resolving' = [resolving EXCEPT ![t] = TRUE]
  /\ Goto(t, "dlsym")
  /\ UNCHANGED <<resolved, offset, served, wrapped, heap, held, dlBuffer>>

\* calloc called by dlsym while this thread looks up calloc.
ServeNested(t) ==
  /\ At(t, "calloc", "load") /\ "calloc" \notin resolved /\ resolving[t]
  /\ BootstrapCalloc(t, Top(t).arg)
  /\ UNCHANGED <<resolved, resolving, heap>>

\* free() leaves a null pointer and a block of the buffer alone.
FreeNothing(t) ==
  /\ At(t, "free", "load")
  /\ Top(t).arg = Null \/ IsInternalBootstrapPointer(Top(t).arg)
  /\ stack' = [stack EXCEPT ![t] = Pop(@)]
  /\ UNCHANGED <<resolved, resolving, offset, served, wrapped, heap, held, dlBuffer>>

\* realloc() of a block of the buffer is a malloc; its caller keeps the block if
\* that fails.
ReallocBootstrap(t) ==
  /\ At(t, "realloc", "load") /\ IsInternalBootstrapPointer(Top(t).arg)
  /\ stack' = [stack EXCEPT ![t] = Append(Pop(@), Frame("malloc", Top(t).arg))]
  /\ UNCHANGED <<resolved, resolving, offset, served, wrapped, heap, held, dlBuffer>>

\* dlsym allocates its buffer, on its first use on this thread.
DlsymAllocates(t, op) ==
  /\ At(t, op, "dlsym") /\ dlBuffer[t] = Null
  /\ Len(stack[t]) < MaxDepth /\ Cardinality(served) < MaxServed
  /\ stack' = [stack EXCEPT ![t] =
       Append([@ EXCEPT ![Len(@)].at = "dlsym_again"], Frame("calloc", DlSize))]
  /\ UNCHANGED <<resolved, resolving, offset, served, wrapped, heap, held, dlBuffer>>

InDlsym(t, op) == At(t, op, "dlsym") \/ At(t, op, "dlsym_again")

\* dlsym returns a pointer; calloc takes back its note.
Found(t, op) ==
  /\ InDlsym(t, op) /\ op \notin missing
  /\ resolving' = [resolving EXCEPT ![t] = @ /\ op # "calloc"]
  /\ Goto(t, "store")
  /\ UNCHANGED <<resolved, offset, served, wrapped, heap, held, dlBuffer>>

Store(t, op) ==
  /\ At(t, op, "store")
  /\ resolved' = resolved \cup {op}
  /\ Goto(t, "call")
  /\ UNCHANGED <<resolving, offset, served, wrapped, heap, held, dlBuffer>>

\* dlsym returns null: calloc is served from the buffer, free does nothing, the
\* others return null.  Storing the null changes nothing.
NotFound(t, op) ==
  /\ InDlsym(t, op) /\ op \in missing
  /\ IF op = "calloc"
     THEN /\ resolving' = [resolving EXCEPT ![t] = FALSE]
          /\ BootstrapCalloc(t, Top(t).arg)
     ELSE /\ stack' = [stack EXCEPT ![t] = Pop(@)]
          /\ held' = IF op \in {"realloc", "malloc"}
                     THEN held \cup ({Top(t).arg} \ {Null}) ELSE held
          /\ UNCHANGED <<resolving, offset, served, wrapped, dlBuffer>>
  /\ UNCHANGED <<resolved, heap>>

\* The C library allocates, or fails.
CallAllocate(t, op) ==
  /\ op \in {"malloc", "calloc"} /\ HasReal(t, op)
  /\ \/ Return(t, IF op = "malloc" THEN Top(t).arg ELSE Null) /\ heap' = heap
     \/ \E a \in HeapAddress \ heap : Return(t, a) /\ heap' = heap \cup {a}
  /\ UNCHANGED <<resolved, resolving, offset, served, wrapped>>

CallFree(t) ==
  /\ HasReal(t, "free")
  /\ heap' = heap \ {Top(t).arg}
  /\ stack' = [stack EXCEPT ![t] = Pop(@)]
  /\ UNCHANGED <<resolved, resolving, offset, served, wrapped, held, dlBuffer>>

\* It fails and the block stays, or it was asked for no size and frees the block,
\* or the block moves or stays where it is.
CallRealloc(t) ==
  /\ HasReal(t, "realloc")
  /\ \/ heap' = heap /\ held' = held \cup ({Top(t).arg} \ {Null})
     \/ heap' = heap \ {Top(t).arg} /\ held' = held
     \/ \E a \in (HeapAddress \ heap) \cup (heap \cap {Top(t).arg}) :
          /\ heap' = (heap \ {Top(t).arg}) \cup {a}
          /\ held' = held \cup {a}
  /\ stack' = [stack EXCEPT ![t] = Pop(@)]
  /\ UNCHANGED <<resolved, resolving, offset, served, wrapped, dlBuffer>>

Step(t) ==
  \/ StartCallocLookup(t) \/ ServeNested(t) \/ FreeNothing(t)
  \/ ReallocBootstrap(t) \/ CallFree(t) \/ CallRealloc(t)
  \/ \E op \in Op : \/ StartLookup(t, op) \/ DlsymAllocates(t, op)
                    \/ Found(t, op) \/ Store(t, op) \/ NotFound(t, op)
                    \/ CallAllocate(t, op)

Next ==
  /\ \E t \in Thread : (\E op \in Op : Call(t, op)) \/ ThreadExit(t) \/ Step(t)
  /\ missing' = missing

Spec == Init /\ [][Next]_vars

-----------------------------------------------------------------------------
(* Properties                                                              *)

\* Calls are of the functions in use, and every pointer is a number.
TypeOK ==
  /\ stack \in [Thread -> Seq([op : Op \cup {"malloc", "free"}, arg : Nat,
                              at : {"load", "dlsym", "dlsym_again", "store",
                                    "call"}])]
  /\ resolved \subseteq Op
  /\ resolving \in [Thread -> BOOLEAN]
  /\ offset \in 0 .. Word - 1
  /\ served \subseteq Nat \X Nat
  /\ wrapped \in BOOLEAN
  /\ heap \subseteq Nat
  /\ held \subseteq Nat
  /\ dlBuffer \in [Thread -> Nat]

\* The lookup does not recurse: at worst a call, the calloc of its dlsym, and
\* the calloc of the dlsym for that (RealAllocator.cpp:22-32).
NestingIsBounded == \A t \in Thread : Len(stack[t]) <= 3

\* The buffer needs room for one request of dlsym on each thread, however their
\* lookups interleave, as long as calloc can be found.
OneRequestPerThread ==
  "calloc" \notin missing => offset <= DlSize * Cardinality(Thread)

\* What the buffer serves lies inside it and does not overlap, however many
\* requests came before or did not fit, until a size_t goes round; and none does
\* as long as calloc can be found (RealAllocator.cpp:38-49).
ServedBlocksAreDisjoint ==
  /\ ~wrapped =>
       /\ \A b \in served : b[1] + b[2] <= BufferSize
       /\ \A b, c \in served :
            b # c => b[1] + b[2] <= c[1] \/ c[1] + c[2] <= b[1]
  /\ "calloc" \notin missing => ~wrapped

\* Where calloc cannot be found, the program may get a block outside the buffer,
\* once a size_t has gone round, or an empty one at its very end.
IsLoose(p) ==
  /\ "calloc" \in missing
  /\ \/ wrapped /\ p \in BufferSize + 1 .. Word
     \/ <<BufferSize, 0>> \in served /\ p = BufferSize + 1

\* What the C library is given to free or to reallocate it has handed out and not
\* had back: never a block of the buffer, whichever thread got it and whichever
\* gives it back, and no block twice though dlsym's buffer changes hands between
\* the two allocators (RealAllocator.cpp:67-82, 106-126).
RealGetsItsOwn ==
  \A t \in Thread : HasReal(t, "free") \/ HasReal(t, "realloc") =>
    Top(t).arg \in heap \cup {Null} \/ IsLoose(Top(t).arg)

=============================================================================
