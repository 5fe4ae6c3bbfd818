----------------------------- MODULE LeakReport -----------------------------
(***************************************************************************)
(* Tracker::reportLeaks (MemoryAnalyzerEngine/Tracker.cpp): the entries of *)
(* the map, met in the order of its hash table, are grouped by size and    *)
(* stack trace, the groups sorted by their bytes, and printed.             *)
(*                                                                         *)
(* The arithmetic is that of a std::size_t of AddressSpace values, and the *)
(* blocks are disjoint pieces of that address space.                       *)
(***************************************************************************)
EXTENDS Naturals, Sequences, FiniteSets, FiniteSetsExt

CONSTANTS
  AddressSpace,  \* 2 to the width of std::size_t
  MaxLeaks,      \* bound: how many blocks are leaked
  Trace          \* stack traces

ASSUME SpaceAssumption == AddressSpace \in Nat \ {0} /\ MaxLeaks \in Nat

Word == 0 .. (AddressSpace - 1)

\* LeakInfo.
Leak == [address : Word \ {0}, size : Word, trace : Trace]

\* malloc(0) takes room too.
Extent(l) == IF l.size = 0 THEN 1 ELSE l.size

Disjoint(l, k) ==
  \/ l.address + Extent(l) <= k.address
  \/ k.address + Extent(k) <= l.address

VARIABLES
  leaks,    \* the map, which becomes getLeaks()
  started,  \* reportLeaks() has been called
  pending,  \* leaks the first loop has not met yet
  grouped,  \* the map from GroupKey to LeakGroup
  total,    \* the bytes of all leaks
  printed   \* the report: its [LEAK] lines, and how many leaks it speaks of

vars == <<leaks, started, pending, grouped, total, printed>>

\* LeakGroup.  Its key is its size with the trace of its representative.
Group == [representative : Leak, size : Word, count : Nat]

Key(g) == <<g.size, g.representative.trace>>

Init ==
  /\ leaks = {}
  /\ started = FALSE
  /\ pending = {}
  /\ grouped = {}
  /\ total = 0
  /\ printed = <<>>

Bytes(g) == (g.size * g.count) % AddressSpace

-----------------------------------------------------------------------------
(* Mutants: definitions below with one plausible bug each.                 *)

\* Groups of the same number of bytes come in the order of their sizes.
BeforeWithoutTieBreak(g, h) ==
  \/ Bytes(g) > Bytes(h)
  \/ Bytes(g) = Bytes(h) /\ g.size < h.size

\* The total counts a group once.
MeetCountsGroups(l) ==
  LET same == {g \in grouped : Key(g) = <<l.size, l.trace>>}
  IN  /\ pending' = pending \ {l}
      /\ grouped' = IF same = {}
                    THEN grouped \cup {[representative |-> l, size |-> l.size,
                                        count |-> 1]}
                    ELSE {[g EXCEPT !.count = IF g \in same THEN @ + 1 ELSE @] :
                            g \in grouped}
      /\ total' = IF same = {} THEN (total + l.size) % AddressSpace ELSE total
      /\ UNCHANGED <<leaks, started, printed>>

-----------------------------------------------------------------------------
(* The report                                                              *)

\* Tracker::onAllocate for a block that is never freed.
OnAllocate(l) ==
  /\ ~started
  /\ Cardinality(leaks) < MaxLeaks
  /\ l.address + Extent(l) <= AddressSpace
  /\ \A k \in leaks : Disjoint(l, k)
  /\ leaks' = leaks \cup {l}
  /\ UNCHANGED <<started, pending, grouped, total, printed>>

\* getLeaks().
Start ==
  /\ ~started
  /\ started' = TRUE
  /\ pending' = leaks
  /\ UNCHANGED <<leaks, grouped, total, printed>>

\* One more leak of a group; the lowest address stands for it.
Merge(g, l) ==
  [g EXCEPT !.count = @ + 1,
            !.representative = IF l.address < @.address THEN l ELSE @]

\* The first loop meets a leak: try_emplace, then the group is brought up to
\* date.
Meet(l) ==
  LET same == {g \in grouped : Key(g) = <<l.size, l.trace>>}
      new == [representative |-> l, size |-> l.size, count |-> 0]
  IN  /\ pending' = pending \ {l}
      /\ grouped' = (grouped \ same)
                    \cup {Merge(g, l) : g \in IF same = {} THEN {new} ELSE same}
      /\ total' = (total + l.size) % AddressSpace
      /\ UNCHANGED <<leaks, started, printed>>

\* The comparator of std::sort.
Before(g, h) ==
  \/ Bytes(g) > Bytes(h)
  \/ Bytes(g) = Bytes(h) /\ g.representative.address < h.representative.address

\* The last loop prints the next group of the sorted vector.
PrintGroup ==
  /\ started /\ pending = {}
  /\ \E g \in grouped :
       /\ \A h \in grouped \ {g} : ~Before(h, g)
       /\ grouped' = grouped \ {g}
       /\ printed' = Append(printed, [address |-> g.representative.address,
                                      trace |-> g.representative.trace,
                                      size |-> g.size, count |-> g.count,
                                      bytes |-> Bytes(g)])
  /\ UNCHANGED <<leaks, started, pending, total>>

Next ==
  \/ \E l \in Leak : OnAllocate(l)
  \/ Start
  \/ \E l \in pending : Meet(l)
  \/ PrintGroup

Spec == Init /\ [][Next]_vars

-----------------------------------------------------------------------------
(* What the report should say                                              *)

\* The sum of the sizes of some leaks: how many bytes of the address space
\* are in one of them, since no byte is in two.
Block(l) == l.address .. (l.address + l.size - 1)

Sum(S) == Cardinality(UNION {Block(l) : l \in S})

\* Leaks that are the same leak repeated.
Repeats(l) == {k \in leaks : k.size = l.size /\ k.trace = l.trace}

\* The line about the leak l and its repeats.
Line(l) ==
  [address |-> Min({k.address : k \in Repeats(l)}),
   trace |-> l.trace, size |-> l.size, count |-> Cardinality(Repeats(l)),
   bytes |-> Sum(Repeats(l))]

Lines == {Line(l) : l \in leaks}

Done == started /\ pending = {} /\ grouped = {}

-----------------------------------------------------------------------------
(* Properties                                                              *)

\* The report is a function of the leaks, not of the order in which the hash
\* table gives them: one line for all repeats of a leak, with their number and
\* their bytes, biggest first, and the lowest address deciding a tie
\* (Tracker.cpp:120-124, 159-160).
Deterministic ==
  Done =>
    /\ {printed[i] : i \in 1 .. Len(printed)} = Lines
    /\ Len(printed) = Cardinality(Lines)
    /\ \A i, j \in 1 .. Len(printed) :
         i < j => \/ printed[i].bytes > printed[j].bytes
                  \/ /\ printed[i].bytes = printed[j].bytes
                     /\ printed[i].address < printed[j].address

\* "The Total leaked line still counts every individual allocation"
\* (README.md:20), and never wraps, the blocks being disjoint.
TotalIsExact == started => total = Sum(leaks \ pending)

=============================================================================
