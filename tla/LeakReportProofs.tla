-------------------------- MODULE LeakReportProofs --------------------------
(***************************************************************************)
(* The report of the leaks, proved right for any number of leaks, in any   *)
(* order of the hash table, and for any width of std::size_t.              *)
(***************************************************************************)
EXTENDS LeakReport, FiniteSetTheorems, WellFoundedInduction, TLAPS

-----------------------------------------------------------------------------
(* The invariant                                                           *)

\* The leaks that the first loop has met, and the repeats of one among them.
Met == leaks \ pending

Alike(k, l) == k.size = l.size /\ k.trace = l.trace

Same(l) == {k \in Met : Alike(k, l)}

\* What the loop has made of them.
Lowest(S) == CHOOSE k \in S : \A m \in S : k.address <= m.address

GroupOf(l) ==
  [representative |-> Lowest(Same(l)), size |-> l.size,
   count |-> Cardinality(Same(l))]

Groups == {GroupOf(l) : l \in Met}

\* What is printed of a group, and which line comes before which.
Entry ==
  [address : Nat, trace : Trace, size : Nat, count : Nat, bytes : Nat]

Text(g) ==
  [address |-> g.representative.address, trace |-> g.representative.trace,
   size |-> g.size, count |-> g.count, bytes |-> Bytes(g)]

LineBefore(p, q) ==
  \/ p.bytes > q.bytes
  \/ p.bytes = q.bytes /\ p.address < q.address

\* Leaked blocks are disjoint pieces of the address space.
SpaceInv ==
  /\ leaks \subseteq Leak /\ IsFiniteSet(leaks)
  /\ \A l \in leaks : l.address + Extent(l) <= AddressSpace
  /\ \A l, k \in leaks : l # k => Disjoint(l, k)

LoopInv ==
  /\ started \in BOOLEAN
  /\ pending \subseteq leaks
  /\ ~started => pending = {} /\ grouped = {} /\ printed = <<>> /\ total = 0

\* The bytes of a group are its size that many times: nothing wraps.
BytesInv ==
  started => \A l \in Met : l.size * Cardinality(Same(l)) = Sum(Same(l))

PrintedInv ==
  /\ printed \in Seq(Entry)
  /\ pending # {} => printed = <<>>
  /\ started =>
       /\ grouped \subseteq Groups
       /\ {printed[i] : i \in 1 .. Len(printed)}
            = {Text(g) : g \in Groups \ grouped}
       /\ \A i, j \in 1 .. Len(printed) :
            i < j => LineBefore(printed[i], printed[j])
       /\ \A i \in 1 .. Len(printed) : \A g \in grouped :
            LineBefore(printed[i], Text(g))

ReportInv ==
  SpaceInv /\ LoopInv /\ BytesInv /\ PrintedInv /\ TotalIsExact

-----------------------------------------------------------------------------
(* Leaks in the address space                                              *)

\* The type of a leak, for the facts below.
LEMMA LeakType ==
  ASSUME NEW l \in Leak
  PROVE  /\ l.address \in Nat \ {0} /\ l.size \in Nat /\ l.trace \in Trace
         /\ Extent(l) \in Nat \ {0} /\ l.size <= Extent(l)
<1>1. l.address \in Word \ {0} /\ l.size \in Word /\ l.trace \in Trace
  BY DEF Leak
<1>2. l.address \in Nat \ {0} /\ l.size \in Nat
  BY <1>1, SpaceAssumption DEF Word
<1>3. QED
  BY <1>1, <1>2 DEF Extent

\* No two leaks have the same address.
LEMMA AddressesDiffer ==
  ASSUME SpaceInv, NEW l \in leaks, NEW k \in leaks, l.address = k.address
  PROVE  l = k
<1>1. l \in Leak /\ k \in Leak
  BY DEF SpaceInv
<1>2. ~Disjoint(l, k)
  BY <1>1, LeakType DEF Disjoint
<1>3. QED
  BY <1>2 DEF SpaceInv

\* Every set of numbers that is not empty has a least one.
LEMMA LeastNumber ==
  ASSUME NEW S \in SUBSET Nat, S # {}
  PROVE  \E m \in S : \A k \in S : m <= k
<1> DEFINE R == OpToRel(<, Nat)
<1>1. IsWellFoundedOn(R, Nat)
  BY NatLessThanWellFounded
<1>2. \A k, m \in Nat : k < m => <<k, m>> \in R
  BY DEF OpToRel
<1> HIDE DEF R
<1>3. PICK m \in S : \A k \in S : ~(<<k, m>> \in R)
  BY <1>1, WFMin
<1>4. \A k \in S : ~(k < m)
  BY <1>2, <1>3
<1>5. \A k \in S : m <= k
  BY <1>4
<1>6. QED
  BY <1>5

\* Some leaks that are not none have a lowest one, and only one.
LEMMA LowestIsIn ==
  ASSUME SpaceInv, NEW S \in SUBSET leaks, S # {}
  PROVE  Lowest(S) \in S /\ \A m \in S : Lowest(S).address <= m.address
<1> DEFINE addresses == {m.address : m \in S}
<1>1. addresses \in SUBSET Nat /\ addresses # {}
  BY LeakType DEF SpaceInv
<1>2. PICK a \in addresses : \A b \in addresses : a <= b
  BY <1>1, LeastNumber
<1>3. \E k \in S : \A m \in S : k.address <= m.address
  BY <1>2
<1>4. QED
  BY <1>3 DEF Lowest

LEMMA LowestIs ==
  ASSUME SpaceInv, NEW S \in SUBSET leaks, NEW k \in S,
         \A m \in S : k.address <= m.address
  PROVE  Lowest(S) = k
<1>1. Lowest(S) \in S /\ Lowest(S).address <= k.address
  BY LowestIsIn
<1>2. k.address <= Lowest(S).address
  BY <1>1
<1>3. k.address \in Nat /\ Lowest(S).address \in Nat
  BY <1>1, LeakType DEF SpaceInv
<1>4. k.address = Lowest(S).address
  BY <1>1, <1>2, <1>3
<1>5. QED
  BY <1>1, <1>4, AddressesDiffer

-----------------------------------------------------------------------------
(* The sum of the sizes of some leaks                                      *)

LEMMA SumOfNone ==
  Sum({}) = 0
BY FS_EmptySet DEF Sum

\* It fits into a std::size_t.
LEMMA SumFits ==
  ASSUME SpaceInv, NEW S \in SUBSET leaks
  PROVE  /\ IsFiniteSet(UNION {Block(k) : k \in S})
         /\ Sum(S) \in Nat /\ Sum(S) < AddressSpace
<1> DEFINE U == UNION {Block(k) : k \in S}
           all == 1 .. (AddressSpace - 1)
<1>1. U \subseteq all
  <2> SUFFICES ASSUME NEW k \in S, NEW a \in Block(k)
               PROVE  a \in all
    OBVIOUS
  <2>1. /\ k.address \in Nat \ {0} /\ k.size \in Nat /\ Extent(k) \in Nat
        /\ k.size <= Extent(k) /\ k.address + Extent(k) <= AddressSpace
    BY LeakType DEF SpaceInv
  <2>2. a \in Int /\ k.address <= a /\ a <= k.address + k.size - 1
    BY <2>1 DEF Block
  <2> QED BY <2>1, <2>2, SpaceAssumption
<1>2. /\ IsFiniteSet(all) /\ Cardinality(all) = AddressSpace - 1
  <2>1. 1 \in Int /\ AddressSpace - 1 \in Int
    BY SpaceAssumption
  <2>2. /\ IsFiniteSet(all)
        /\ Cardinality(all) = IF 1 > AddressSpace - 1 THEN 0
                              ELSE AddressSpace - 1 - 1 + 1
    BY <2>1, FS_Interval
  <2> QED BY <2>2, SpaceAssumption
<1> HIDE DEF U, all
<1>3. IsFiniteSet(U) /\ Cardinality(U) <= Cardinality(all)
  BY <1>1, <1>2, FS_Subset
<1>4. Cardinality(U) \in Nat
  BY <1>3, FS_CardinalityType
<1>5. QED
  BY <1>2, <1>3, <1>4, SpaceAssumption DEF Sum, U

\* It is what its name says: one more leak adds its size.
LEMMA SumOfOneMore ==
  ASSUME SpaceInv, NEW S \in SUBSET leaks, NEW l \in leaks \ S
  PROVE  Sum(S \cup {l}) = Sum(S) + l.size
<1> DEFINE U == UNION {Block(k) : k \in S}
<1>0. l.address \in Nat \ {0} /\ l.size \in Nat
  BY LeakType DEF SpaceInv
<1>1. UNION {Block(k) : k \in S \cup {l}} = U \cup Block(l)
  OBVIOUS
<1>2. U \cap Block(l) = {}
  <2> SUFFICES ASSUME NEW k \in S, NEW a \in Block(k), a \in Block(l)
               PROVE  FALSE
    OBVIOUS
  <2>1. k # l /\ k \in leaks
    OBVIOUS
  <2>2. Disjoint(k, l)
    BY <2>1 DEF SpaceInv
  <2>3. /\ k.address \in Nat /\ k.size \in Nat /\ Extent(k) \in Nat
        /\ k.size <= Extent(k)
        /\ l.size <= Extent(l) /\ Extent(l) \in Nat
    BY <2>1, LeakType DEF SpaceInv
  <2>4. /\ a \in Int /\ k.address <= a /\ a <= k.address + k.size - 1
        /\ l.address <= a /\ a <= l.address + l.size - 1
    BY <1>0, <2>3 DEF Block
  <2> QED BY <1>0, <2>2, <2>3, <2>4 DEF Disjoint
<1>3. IsFiniteSet(Block(l)) /\ Cardinality(Block(l)) = l.size
  <2> DEFINE a == l.address
             b == l.address + l.size - 1
  <2>1. a \in Int /\ b \in Int
    BY <1>0
  <2>2. /\ IsFiniteSet(a .. b)
        /\ Cardinality(a .. b) = IF a > b THEN 0 ELSE b - a + 1
    BY <2>1, FS_Interval
  <2> QED BY <1>0, <2>2 DEF Block
<1>4. IsFiniteSet(U)
  BY SumFits
<1> HIDE DEF U
<1>5. Cardinality(U \cup Block(l))
        = Cardinality(U) + Cardinality(Block(l)) - Cardinality(U \cap Block(l))
  BY <1>3, <1>4, FS_Union
<1>6. Cardinality(U) \in Nat /\ Cardinality(U \cap Block(l)) = 0
  BY <1>2, <1>4, FS_CardinalityType, FS_EmptySet
<1>7. Cardinality(U \cup Block(l)) = Cardinality(U) + l.size
  BY <1>0, <1>3, <1>5, <1>6
<1>8. QED
  BY <1>1, <1>7 DEF Sum, U

\* A size that is counted once more.
LEMMA OnceMore ==
  ASSUME NEW a \in Nat, NEW n \in Nat
  PROVE  a * (n + 1) = a * n + a
OBVIOUS

-----------------------------------------------------------------------------
(* The first loop                                                          *)

\* What there is of a leak that has been met.
LEMMA MetFacts ==
  ASSUME ReportInv
  PROVE  /\ Met \subseteq leaks /\ Met \subseteq Leak
         /\ \A l \in leaks : Same(l) \subseteq leaks /\ IsFiniteSet(Same(l))
         /\ \A l \in leaks : Cardinality(Same(l)) \in Nat
<1>1. Met \subseteq leaks /\ Met \subseteq Leak
  BY DEF Met, ReportInv, SpaceInv
<1>2. \A l \in leaks : Same(l) \subseteq leaks /\ IsFiniteSet(Same(l))
  BY <1>1, FS_Subset DEF Same, ReportInv, SpaceInv
<1>3. QED
  BY <1>1, <1>2, FS_CardinalityType

\* A group has the key of the leaks it stands for.
LEMMA GroupFacts ==
  ASSUME ReportInv, NEW l \in leaks, Same(l) # {}
  PROVE  /\ Lowest(Same(l)) \in Same(l)
         /\ \A m \in Same(l) : Lowest(Same(l)).address <= m.address
         /\ GroupOf(l).representative = Lowest(Same(l))
         /\ GroupOf(l).size = l.size
         /\ GroupOf(l).count = Cardinality(Same(l))
         /\ Key(GroupOf(l)) = <<l.size, l.trace>>
<1>1. /\ Lowest(Same(l)) \in Same(l)
      /\ \A m \in Same(l) : Lowest(Same(l)).address <= m.address
  BY MetFacts, LowestIsIn DEF ReportInv
<1>2. /\ GroupOf(l).representative = Lowest(Same(l))
      /\ GroupOf(l).size = l.size
      /\ GroupOf(l).count = Cardinality(Same(l))
  BY DEF GroupOf
<1>3. Lowest(Same(l)).trace = l.trace
  BY <1>1 DEF Same, Alike
<1>4. QED
  BY <1>1, <1>2, <1>3 DEF Key

\* Leaks that are alike have the same group, and others have not.
LEMMA AlikeGroups ==
  ASSUME ReportInv, NEW k \in Met, NEW l \in leaks
  PROVE  /\ k \in Same(k)
         /\ Alike(k, l) => k \in Same(l) /\ GroupOf(k) = GroupOf(l)
         /\ Key(GroupOf(k)) = <<l.size, l.trace>> <=> Alike(k, l)
<1>1. k \in Same(k)
  BY DEF Same, Alike
<1>2. Alike(k, l) => Same(k) = Same(l)
  BY DEF Same, Alike
<1>3. Key(GroupOf(k)) = <<k.size, k.trace>>
  BY <1>1, GroupFacts, MetFacts
<1>4. Alike(k, l) => GroupOf(k) = GroupOf(l)
  BY <1>2 DEF GroupOf, Alike
<1>5. QED
  BY <1>1, <1>2, <1>3, <1>4 DEF Alike

\* What it is for the groups that the loop meets one more leak.
LEMMA MeetSame ==
  ASSUME ReportInv, NEW l \in pending, Meet(l)
  PROVE  /\ l \in leaks /\ l \notin Met /\ Met' = Met \cup {l}
         /\ \A k \in leaks : Same(k)' = IF Alike(k, l) THEN Same(l) \cup {l}
                                        ELSE Same(k)
         /\ l \notin Same(l)
<1>1. l \in leaks /\ leaks' = leaks /\ pending' = pending \ {l}
  BY DEF Meet, ReportInv, LoopInv
<1>2. Met' = Met \cup {l} /\ l \notin Met
  BY <1>1 DEF Met
<1>3. QED
  BY <1>1, <1>2 DEF Same, Alike

\* The group of the leak is brought up to date.
LEMMA MergeIs ==
  ASSUME ReportInv, NEW l \in pending, Meet(l),
         NEW g, g = IF Same(l) = {}
                    THEN [representative |-> l, size |-> l.size, count |-> 0]
                    ELSE GroupOf(l)
  PROVE  Merge(g, l) = GroupOf(l)'
<1> DEFINE r == IF l.address < g.representative.address THEN l
                ELSE g.representative
<1>1. /\ l \in leaks /\ l \notin Same(l) /\ Same(l)' = Same(l) \cup {l}
      /\ SpaceInv /\ l.address \in Nat
  BY MeetSame, LeakType DEF Alike, ReportInv, SpaceInv
<1>2. Same(l) \subseteq leaks /\ IsFiniteSet(Same(l))
      /\ Cardinality(Same(l)) \in Nat
  BY <1>1, MetFacts
<1>3. /\ g.count = Cardinality(Same(l)) /\ g.size = l.size
      /\ g \in [representative : Leak, size : Nat, count : Nat]
  <2>0. l \in Leak /\ l.size \in Nat
    BY <1>1, LeakType DEF SpaceInv
  <2>1. CASE Same(l) = {}
    BY <2>0, <2>1, FS_EmptySet
  <2>2. CASE Same(l) # {}
    <3>1. Lowest(Same(l)) \in Leak
      BY <1>1, <2>2, GroupFacts, MetFacts DEF SpaceInv
    <3> QED BY <1>2, <2>0, <2>2, <3>1 DEF GroupOf
  <2> QED BY <2>1, <2>2
<1>4. Cardinality(Same(l)') = g.count + 1
  <2>1. Cardinality(Same(l) \cup {l}) = Cardinality(Same(l)) + 1
    BY <1>1, <1>2, FS_AddElement
  <2>2. Same(l)' = Same(l) \cup {l}
    BY <1>1
  <2> HIDE DEF Same
  <2> QED BY <1>3, <2>1, <2>2
<1>5. r \in Same(l)' /\ \A m \in Same(l)' : r.address <= m.address
  <2>1. CASE Same(l) = {}
    BY <1>1, <2>1
  <2>2. CASE Same(l) # {}
    <3>1. /\ g.representative \in Same(l)
          /\ \A m \in Same(l) : g.representative.address <= m.address
      BY <1>1, <2>2, GroupFacts
    <3>2. \A m \in Same(l) : m.address \in Nat
      BY <1>2, LeakType DEF ReportInv, SpaceInv
    <3> QED BY <1>1, <3>1, <3>2
  <2> QED BY <2>1, <2>2
<1>6. Same(l)' \in SUBSET leaks
  BY <1>1, <1>2
<1> HIDE DEF r
<1>7. Lowest(Same(l)') = r
  BY <1>1, <1>5, <1>6, LowestIs
<1>8. GroupOf(l)' = [representative |-> r, size |-> l.size,
                     count |-> g.count + 1]
  BY <1>4, <1>7 DEF GroupOf, Lowest
<1>9. Merge(g, l) = [representative |-> r, size |-> g.size,
                     count |-> g.count + 1]
  <2> DEFINE n == g.count + 1
  <2>1. Merge(g, l) = [g EXCEPT !.count = n, !.representative = r]
    BY DEF Merge, r
  <2>2. n \in Nat /\ r \in Leak
    BY <1>2, <1>3, <1>5, <1>6 DEF ReportInv, SpaceInv
  <2> HIDE DEF n
  <2> DEFINE h == [g EXCEPT !.count = n, !.representative = r]
  <2>3. /\ h \in [representative : Leak, size : Nat, count : Nat]
        /\ h.representative = r /\ h.size = g.size /\ h.count = n
    BY <1>3, <2>2
  <2> HIDE DEF h
  <2>4. h = [representative |-> r, size |-> g.size, count |-> n]
    BY <2>3
  <2> QED BY <2>1, <2>4 DEF n, h
<1>10. QED
  BY <1>3, <1>8, <1>9

\* The groups are what they should be after the step too.
LEMMA MeetGroups ==
  ASSUME ReportInv, NEW l \in pending, Meet(l), grouped = Groups
  PROVE  grouped' = Groups'
<1> DEFINE same == {g \in grouped : Key(g) = <<l.size, l.trace>>}
           new == [representative |-> l, size |-> l.size, count |-> 0]
           merged == {Merge(g, l) : g \in IF same = {} THEN {new} ELSE same}
<1>1. grouped' = (grouped \ same) \cup merged
  BY DEF Meet
<1>2. l \in leaks /\ l \notin Met /\ Met' = Met \cup {l}
  BY MeetSame
<1>3. \A k \in Met : /\ k \in leaks
                     /\ Alike(k, l) => GroupOf(k) = GroupOf(l)
                     /\ GroupOf(k) \in same <=> Alike(k, l)
                     /\ Alike(k, l) => k \in Same(l)
  BY <1>2, MetFacts, AlikeGroups DEF Groups
<1>4. ASSUME NEW k \in Met, ~Alike(k, l)
      PROVE  GroupOf(k)' = GroupOf(k)
  <2>1. Same(k)' = Same(k)
    BY <1>3, <1>4, MeetSame
  <2> QED BY <2>1 DEF GroupOf, Lowest
<1>5. ASSUME NEW k \in Met, Alike(k, l)
      PROVE  GroupOf(k)' = GroupOf(l)'
  <2>1. Same(k)' = Same(l)' /\ k.size = l.size
    <3>1. Same(k)' = Same(l) \cup {l}
      BY <1>3, <1>5, MeetSame
    <3>2. Same(l)' = Same(l) \cup {l}
      BY <1>2, MeetSame DEF Alike
    <3> QED BY <1>5, <3>1, <3>2 DEF Alike
  <2> QED BY <2>1 DEF GroupOf, Lowest
<1>6. same = IF Same(l) = {} THEN {} ELSE {GroupOf(l)}
  <2>1. same \subseteq {GroupOf(l)}
    BY <1>3 DEF Groups
  <2>2. Same(l) = {} => same = {}
    <3> SUFFICES ASSUME NEW g \in same
                 PROVE  Same(l) # {}
      OBVIOUS
    <3>1. PICK k \in Met : g = GroupOf(k)
      BY DEF Groups
    <3> QED BY <1>3, <3>1
  <2>3. Same(l) # {} => GroupOf(l) \in same
    <3> SUFFICES ASSUME NEW k \in Same(l)
                 PROVE  GroupOf(l) \in same
      OBVIOUS
    <3>1. k \in Met /\ Alike(k, l)
      BY DEF Same
    <3> QED BY <1>3, <3>1
  <2> QED BY <2>1, <2>2, <2>3
<1>7. merged = {GroupOf(l)'}
  <2>1. CASE Same(l) = {}
    <3>1. merged = {Merge(new, l)}
      BY <1>6, <2>1
    <3>2. Merge(new, l) = GroupOf(l)'
      BY <2>1, MergeIs
    <3> QED BY <3>1, <3>2
  <2>2. CASE Same(l) # {}
    <3>1. merged = {Merge(GroupOf(l), l)}
      BY <1>6, <2>2
    <3>2. Merge(GroupOf(l), l) = GroupOf(l)'
      BY <2>2, MergeIs
    <3> QED BY <3>1, <3>2
  <2> QED BY <2>1, <2>2
<1>8. Groups' = {GroupOf(k)' : k \in Met \cup {l}}
  BY <1>2 DEF Groups
<1> HIDE DEF same, merged
<1>9. ASSUME NEW g \in grouped \ same
      PROVE  g \in Groups'
  <2>1. PICK k \in Met : g = GroupOf(k)
    BY <1>9 DEF Groups
  <2>2. g = GroupOf(k)'
    BY <1>3, <1>4, <1>9, <2>1
  <2> QED BY <1>8, <2>2
<1>10. ASSUME NEW k \in Met
       PROVE  GroupOf(k)' \in (grouped \ same) \cup {GroupOf(l)'}
  <2>1. CASE Alike(k, l)
    BY <1>5, <2>1
  <2>2. CASE ~Alike(k, l)
    BY <1>3, <1>4, <2>2 DEF Groups
  <2> QED BY <2>1, <2>2
<1>11. GroupOf(l)' \in Groups'
  BY <1>8
<1>12. QED
  BY <1>1, <1>7, <1>8, <1>9, <1>10, <1>11

-----------------------------------------------------------------------------
(* The invariant is one                                                    *)

LEMMA ReportStart ==
  ASSUME Init
  PROVE  ReportInv
<1>1. SpaceInv /\ LoopInv /\ BytesInv /\ TotalIsExact
  BY FS_EmptySet DEF Init, SpaceInv, LoopInv, BytesInv, TotalIsExact
<1>2. PrintedInv
  BY DEF Init, PrintedInv
<1>3. QED
  BY <1>1, <1>2 DEF ReportInv

LEMMA SpaceStep ==
  ASSUME ReportInv, [Next]_vars
  PROVE  SpaceInv' /\ LoopInv'
<1> USE DEF ReportInv, SpaceInv, LoopInv
<1>1. ASSUME NEW l \in Leak, OnAllocate(l)
      PROVE  SpaceInv' /\ LoopInv'
  <2>1. leaks' = leaks \cup {l} /\ IsFiniteSet(leaks')
    BY <1>1, FS_AddElement DEF OnAllocate
  <2>2. \A k \in leaks : Disjoint(l, k) /\ Disjoint(k, l)
    BY <1>1 DEF OnAllocate, Disjoint
  <2> QED BY <1>1, <2>1, <2>2 DEF OnAllocate
<1>2. CASE Start
  BY <1>2 DEF Start
<1>3. ASSUME NEW l \in pending, Meet(l)
      PROVE  SpaceInv' /\ LoopInv'
  BY <1>3 DEF Meet
<1>4. CASE PrintGroup
  BY <1>4 DEF PrintGroup
<1>5. CASE UNCHANGED vars
  BY <1>5 DEF vars
<1>6. QED
  BY <1>1, <1>2, <1>3, <1>4, <1>5 DEF Next

\* While the loop does not go on, its results stay what they are.
LEMMA LoopStays ==
  ASSUME UNCHANGED <<leaks, pending>>
  PROVE  /\ Met' = Met /\ Groups' = Groups
         /\ \A l \in leaks : Same(l)' = Same(l)
BY DEF Met, Groups, GroupOf, Same

\* The total and the bytes of each group, when the loop meets a leak.
LEMMA TotalStep ==
  ASSUME ReportInv, [Next]_vars
  PROVE  TotalIsExact' /\ BytesInv'
<1>1. ASSUME NEW l \in Leak, OnAllocate(l)
      PROVE  TotalIsExact' /\ BytesInv'
  BY <1>1 DEF OnAllocate, TotalIsExact, BytesInv
<1>2. CASE Start
  <2>1. leaks' \ pending' = {} /\ Met' = {} /\ total' = 0
    BY <1>2 DEF Start, Met, ReportInv, LoopInv
  <2> QED BY <2>1, SumOfNone DEF TotalIsExact, BytesInv
<1>3. ASSUME NEW l \in pending, Meet(l)
      PROVE  TotalIsExact' /\ BytesInv'
  <2>1. /\ l \in leaks \ Met /\ Met' = Met \cup {l} /\ started /\ started'
        /\ leaks' = leaks /\ Met \subseteq leaks /\ l \notin Same(l)
        /\ total' = (total + l.size) % AddressSpace /\ total = Sum(Met)
    BY <1>3, MeetSame
       DEF Meet, ReportInv, LoopInv, TotalIsExact, Met
  <2>2. Sum(Met \cup {l}) = Sum(Met) + l.size
    BY <2>1, SumOfOneMore DEF ReportInv
  <2>3. Sum(Met \cup {l}) \in Nat /\ Sum(Met \cup {l}) < AddressSpace
    BY <2>1, SumFits DEF ReportInv
  <2>4. TotalIsExact'
    <3>1. total' = Sum(Met \cup {l})
      BY <2>1, <2>2, <2>3, SpaceAssumption
    <3>2. leaks' \ pending' = Met \cup {l}
      BY <2>1 DEF Met
    <3> QED BY <3>1, <3>2 DEF TotalIsExact
  <2>5. ASSUME NEW k \in Met'
        PROVE  k.size * Cardinality(Same(k)') = Sum(Same(k)')
    <3>1. k \in leaks
      BY <2>1
    <3>2. CASE ~Alike(k, l)
      <4>1. k \in Met
        BY <2>1, <3>2 DEF Alike
      <4>2. Same(k)' = Same(k)
        BY <1>3, <3>1, <3>2, MeetSame
      <4>3. k.size * Cardinality(Same(k)) = Sum(Same(k))
        BY <2>1, <4>1 DEF ReportInv, BytesInv
      <4> QED BY <4>2, <4>3
    <3>3. CASE Alike(k, l)
      <4>1. Same(k)' = Same(l) \cup {l}
        BY <1>3, <3>1, <3>3, MeetSame
      <4>2. Same(l) \in SUBSET leaks /\ l \in leaks \ Same(l)
            /\ IsFiniteSet(Same(l)) /\ Cardinality(Same(l)) \in Nat
        BY <2>1, MetFacts
      <4>3. l.size * Cardinality(Same(l)) = Sum(Same(l))
        <5>1. CASE Same(l) = {}
          <6>1. Cardinality(Same(l)) = 0 /\ Sum(Same(l)) = 0
            BY <5>1, SumOfNone, FS_EmptySet
          <6>2. l.size \in Nat
            BY <4>2, LeakType DEF ReportInv, SpaceInv
          <6> QED BY <6>1, <6>2
        <5>2. CASE Same(l) # {}
          <6>1. PICK m \in Met : Alike(m, l)
            BY <5>2 DEF Same
          <6>2. Same(m) = Same(l) /\ m.size = l.size
            BY <6>1 DEF Same, Alike
          <6>3. m.size * Cardinality(Same(m)) = Sum(Same(m))
            BY <2>1, <6>1 DEF ReportInv, BytesInv
          <6> QED BY <6>2, <6>3
        <5> QED BY <5>1, <5>2
      <4>4. Sum(Same(l) \cup {l}) = Sum(Same(l)) + l.size
        BY <4>2, SumOfOneMore DEF ReportInv
      <4>5. Cardinality(Same(l) \cup {l}) = Cardinality(Same(l)) + 1
        BY <4>2, FS_AddElement
      <4>6. l.size \in Nat /\ k.size = l.size
        BY <3>3, <4>2, LeakType DEF ReportInv, SpaceInv, Alike
      <4> DEFINE n == Cardinality(Same(l))
      <4>7. n \in Nat /\ l.size * n = Sum(Same(l))
        BY <4>2, <4>3
      <4> HIDE DEF n
      <4>8. l.size * (n + 1) = l.size * n + l.size
        BY <4>6, <4>7, OnceMore
      <4>9. l.size * (n + 1) = Sum(Same(l) \cup {l})
        BY <4>4, <4>7, <4>8
      <4> QED BY <4>1, <4>5, <4>6, <4>9 DEF n
    <3> QED BY <3>2, <3>3
  <2>6. BytesInv'
    BY <2>5 DEF BytesInv, Sum, Block
  <2> QED BY <2>4, <2>6
<1>4. CASE PrintGroup \/ UNCHANGED vars
  <2>1. UNCHANGED <<leaks, pending, started, total>>
    BY <1>4 DEF PrintGroup, vars
  <2>2. Met \subseteq leaks
    BY DEF Met
  <2> QED BY <2>1, <2>2, LoopStays DEF ReportInv, TotalIsExact, BytesInv
<1>5. QED
  BY <1>1, <1>2, <1>3, <1>4 DEF Next

-----------------------------------------------------------------------------
(* The second loop                                                         *)

\* What the comparator compares are numbers.
LEMMA GroupNumbers ==
  ASSUME ReportInv, NEW g \in Groups
  PROVE  /\ g.representative \in leaks
         /\ g.representative.address \in Nat
         /\ Bytes(g) \in Nat
         /\ Text(g) \in Entry
<1>1. PICK l \in Met : g = GroupOf(l)
  BY DEF Groups
<1>2. l \in leaks /\ Same(l) # {} /\ Same(l) \subseteq leaks
      /\ Cardinality(Same(l)) \in Nat
  BY MetFacts, AlikeGroups
<1>3. g.representative \in leaks
  BY <1>1, <1>2, GroupFacts
<1>4. g.size = l.size /\ g.count = Cardinality(Same(l))
  BY <1>1, <1>2, GroupFacts
<1>5. g.size \in Nat /\ g.count \in Nat /\ g.representative.address \in Nat
  BY <1>2, <1>3, <1>4, LeakType DEF ReportInv, SpaceInv
<1> DEFINE n == g.size * g.count
<1>6. n \in Nat
  BY <1>5
<1> HIDE DEF n
<1>7. n % AddressSpace \in Nat
  BY <1>6, SpaceAssumption
<1>8. g.representative.trace \in Trace
  BY <1>3, LeakType DEF ReportInv, SpaceInv
<1>9. QED
  BY <1>3, <1>5, <1>7, <1>8 DEF Bytes, n, Text, Entry

\* No two groups have the same address: the comparator orders any two.
LEMMA GroupsDiffer ==
  ASSUME ReportInv, NEW g \in Groups, NEW h \in Groups,
         g.representative.address = h.representative.address
  PROVE  g = h
<1>1. PICK k \in Met : g = GroupOf(k)
  BY DEF Groups
<1>2. PICK l \in Met : h = GroupOf(l)
  BY DEF Groups
<1>3. k \in leaks /\ l \in leaks /\ Same(k) # {} /\ Same(l) # {}
  BY MetFacts, AlikeGroups
<1>4. g.representative \in Same(k) /\ h.representative \in Same(l)
  BY <1>1, <1>2, <1>3, GroupFacts
<1>5. g.representative = h.representative
  BY GroupNumbers, AddressesDiffer DEF ReportInv
<1>6. Alike(k, l)
  BY <1>4, <1>5 DEF Same, Alike
<1>7. QED
  BY <1>1, <1>2, <1>3, <1>6, AlikeGroups

\* A group that no other comes before is before all others.
LEMMA FirstComesBefore ==
  ASSUME ReportInv, NEW g \in Groups, NEW h \in Groups \ {g}, ~Before(h, g)
  PROVE  LineBefore(Text(g), Text(h))
<1>1. g.representative.address # h.representative.address
  BY GroupsDiffer
<1>2. /\ g.representative.address \in Nat /\ h.representative.address \in Nat
      /\ Bytes(g) \in Nat /\ Bytes(h) \in Nat
  BY GroupNumbers
<1>3. \/ Bytes(g) > Bytes(h)
      \/ /\ Bytes(g) = Bytes(h)
         /\ g.representative.address < h.representative.address
  BY <1>1, <1>2 DEF Before
<1>4. /\ Text(g).bytes = Bytes(g) /\ Text(h).bytes = Bytes(h)
      /\ Text(g).address = g.representative.address
      /\ Text(h).address = h.representative.address
  BY DEF Text
<1>5. QED
  BY <1>3, <1>4 DEF LineBefore

\* What is printed is the group that no other comes before.
LEMMA PrintStep ==
  ASSUME ReportInv, PrintGroup
  PROVE  PrintedInv'
<1>1. PICK g \in grouped :
        /\ \A h \in grouped \ {g} : ~Before(h, g)
        /\ grouped' = grouped \ {g}
        /\ printed' = Append(printed, Text(g))
  BY DEF PrintGroup, Text
<1>2. /\ started /\ pending = {} /\ UNCHANGED <<leaks, started, pending>>
      /\ grouped \subseteq Groups /\ printed \in Seq(Entry)
  BY DEF PrintGroup, ReportInv, PrintedInv
<1> DEFINE n == Len(printed)
<1>3. /\ {printed[i] : i \in 1 .. n} = {Text(h) : h \in Groups \ grouped}
      /\ \A i, j \in 1 .. n : i < j => LineBefore(printed[i], printed[j])
      /\ \A i \in 1 .. n : \A h \in grouped : LineBefore(printed[i], Text(h))
  BY <1>2 DEF ReportInv, PrintedInv
<1>4. Groups' = Groups /\ grouped' \subseteq Groups'
  BY <1>1, <1>2, LoopStays
<1>5. Text(g) \in Entry
  BY <1>1, <1>2, GroupNumbers
<1>6. /\ Len(printed') = n + 1 /\ printed' \in Seq(Entry)
      /\ \A i \in 1 .. n : printed'[i] = printed[i]
      /\ printed'[n + 1] = Text(g)
  BY <1>1, <1>2, <1>5
<1> HIDE DEF n
<1>7. n \in Nat
  BY <1>2 DEF n
<1>8. {printed'[i] : i \in 1 .. (n + 1)}
        = {printed[i] : i \in 1 .. n} \cup {Text(g)}
  <2>1. 1 .. (n + 1) = 1 .. n \cup {n + 1}
    BY <1>7
  <2> QED BY <1>6, <2>1
<1>9. Groups' \ grouped' = (Groups \ grouped) \cup {g}
  BY <1>1, <1>2, <1>4
<1>10. {printed'[i] : i \in 1 .. (n + 1)}
         = {Text(h) : h \in Groups' \ grouped'}
  BY <1>3, <1>8, <1>9
<1>11. \A i, j \in 1 .. (n + 1) : i < j => LineBefore(printed'[i], printed'[j])
  <2> SUFFICES ASSUME NEW i \in 1 .. (n + 1), NEW j \in 1 .. (n + 1), i < j
               PROVE  LineBefore(printed'[i], printed'[j])
    OBVIOUS
  <2>1. i \in 1 .. n
    BY <1>7
  <2>2. CASE j = n + 1
    BY <1>3, <1>6, <2>1, <2>2
  <2>3. CASE j # n + 1
    <3>1. j \in 1 .. n
      BY <1>7, <2>3
    <3> QED BY <1>3, <1>6, <2>1, <3>1
  <2> QED BY <2>2, <2>3
<1>12. \A i \in 1 .. (n + 1) : \A h \in grouped' :
         LineBefore(printed'[i], Text(h))
  <2> SUFFICES ASSUME NEW i \in 1 .. (n + 1), NEW h \in grouped'
               PROVE  LineBefore(printed'[i], Text(h))
    OBVIOUS
  <2>1. h \in grouped \ {g} /\ g \in Groups /\ h \in Groups \ {g}
    BY <1>1, <1>2
  <2>2. CASE i = n + 1
    BY <1>1, <1>6, <2>1, <2>2, FirstComesBefore
  <2>3. CASE i # n + 1
    <3>1. i \in 1 .. n
      BY <1>7, <2>3
    <3> QED BY <1>3, <1>6, <2>1, <3>1
  <2> QED BY <2>2, <2>3
<1>13. \A h : Text(h)' = Text(h)
  BY DEF Text, Bytes
<1>14. QED
  BY <1>2, <1>4, <1>6, <1>7, <1>10, <1>11, <1>12 DEF PrintedInv, LineBefore,
     Text, Bytes

LEMMA PrintedStep ==
  ASSUME ReportInv, [Next]_vars
  PROVE  PrintedInv'
<1>1. ASSUME NEW l \in Leak, OnAllocate(l)
      PROVE  PrintedInv'
  BY <1>1 DEF OnAllocate, ReportInv, LoopInv, PrintedInv
<1>2. CASE Start
  <2>1. Met' = {} /\ Groups' = {}
    BY <1>2 DEF Start, Met, Groups
  <2>2. grouped' = {} /\ printed' = <<>>
    BY <1>2 DEF Start, ReportInv, LoopInv
  <2>3. printed' \in Seq(Entry) /\ Len(printed') = 0
    BY <2>2
  <2> QED BY <2>1, <2>2, <2>3 DEF PrintedInv
<1>3. ASSUME NEW l \in pending, Meet(l)
      PROVE  PrintedInv'
  <2>1. /\ started /\ printed = <<>> /\ printed' = <<>>
        /\ grouped \subseteq Groups
        /\ {printed[i] : i \in 1 .. Len(printed)}
             = {Text(g) : g \in Groups \ grouped}
    BY <1>3 DEF Meet, ReportInv, LoopInv, PrintedInv
  <2>2. {Text(g) : g \in Groups \ grouped} = {}
    BY <2>1
  <2>3. grouped = Groups
    BY <2>1, <2>2
  <2>4. grouped' = Groups'
    BY <1>3, <2>3, MeetGroups
  <2>5. printed' \in Seq(Entry) /\ Len(printed') = 0
    BY <2>1
  <2> QED BY <2>1, <2>4, <2>5 DEF PrintedInv
<1>4. CASE PrintGroup
  BY <1>4, PrintStep
<1>5. CASE UNCHANGED vars
  <2>1. UNCHANGED <<leaks, pending, started, grouped, printed>>
    BY <1>5 DEF vars
  <2>2. Groups' = Groups
    BY <2>1, LoopStays
  <2> QED BY <2>1, <2>2 DEF ReportInv, PrintedInv, LineBefore, Text, Bytes
<1>6. QED
  BY <1>1, <1>2, <1>3, <1>4, <1>5 DEF Next

-----------------------------------------------------------------------------
(* The report                                                              *)

\* When the loop is done, the group of a leak says what its line should.
LEMMA TextIsLine ==
  ASSUME ReportInv, started, pending = {}, NEW l \in leaks
  PROVE  Text(GroupOf(l)) = Line(l)
<1> DEFINE g == GroupOf(l)
           lowest == Lowest(Same(l))
           addresses == {k.address : k \in Repeats(l)}
<1>1. Met = leaks /\ Same(l) = Repeats(l)
  BY DEF Met, Same, Alike, Repeats
<1>2. /\ l \in Met /\ Same(l) # {} /\ Same(l) \subseteq leaks
      /\ Cardinality(Same(l)) \in Nat
  BY <1>1, AlikeGroups, MetFacts
<1>3. /\ lowest \in Same(l) /\ \A m \in Same(l) : lowest.address <= m.address
      /\ g.representative = lowest /\ g.size = l.size
      /\ g.count = Cardinality(Same(l))
  BY <1>2, GroupFacts
<1>4. Min(addresses) = lowest.address
  <2>1. /\ lowest.address \in addresses
        /\ \A a \in addresses : lowest.address <= a
    BY <1>1, <1>3
  <2>2. addresses \subseteq Nat
    BY <1>1, <1>2, LeakType DEF ReportInv, SpaceInv
  <2> HIDE DEF lowest, addresses
  <2> DEFINE least == Min(addresses)
  <2>3. least \in addresses /\ \A a \in addresses : least <= a
    BY <2>1 DEF Min
  <2> HIDE DEF least
  <2>4. least <= lowest.address /\ lowest.address <= least
    BY <2>1, <2>3
  <2>5. least \in Nat /\ lowest.address \in Nat
    BY <2>1, <2>2, <2>3
  <2>6. least = lowest.address
    BY <2>4, <2>5
  <2> QED BY <2>6 DEF least
<1>5. lowest.trace = l.trace
  BY <1>3 DEF Same, Alike
<1>6. Bytes(g) = Sum(Same(l))
  <2>1. g.size * g.count = Sum(Same(l))
    BY <1>2, <1>3 DEF ReportInv, BytesInv
  <2>2. Sum(Same(l)) \in Nat /\ Sum(Same(l)) < AddressSpace
    BY <1>2, SumFits DEF ReportInv
  <2>3. Sum(Same(l)) % AddressSpace = Sum(Same(l))
    BY <2>2, SpaceAssumption
  <2> QED BY <2>1, <2>3 DEF Bytes
<1> HIDE DEF g, lowest, addresses
<1>7. Text(g) = [address |-> lowest.address, trace |-> l.trace,
                 size |-> l.size, count |-> Cardinality(Same(l)),
                 bytes |-> Sum(Same(l))]
  BY <1>3, <1>5, <1>6 DEF Text
<1>8. QED
  BY <1>1, <1>4, <1>7 DEF Line, g, addresses

\* Lines that are printed one before another are different, so there are as
\* many as there are different ones.
LEMMA AsManyLines ==
  ASSUME ReportInv, started
  PROVE  Len(printed) = Cardinality({printed[i] : i \in 1 .. Len(printed)})
<1> DEFINE n == Len(printed)
           S == {printed[i] : i \in 1 .. n}
<1>1. /\ printed \in Seq(Entry)
      /\ \A i, j \in 1 .. n : i < j => LineBefore(printed[i], printed[j])
  BY DEF ReportInv, PrintedInv
<1>2. n \in Nat /\ printed \in [1 .. n -> Entry]
  BY <1>1
<1> HIDE DEF n
<1>3. \A p \in Entry : ~LineBefore(p, p)
  BY DEF LineBefore, Entry
<1>4. ASSUME NEW i \in 1 .. n, NEW j \in 1 .. n, printed[i] = printed[j]
      PROVE  i = j
  <2>1. ~(i < j) /\ ~(j < i)
    BY <1>1, <1>2, <1>3, <1>4
  <2> QED BY <1>2, <2>1
<1>5. printed \in [1 .. n -> S]
  BY <1>2
<1>6. \A s \in S : \E i \in 1 .. n : printed[i] = s
  OBVIOUS
<1> HIDE DEF S
<1>7. printed \in Bijection(1 .. n, S)
  BY <1>4, <1>5, <1>6
     DEF Bijection, Injection, Surjection, IsInjective
<1>8. ExistsBijection(1 .. n, S)
  BY <1>7 DEF ExistsBijection
<1>9. Cardinality(S) = n
  BY <1>2, <1>8, FS_CountingElements
<1>10. QED
  BY <1>9 DEF n, S

LEMMA ReportIsRight ==
  ASSUME ReportInv
  PROVE  Deterministic
<1> SUFFICES ASSUME Done
             PROVE  /\ {printed[i] : i \in 1 .. Len(printed)} = Lines
                    /\ Len(printed) = Cardinality(Lines)
                    /\ \A i, j \in 1 .. Len(printed) :
                         i < j => LineBefore(printed[i], printed[j])
  BY DEF Deterministic, LineBefore
<1>1. started /\ pending = {} /\ grouped = {} /\ Met = leaks
  BY DEF Done, Met
<1>2. /\ {printed[i] : i \in 1 .. Len(printed)} = {Text(g) : g \in Groups}
      /\ \A i, j \in 1 .. Len(printed) :
           i < j => LineBefore(printed[i], printed[j])
  BY <1>1 DEF ReportInv, PrintedInv
<1>3. \A l \in leaks : Text(GroupOf(l)) = Line(l)
  BY <1>1, TextIsLine
<1>4. {Text(g) : g \in Groups} = Lines
  BY <1>1, <1>3 DEF Groups, Lines
<1>5. QED
  BY <1>1, <1>2, <1>4, AsManyLines

-----------------------------------------------------------------------------
(* The theorems                                                            *)

LEMMA Invariance ==
  Spec => []ReportInv
<1>1. Init => ReportInv
  BY ReportStart
<1>2. ReportInv /\ [Next]_vars => ReportInv'
  BY SpaceStep, TotalStep, PrintedStep DEF ReportInv
<1>3. QED
  BY <1>1, <1>2, PTL DEF Spec

\* The report is the same whatever the order in which the hash table gives the
\* leaks: a line for every leak and its repeats, with their number, their
\* bytes and their lowest address, the biggest first (Tracker.cpp:111-170).
THEOREM ReportIsDeterministic ==
  Spec => []Deterministic
<1>1. ReportInv => Deterministic
  BY ReportIsRight
<1>2. QED
  BY <1>1, Invariance, PTL

\* The total counts every leak, and never wraps (Tracker.cpp:111-126).
THEOREM TotalNeverWraps ==
  Spec => []TotalIsExact
<1>1. ReportInv => TotalIsExact
  BY DEF ReportInv
<1>2. QED
  BY <1>1, Invariance, PTL

==============================================================================
