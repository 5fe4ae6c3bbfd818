-------------------------- MODULE IatPatchingProofs --------------------------
(***************************************************************************)
(* The safety properties of IatPatching, proved for any threads, modules   *)
(* and import tables, and any number of refusals of VirtualProtect.        *)
(***************************************************************************)
EXTENDS IatPatching, FiniteSetTheorems, TLAPS

-----------------------------------------------------------------------------
(* The inductive invariant, in named parts                                 *)

\* A slot is as ReturnedIsPatched wants it.
Settled(m, f) ==
  (Kind[f] = "Heap" => StaticCrt(m)) =>
    slots[m][f] = "hook" \/ <<m, f>> \in refused

Visited(m) == \A f \in Imports[m] \cap patches : Settled(m, f)

\* Before install() nothing has happened.
StartInv ==
  patches = {} =>
    /\ due = {}
    /\ \A t \in Thread : pc[t] = "run"
    /\ \A m \in Listed : Bound(m)

\* What a thread loads is listed from the moment the loader has mapped it, and
\* bound from the moment the real LoadLibrary has returned.
Loading(t) ==
  /\ pc[t] \in {"bind", "acquire", "walk", "patch"} => wanted[t] \subseteq Listed
  /\ pc[t] \in {"acquire", "walk", "patch"} => \A m \in wanted[t] : Bound(m)

\* Where a pass has been, what it is to patch is settled.
Passing(t) ==
  pc[t] \in {"walk", "patch"} =>
    /\ pos[t] <= Len(list) + 1
    /\ \A i \in 1 .. Len(list) :
         i < pos[t] /\ list[i] \in wanted[t] \ {Self} => Visited(list[i])

\* So are the slots it has visited in the module where it is, and its verdict
\* leaves out no heap slot that has still to be patched.
Patching(t) ==
  pc[t] = "patch" =>
    /\ list[pos[t]] # Self
    /\ list[pos[t]] \in wanted[t] =>
         \A f \in Imports[list[pos[t]]] \cap patches :
           /\ f \notin todo[t] => Settled(list[pos[t]], f)
           /\ StaticCrt(list[pos[t]]) /\ ~carrier[t] /\ Kind[f] = "Heap" =>
                slots[list[pos[t]]][f] = "hook"

PassInv == \A t \in Thread : Loading(t) /\ Passing(t) /\ Patching(t)

\* No pass hooks the heap calls of a module in the Windows directory.
SystemInv ==
  /\ \A m \in Module : \A f \in Imports[m] :
       Kind[f] = "Heap" /\ slots[m][f] = "hook" => m \notin System
  /\ \A t \in Thread :
       pc[t] = "patch" /\ carrier[t] => list[pos[t]] \notin System

-----------------------------------------------------------------------------
(* Types                                                                   *)

\* An order of new modules is a sequence of them that leaves none out.
LEMMA OrderIsSequence ==
  ASSUME NEW S \in SUBSET Module, IsFiniteSet(S), NEW order \in Orders(S)
  PROVE  /\ order \in Seq(Module)
         /\ \A m \in S : \E i \in 1 .. Len(order) : order[i] = m
<1>1. Cardinality(S) \in Nat
  BY FS_CardinalityType
<1>2. order \in [1 .. Cardinality(S) -> Module]
  BY DEF Orders
<1>3. order \in Seq(Module) /\ Len(order) = Cardinality(S)
  BY <1>1, <1>2
<1>4. QED
  BY <1>3 DEF Orders

LEMMA InitTypeOK == Init => TypeOK
<1> SUFFICES ASSUME Init PROVE TypeOK
  OBVIOUS
<1> USE IatAssumption
<1>1. slots = [m \in Module |-> slots[m]]
  BY DEF Init
<1>2. \A m \in Module : slots[m] \in [Imports[m] -> {"unbound", "real", "hook"}]
  BY DEF Init
<1>3. list \in Seq(Module)
  BY DEF Init
<1>4. \A t \in Thread : /\ pc[t] \in {"walk", "patch"} <=> patchLock = t
                        /\ pc[t] = "bind" <=> loaderLock = t
  BY DEF Init
<1>5. QED
  BY <1>1, <1>2, <1>3, <1>4 DEF Init, TypeOK

\* What the loader maps is appended to the list.
LEMMA MapAppends ==
  ASSUME TypeOK, NEW t \in Thread, MapModules(t)
  PROVE  /\ list' \in Seq(Module)
         /\ Len(list) <= Len(list')
         /\ \A i \in 1 .. Len(list) : list'[i] = list[i]
         /\ wanted[t] \subseteq Listed'
         /\ Listed \subseteq Listed'
<1>1. PICK m \in Loadable :
        /\ wanted[t] = Brings[m]
        /\ \E order \in Orders(Brings[m] \ Listed) : list' = list \o order
  BY DEF MapModules
<1>2. PICK order \in Orders(Brings[m] \ Listed) : list' = list \o order
  BY <1>1
<1>3. Brings[m] \subseteq Module /\ IsFiniteSet(Brings[m])
  BY IatAssumption
<1>4. IsFiniteSet(Brings[m] \ Listed)
  BY <1>3, FS_Subset
<1>5. /\ order \in Seq(Module)
      /\ \A k \in Brings[m] \ Listed : \E i \in 1 .. Len(order) : order[i] = k
  BY <1>3, <1>4, OrderIsSequence
<1>6. list \in Seq(Module)
  BY DEF TypeOK
<1>7. /\ list' \in Seq(Module)
      /\ Len(list') = Len(list) + Len(order)
      /\ \A i \in 1 .. Len(list) : list'[i] = list[i]
      /\ \A i \in 1 .. Len(order) : list'[Len(list) + i] = order[i]
  BY <1>2, <1>5, <1>6
<1>8. Listed \subseteq Listed'
  BY <1>6, <1>7 DEF Listed
<1>9. ASSUME NEW k \in Brings[m] \ Listed PROVE k \in Listed'
  <2>1. PICK i \in 1 .. Len(order) : order[i] = k
    BY <1>5
  <2>2. Len(list) + i \in 1 .. Len(list') /\ list'[Len(list) + i] = k
    BY <1>5, <1>6, <1>7, <2>1
  <2>3. QED
    BY <2>2 DEF Listed
<1>10. QED
  BY <1>1, <1>6, <1>7, <1>8, <1>9

\* One slot is written, and the others are as before.
LEMMA SlotWritten ==
  ASSUME TypeOK, NEW m \in Module, NEW f \in Imports[m],
         NEW v \in {"unbound", "real", "hook"},
         slots' = [slots EXCEPT ![m][f] = v]
  PROVE  /\ slots' = [k \in Module |-> slots'[k]]
         /\ \A k \in Module :
              slots'[k] \in [Imports[k] -> {"unbound", "real", "hook"}]
         /\ \A k \in Module : \A g \in Imports[k] :
              slots'[k][g] = IF k = m /\ g = f THEN v ELSE slots[k][g]
<1>1. slots = [k \in Module |-> slots[k]]
  BY DEF TypeOK
<1>2. \A k \in Module :
        slots[k] \in [Imports[k] -> {"unbound", "real", "hook"}]
  BY DEF TypeOK
<1>3. slots' = [k \in Module |->
                 IF k = m THEN [slots[m] EXCEPT ![f] = v] ELSE slots[k]]
  BY <1>1
<1>4. \A k \in Module :
        slots'[k] = IF k = m THEN [slots[m] EXCEPT ![f] = v] ELSE slots[k]
  BY <1>3
<1>5. slots' = [k \in Module |-> slots'[k]]
  BY <1>3
<1>6. \A k \in Module :
        slots'[k] \in [Imports[k] -> {"unbound", "real", "hook"}]
  BY <1>2, <1>4
<1>7. \A k \in Module : \A g \in Imports[k] :
        slots'[k][g] = IF k = m /\ g = f THEN v ELSE slots[k][g]
  BY <1>2, <1>4
<1>8. QED
  BY <1>5, <1>6, <1>7

\* Each lock is owned by the thread in its critical section, for any number of
\* threads (AllocHooks.cpp:470-480).
THEOREM TypeCorrect == Spec => []TypeOK
<1>1. TypeOK /\ [Next]_vars => TypeOK'
  <2> SUFFICES ASSUME TypeOK, [Next]_vars PROVE TypeOK'
    OBVIOUS
  <2> USE IatAssumption DEF TypeOK, loader
  <2>1. ASSUME NEW t \in Thread, Install(t) PROVE TypeOK'
    BY <2>1 DEF Install, Resolved, Listed
  <2>2. ASSUME NEW t \in Thread, NEW m \in Loadable, LoadLibrary(t, m)
        PROVE  TypeOK'
    BY <2>2 DEF LoadLibrary
  <2>3. ASSUME NEW t \in Thread, LoadFails(t) PROVE TypeOK'
    BY <2>3 DEF LoadFails
  <2>4. ASSUME NEW t \in Thread, MapModules(t) PROVE TypeOK'
    <3>1. /\ list' \in Seq(Module)
          /\ Len(list) <= Len(list')
          /\ \A i \in 1 .. Len(list) : list'[i] = list[i]
      BY <2>4, MapAppends
    <3>2. \A u \in Thread : pc'[u] = "patch" =>
            pos'[u] <= Len(list') /\ todo'[u] \subseteq Imports[list'[pos'[u]]]
      BY <2>4, <3>1 DEF MapModules
    <3>3. QED
      BY <2>4, <3>1, <3>2 DEF MapModules
  <2>5. ASSUME NEW t \in Thread, BindSlot(t) PROVE TypeOK'
    <3>1. PICK m \in wanted[t] : \E f \in Imports[m] :
            slots' = [slots EXCEPT ![m][f] = "real"]
      BY <2>5 DEF BindSlot
    <3>2. PICK f \in Imports[m] : slots' = [slots EXCEPT ![m][f] = "real"]
      BY <3>1
    <3>3. /\ slots' = [k \in Module |-> slots'[k]]
          /\ \A k \in Module :
               slots'[k] \in [Imports[k] -> {"unbound", "real", "hook"}]
      BY <3>2, SlotWritten
    <3>4. QED
      BY <2>5, <3>3 DEF BindSlot
  <2>6. ASSUME NEW t \in Thread, Loaded(t) PROVE TypeOK'
    BY <2>6 DEF Loaded
  <2>7. ASSUME NEW t \in Thread, Acquire(t) PROVE TypeOK'
    BY <2>7 DEF Acquire
  <2>8. ASSUME NEW t \in Thread, SkipSelf(t) PROVE TypeOK'
    BY <2>8 DEF SkipSelf
  <2>9. ASSUME NEW t \in Thread, Classify(t) PROVE TypeOK'
    BY <2>9 DEF Classify, IsStaticCrtCarrier, IsSystemModule
  <2>10. ASSUME NEW t \in Thread, NEW f \in Function, PatchSlot(t, f)
         PROVE  TypeOK'
    <3> DEFINE m == list[pos[t]]
    <3> m \in Module /\ f \in Imports[m]
      BY <2>10 DEF PatchSlot
    <3>1. CASE slots' = [slots EXCEPT ![m][f] = "hook"]
      <4>1. /\ slots' = [k \in Module |-> slots'[k]]
            /\ \A k \in Module :
                 slots'[k] \in [Imports[k] -> {"unbound", "real", "hook"}]
        BY <3>1, SlotWritten
      <4>2. QED
        BY <2>10, <4>1 DEF PatchSlot
    <3>2. CASE slots' = slots
      BY <2>10, <3>2 DEF PatchSlot
    <3>3. QED
      BY <2>10, <3>1, <3>2 DEF PatchSlot
  <2>11. ASSUME NEW t \in Thread, Patched(t) PROVE TypeOK'
    BY <2>11 DEF Patched
  <2>12. ASSUME NEW t \in Thread, End(t) PROVE TypeOK'
    BY <2>12 DEF End
  <2>13. CASE UNCHANGED vars
    BY <2>13 DEF vars
  <2>14. QED
    BY <2>1, <2>2, <2>3, <2>4, <2>5, <2>6, <2>7, <2>8, <2>9, <2>10, <2>11,
       <2>12, <2>13 DEF Next, Step
<1>2. QED
  BY InitTypeOK, <1>1, PTL DEF Spec

-----------------------------------------------------------------------------
(* Every module whose LoadLibrary has returned is patched                  *)

\* The list only grows, at its end; the table is filled once; a slot that is
\* bound stays bound, one that is patched stays patched, and one that was
\* refused stays refused until it is patched.
LEMMA NothingIsUndone ==
  ASSUME TypeOK, [Next]_vars
  PROVE  /\ list' \in Seq(Module)
         /\ Len(list) <= Len(list')
         /\ \A i \in 1 .. Len(list) : list'[i] = list[i]
         /\ Listed \subseteq Listed'
         /\ patches # {} => patches' = patches
         /\ \A m \in Module : \A f \in Imports[m] :
              /\ slots[m][f] # "unbound" => slots'[m][f] # "unbound"
              /\ slots[m][f] = "hook" => slots'[m][f] = "hook"
              /\ <<m, f>> \in refused =>
                   slots'[m][f] = "hook" \/ <<m, f>> \in refused'
<1> DEFINE ListGrows == /\ list' \in Seq(Module)
                        /\ Len(list) <= Len(list')
                        /\ \A i \in 1 .. Len(list) : list'[i] = list[i]
                        /\ Listed \subseteq Listed'
           SlotsGrow ==
             \A m \in Module : \A f \in Imports[m] :
               /\ slots[m][f] # "unbound" => slots'[m][f] # "unbound"
               /\ slots[m][f] = "hook" => slots'[m][f] = "hook"
               /\ <<m, f>> \in refused =>
                    slots'[m][f] = "hook" \/ <<m, f>> \in refused'
<1>1. ListGrows
  <2>1. ASSUME NEW t \in Thread, MapModules(t) PROVE ListGrows
    BY <2>1, MapAppends
  <2>2. CASE list' = list
    BY <2>2 DEF TypeOK, Listed
  <2>3. QED
    BY <2>1, <2>2
       DEF Next, Step, vars, loader, Install, LoadLibrary, LoadFails, BindSlot,
           Loaded, Acquire, SkipSelf, Classify, PatchSlot, Patched, End
<1>2. patches # {} => patches' = patches
  BY DEF Next, Step, vars, loader, Install, LoadLibrary, LoadFails, MapModules,
         BindSlot, Loaded, Acquire, SkipSelf, Classify, PatchSlot, Patched, End
<1>3. SlotsGrow
  <2>1. ASSUME NEW t \in Thread, BindSlot(t) PROVE SlotsGrow
    <3>1. PICK m \in wanted[t] : \E f \in Imports[m] :
            slots[m][f] = "unbound" /\ slots' = [slots EXCEPT ![m][f] = "real"]
      BY <2>1 DEF BindSlot
    <3>2. PICK f \in Imports[m] :
            slots[m][f] = "unbound" /\ slots' = [slots EXCEPT ![m][f] = "real"]
      BY <3>1
    <3>3. m \in Module
      BY DEF TypeOK
    <3>4. \A k \in Module : \A g \in Imports[k] :
            slots'[k][g] = IF k = m /\ g = f THEN "real" ELSE slots[k][g]
      BY <3>2, <3>3, SlotWritten
    <3>5. refused' = refused
      BY <2>1 DEF BindSlot
    <3>6. QED
      BY <3>2, <3>4, <3>5
  <2>2. ASSUME NEW t \in Thread, NEW f \in Function, PatchSlot(t, f)
        PROVE  SlotsGrow
    <3> DEFINE m == list[pos[t]]
    <3>1. m \in Module /\ f \in Imports[m]
      BY <2>2 DEF PatchSlot, TypeOK
    <3>2. CASE /\ slots' = [slots EXCEPT ![m][f] = "hook"]
               /\ refused' = refused \ {<<m, f>>}
      <4>1. \A k \in Module : \A g \in Imports[k] :
              slots'[k][g] = IF k = m /\ g = f THEN "hook" ELSE slots[k][g]
        BY <3>1, <3>2, SlotWritten
      <4>2. QED
        BY <3>1, <3>2, <4>1
    <3>3. CASE slots' = slots /\ refused \subseteq refused'
      BY <3>3
    <3>4. QED
      BY <2>2, <3>2, <3>3 DEF PatchSlot
  <2>3. CASE slots' = slots /\ refused' = refused
    BY <2>3
  <2>4. QED
    BY <2>1, <2>2, <2>3
       DEF Next, Step, vars, loader, Install, LoadLibrary, LoadFails, MapModules,
           Loaded, Acquire, SkipSelf, Classify, Patched, End
<1>4. QED
  BY <1>1, <1>2, <1>3

\* What is settled stays so.
LEMMA StaysSettled ==
  ASSUME TypeOK, [Next]_vars, patches # {}
  PROVE  /\ patches' = patches
         /\ \A m \in Module : Bound(m) => Bound(m)'
         /\ \A m \in Module : StaticCrt(m)' <=> StaticCrt(m)
         /\ \A m \in Module : \A f \in Imports[m] : Settled(m, f) => Settled(m, f)'
         /\ \A m \in Module : Visited(m) => Visited(m)'
<1>1. patches' = patches
  BY NothingIsUndone
<1>2. \A m \in Module : StaticCrt(m)' <=> StaticCrt(m)
  BY <1>1 DEF StaticCrt
<1>3. \A m \in Module : Bound(m) => Bound(m)'
  BY NothingIsUndone DEF Bound
<1>4. \A m \in Module : \A f \in Imports[m] : Settled(m, f) => Settled(m, f)'
  BY <1>2, NothingIsUndone DEF Settled
<1>5. QED
  BY <1>1, <1>2, <1>3, <1>4 DEF Visited

\* install() begins with nothing done and with every listed module bound.
LEMMA TableIsFilledFirst == Spec => []StartInv
<1>1. Init => StartInv
  <2> SUFFICES ASSUME Init, NEW m \in Listed PROVE Bound(m)
    BY DEF Init, StartInv
  <2>1. PICK i \in 1 .. Len(Preloaded) : Preloaded[i] = m
    BY DEF Init, Listed
  <2>2. m \in Module
    BY <2>1, IatAssumption
  <2>3. QED
    BY <2>1, <2>2 DEF Init, Bound
<1>2. TypeOK /\ StartInv /\ [Next]_vars => StartInv'
  <2> SUFFICES ASSUME TypeOK, StartInv, [Next]_vars, patches' = {}
               PROVE  StartInv'
    BY DEF StartInv
  <2>1. patches = {}
    BY NothingIsUndone
  <2>2. ~ \E t \in Thread : Install(t)
    <3> SUFFICES ASSUME NEW t \in Thread, Install(t) PROVE FALSE
      OBVIOUS
    <3>1. Load \in patches'
      BY IatAssumption DEF Install, Resolved
    <3>2. QED
      BY <3>1
  <2>3. UNCHANGED vars
    BY <2>1, <2>2
       DEF StartInv, Next, Step, LoadLibrary, LoadFails, MapModules, BindSlot,
           Loaded, Acquire, SkipSelf, Classify, PatchSlot, Patched, End
  <2>4. QED
    BY <2>3 DEF StartInv, vars, Listed, Bound
<1>3. QED
  BY <1>1, <1>2, TypeCorrect, PTL DEF Spec

\* A thread that does not move is not disturbed by those that do.
LEMMA OthersPass ==
  ASSUME TypeOK, [Next]_vars, patches # {}, NEW u \in Thread,
         Loading(u), Passing(u), Patching(u),
         pc'[u] = pc[u], pos'[u] = pos[u], wanted'[u] = wanted[u],
         carrier'[u] = carrier[u], todo'[u] = todo[u]
  PROVE  Loading(u)' /\ Passing(u)' /\ Patching(u)'
<1>1. Loading(u)'
  BY StaysSettled, NothingIsUndone DEF Loading, TypeOK
<1>2. Passing(u)'
  <2> SUFFICES ASSUME pc[u] \in {"walk", "patch"}
               PROVE  Passing(u)'
    BY DEF Passing
  <2>1. /\ list \in Seq(Module) /\ list' \in Seq(Module)
        /\ pos[u] \in Nat /\ pos[u] <= Len(list) + 1
    BY NothingIsUndone DEF Passing, TypeOK
  <2>2. pos[u] <= Len(list') + 1
    BY <2>1, NothingIsUndone
  <2>3. ASSUME NEW i \in 1 .. Len(list'), i < pos[u],
               NEW m \in wanted[u] \ {Self}, m = list'[i]
        PROVE  Visited(m)'
    <3>1. i \in 1 .. Len(list) /\ m = list[i] /\ m \in Module
      BY <2>1, <2>3, NothingIsUndone
    <3>2. Visited(m)
      BY <2>3, <3>1 DEF Passing
    <3>3. QED
      BY <3>1, <3>2, StaysSettled
  <2>4. QED
    BY <2>2, <2>3 DEF Passing
<1>3. Patching(u)'
  <2> SUFFICES ASSUME pc[u] = "patch" PROVE Patching(u)'
    BY DEF Patching
  <2> DEFINE m == list[pos[u]]
  <2>1. m \in Module /\ list'[pos[u]] = m
    BY NothingIsUndone DEF TypeOK
  <2>2. m # Self
    BY DEF Patching
  <2>3. ASSUME m \in wanted[u], NEW f \in Imports[m] \cap patches
        PROVE  /\ f \notin todo[u] => Settled(m, f)'
               /\ StaticCrt(m)' /\ ~carrier[u] /\ Kind[f] = "Heap" =>
                    slots'[m][f] = "hook"
    BY <2>1, <2>3, StaysSettled, NothingIsUndone DEF Patching
  <2>4. patches' = patches
    BY StaysSettled
  <2>5. QED
    BY <2>1, <2>2, <2>3, <2>4 DEF Patching
<1>4. QED
  BY <1>1, <1>2, <1>3

\* What a pass has behind it is settled.
LEMMA PassesSettle == Spec => []PassInv
<1>1. Init => PassInv
  BY DEF Init, PassInv, Loading, Passing, Patching
<1>2. TypeOK /\ StartInv /\ PassInv /\ [Next]_vars => PassInv'
  <2> SUFFICES ASSUME TypeOK, StartInv, PassInv, [Next]_vars, NEW u \in Thread
               PROVE  (Loading(u) /\ Passing(u) /\ Patching(u))'
    BY DEF PassInv
  <2>0. Loading(u) /\ Passing(u) /\ Patching(u)
    BY DEF PassInv
  <2> USE <2>0
  <2>1. ASSUME NEW t \in Thread, Install(t)
        PROVE  (Loading(u) /\ Passing(u) /\ Patching(u))'
    <3>1. pc[u] = "run" /\ \A m \in Listed : Bound(m)
      BY <2>1 DEF Install, StartInv
    <3>2. CASE u = t
      <4>1. /\ list' = list /\ slots' = slots /\ pc'[u] = "acquire"
            /\ wanted'[u] = Listed
        BY <2>1, <3>2 DEF Install, TypeOK
      <4>2. QED
        BY <3>1, <4>1 DEF Loading, Passing, Patching, Listed, Bound
    <3>3. CASE u # t
      BY <2>1, <3>1, <3>3 DEF Install, TypeOK, Loading, Passing, Patching
    <3>4. QED
      BY <3>2, <3>3
  <2>2. CASE patches # {}
    <3> USE <2>2
    <3>1. CASE /\ pc'[u] = pc[u] /\ pos'[u] = pos[u] /\ wanted'[u] = wanted[u]
               /\ carrier'[u] = carrier[u] /\ todo'[u] = todo[u]
      BY <3>1, OthersPass
    <3>2. CASE pc'[u] \in {"run", "load"}
      BY <3>2 DEF Loading, Passing, Patching
    <3>3. CASE MapModules(u)
      BY <3>3, MapAppends DEF MapModules, TypeOK, Loading, Passing, Patching
    <3>4. CASE Loaded(u)
      BY <3>4, NothingIsUndone, StaysSettled
         DEF Loaded, loader, TypeOK, Loading, Passing, Patching
    <3>5. CASE Acquire(u)
      <4>1. /\ list' = list /\ wanted' = wanted /\ pc[u] = "acquire"
            /\ pc'[u] = "walk" /\ pos'[u] = 1
        BY <3>5 DEF Acquire, loader, TypeOK
      <4>2. Loading(u)'
        BY <4>1, StaysSettled DEF Loading, TypeOK, Listed
      <4>3. Passing(u)' /\ Patching(u)'
        BY <4>1 DEF Passing, Patching, TypeOK
      <4>4. QED
        BY <4>2, <4>3
    <3>6. CASE SkipSelf(u)
      <4>1. /\ list' = list /\ wanted' = wanted /\ pc' = pc
            /\ pc[u] = "walk" /\ list[pos[u]] = Self /\ pos[u] <= Len(list)
            /\ pos'[u] = pos[u] + 1
        BY <3>6 DEF SkipSelf, loader, TypeOK
      <4>2. Loading(u)' /\ Patching(u)'
        BY <4>1, StaysSettled DEF Loading, Patching, TypeOK, Listed
      <4>3. Passing(u)'
        BY <4>1, StaysSettled DEF Passing, TypeOK
      <4>4. QED
        BY <4>2, <4>3
    <3>7. CASE Classify(u)
      <4>0. PICK m \in Module : m = list[pos[u]]
        BY <3>7 DEF Classify, TypeOK
      <4>1. /\ list' = list /\ wanted' = wanted /\ slots' = slots
            /\ patches' = patches /\ pos' = pos /\ refused' = refused
            /\ pc[u] = "walk" /\ m # Self /\ pos[u] <= Len(list)
            /\ pc'[u] = "patch" /\ todo'[u] = Imports[m]
            /\ carrier'[u] = IsStaticCrtCarrier(m)
        BY <3>7, <4>0 DEF Classify, loader, TypeOK
      <4>3. Loading(u)' /\ Passing(u)'
        BY <4>1, StaysSettled DEF Loading, Passing, TypeOK, Listed
      <4>4. ASSUME m \in wanted[u], NEW f \in Imports[m] \cap patches,
                   StaticCrt(m), ~IsStaticCrtCarrier(m), Kind[f] = "Heap"
            PROVE  slots[m][f] = "hook"
        <5>1. slots[m][f] \in {"real", "hook"}
          <6>1. slots[m] \in [Imports[m] -> {"unbound", "real", "hook"}]
            BY DEF TypeOK
          <6>2. Bound(m)
            BY <4>1, <4>4 DEF Loading
          <6>3. QED
            BY <4>4, <6>1, <6>2 DEF Bound
        <5>2. slots[m][f] # "real"
          BY <4>4 DEF StaticCrt, IsStaticCrtCarrier, IsSystemModule
        <5>3. QED
          BY <5>1, <5>2
      <4>5. Patching(u)'
        BY <4>0, <4>1, <4>4, StaysSettled DEF Patching
      <4>6. QED
        BY <4>3, <4>5
    <3>8. ASSUME NEW f \in Function, PatchSlot(u, f)
          PROVE  (Loading(u) /\ Passing(u) /\ Patching(u))'
      <4>0. PICK m \in Module : m = list[pos[u]]
        BY <3>8 DEF PatchSlot, TypeOK
      <4>1. /\ list' = list /\ wanted' = wanted /\ patches' = patches
            /\ pos' = pos /\ pc' = pc /\ carrier' = carrier
            /\ pc[u] = "patch" /\ f \in todo[u]
            /\ todo'[u] = todo[u] \ {f}
        BY <3>8, <4>0 DEF PatchSlot, loader, TypeOK
      <4>2. f \in Imports[m] /\ m # Self
        BY <4>0, <4>1 DEF TypeOK, Patching
      <4>3. Loading(u)' /\ Passing(u)'
        BY <4>1, StaysSettled DEF Loading, Passing, TypeOK, Listed
      <4>4. ASSUME m \in wanted[u], f \in patches PROVE Settled(m, f)'
        <5>1. CASE Hits(u, m, f)
          <6>1. slots'[m][f] = "hook" \/ <<m, f>> \in refused'
            <7>1. CASE slots' = [slots EXCEPT ![m][f] = "hook"]
              BY <4>2, <7>1, SlotWritten
            <7>2. QED
              BY <3>8, <4>0, <5>1, <7>1 DEF PatchSlot
          <6>2. QED
            BY <6>1 DEF Settled
        <5>2. CASE ~Hits(u, m, f)
          <6>1. slots' = slots
            BY <3>8, <4>0, <5>2 DEF PatchSlot
          <6>2. slots[m][f] \in {"real", "hook"}
            <7>1. slots[m] \in [Imports[m] -> {"unbound", "real", "hook"}]
              BY DEF TypeOK
            <7>2. Bound(m)
              BY <4>1, <4>4 DEF Loading
            <7>3. QED
              BY <4>2, <7>1, <7>2 DEF Bound
          <6>3. CASE slots[m][f] = "hook"
            BY <6>1, <6>3 DEF Settled
          <6>4. CASE Kind[f] = "Heap" /\ ~carrier[u]
            <7>1. StaticCrt(m) => slots[m][f] = "hook"
              BY <4>0, <4>1, <4>2, <4>4, <6>4 DEF Patching
            <7>2. QED
              BY <4>2, <6>1, <6>4, <7>1, StaysSettled DEF Settled
          <6>5. QED
            BY <4>4, <5>2, <6>2, <6>3, <6>4 DEF Hits
        <5>3. QED
          BY <5>1, <5>2
      <4>5. ASSUME m \in wanted[u], NEW g \in Imports[m] \cap patches
            PROVE  /\ g \notin todo'[u] => Settled(m, g)'
                   /\ StaticCrt(m)' /\ ~carrier[u] /\ Kind[g] = "Heap" =>
                        slots'[m][g] = "hook"
        BY <4>0, <4>1, <4>2, <4>4, <4>5, StaysSettled, NothingIsUndone DEF Patching
      <4>6. Patching(u)'
        BY <4>0, <4>1, <4>2, <4>5 DEF Patching
      <4>7. QED
        BY <4>3, <4>6
    <3>9. CASE Patched(u)
      <4>0. PICK m \in Module : m = list[pos[u]]
        BY <3>9 DEF Patched, TypeOK
      <4>1. /\ list' = list /\ wanted' = wanted /\ patches' = patches
            /\ pc[u] = "patch" /\ todo[u] = {} /\ pos[u] <= Len(list)
            /\ pc'[u] = "walk" /\ pos'[u] = pos[u] + 1
        BY <3>9, <4>0 DEF Patched, loader, TypeOK
      <4>3. Loading(u)' /\ Patching(u)'
        BY <4>1, StaysSettled DEF Loading, Patching, TypeOK, Listed
      <4>4. m \in wanted[u] => Visited(m)
        BY <4>0, <4>1 DEF Patching, Visited
      <4>5. Passing(u)'
        BY <4>0, <4>1, <4>4, StaysSettled DEF Passing, TypeOK
      <4>6. QED
        BY <4>3, <4>5
    <3>10. ASSUME NEW t \in Thread \ {u},
                  Step(t) \/ \E m \in Loadable : LoadLibrary(t, m)
           PROVE  /\ pc'[u] = pc[u] /\ pos'[u] = pos[u]
                  /\ wanted'[u] = wanted[u] /\ carrier'[u] = carrier[u]
                  /\ todo'[u] = todo[u]
      <4>1. CASE \/ \E m \in Loadable : LoadLibrary(t, m)
                 \/ LoadFails(t) \/ MapModules(t) \/ BindSlot(t) \/ Loaded(t)
        BY <3>10, <4>1
           DEF loader, TypeOK, LoadLibrary, LoadFails, MapModules, BindSlot,
               Loaded
      <4>2. CASE Acquire(t) \/ SkipSelf(t) \/ Classify(t)
        BY <3>10, <4>2 DEF loader, TypeOK, Acquire, SkipSelf, Classify
      <4>3. CASE \E f \in Function : PatchSlot(t, f)
        BY <3>10, <4>3 DEF loader, TypeOK, PatchSlot
      <4>4. CASE Patched(t) \/ End(t)
        BY <3>10, <4>4 DEF loader, TypeOK, Patched, End
      <4>5. QED
        BY <3>10, <4>1, <4>2, <4>3, <4>4 DEF Step
    <3>11. CASE BindSlot(u) \/ UNCHANGED vars
      BY <3>1, <3>11 DEF BindSlot, vars, loader
    <3>12. CASE LoadFails(u) \/ End(u) \/ \E m \in Loadable : LoadLibrary(u, m)
      BY <3>2, <3>12 DEF LoadFails, End, LoadLibrary, TypeOK
    <3>13. QED
      BY <3>1, <3>3, <3>4, <3>5, <3>6, <3>7, <3>8, <3>9, <3>10, <3>11, <3>12
         DEF Next, Step, Install
  <2>3. CASE patches = {} /\ ~ \E t \in Thread : Install(t)
    <3>1. UNCHANGED vars
      BY <2>3 DEF StartInv, Next, Step, LoadLibrary, LoadFails, MapModules,
             BindSlot, Loaded, Acquire, SkipSelf, Classify, PatchSlot, Patched,
             End
    <3>2. QED
      BY <2>3, <3>1 DEF StartInv, vars, Loading, Passing, Patching
  <2>4. QED
    BY <2>1, <2>2, <2>3
<1>3. QED
  BY <1>1, <1>2, TypeCorrect, TableIsFilledFirst, PTL DEF Spec

\* Whatever other threads load, bind and patch meanwhile, and whatever
\* VirtualProtect refuses: once LoadLibrary has returned, each slot it is about
\* holds the hook or was refused (AllocHooks.cpp:13-14, 475-492).
THEOREM EveryLoadedModuleIsPatched == Spec => []ReturnedIsPatched
<1>1. Init => ReturnedIsPatched
  BY DEF Init, ReturnedIsPatched
<1>2. /\ TypeOK /\ StartInv /\ PassInv /\ ReturnedIsPatched /\ [Next]_vars
      => ReturnedIsPatched'
  <2> SUFFICES ASSUME TypeOK, StartInv, PassInv, ReturnedIsPatched, [Next]_vars,
                      NEW m \in due' \ {Self}
               PROVE  Visited(m)'
    BY DEF ReturnedIsPatched, Visited, Settled
  <2>1. CASE m \in due
    <3>1. patches # {} /\ m \in Module
      BY <2>1 DEF StartInv, TypeOK
    <3>2. Visited(m)
      BY <2>1 DEF ReturnedIsPatched, Visited, Settled
    <3>3. QED
      BY <3>1, <3>2, StaysSettled
  <2>2. CASE m \notin due
    <3>1. PICK t \in Thread : End(t)
      BY <2>2 DEF Next, Step, vars, loader, Install, LoadLibrary, LoadFails,
             MapModules, BindSlot, Loaded, Acquire, SkipSelf, Classify,
             PatchSlot, Patched
    <3>2. /\ m \in wanted[t] /\ m \in Module
          /\ pc[t] = "walk" /\ pos[t] > Len(list)
      BY <2>2, <3>1 DEF End, TypeOK
    <3>3. patches # {}
      BY <3>2 DEF StartInv
    <3>4. PICK i \in 1 .. Len(list) : list[i] = m
      BY <3>2 DEF PassInv, Loading, Listed
    <3>5. i < pos[t]
      BY <3>2 DEF TypeOK
    <3>6. Visited(m)
      BY <3>2, <3>4, <3>5 DEF PassInv, Passing
    <3>7. QED
      BY <3>2, <3>3, <3>6, StaysSettled
  <2>3. QED
    BY <2>1, <2>2
<1>3. QED
  BY <1>1, <1>2, TypeCorrect, TableIsFilledFirst, PassesSettle, PTL DEF Spec

-----------------------------------------------------------------------------
(* No allocation meets two hooks                                           *)

\* The heap calls of a module in the Windows directory are never hooked, however
\* often and in what state of its binding a pass meets it.
LEMMA SystemModulesKeepTheirHeap == Spec => []SystemInv
<1>1. Init => SystemInv
  BY DEF Init, SystemInv
<1>2. TypeOK /\ SystemInv /\ [Next]_vars => SystemInv'
  <2> SUFFICES ASSUME TypeOK, SystemInv, [Next]_vars PROVE SystemInv'
    OBVIOUS
  <2>1. ASSUME NEW m \in Module, NEW f \in Imports[m],
               Kind[f] = "Heap", slots'[m][f] = "hook"
        PROVE  m \notin System
    <3>1. CASE slots[m][f] = "hook"
      BY <2>1, <3>1 DEF SystemInv
    <3>2. ASSUME slots[m][f] # "hook", NEW t \in Thread, BindSlot(t)
          PROVE  FALSE
      <4>1. PICK k \in wanted[t] : \E g \in Imports[k] :
              slots' = [slots EXCEPT ![k][g] = "real"]
        BY <3>2 DEF BindSlot
      <4>2. PICK g \in Imports[k] : slots' = [slots EXCEPT ![k][g] = "real"]
        BY <4>1
      <4>3. k \in Module
        BY DEF TypeOK
      <4>4. slots'[m][f] = IF m = k /\ f = g THEN "real" ELSE slots[m][f]
        BY <4>2, <4>3, SlotWritten
      <4>5. QED
        BY <2>1, <3>2, <4>4
    <3>3. ASSUME slots[m][f] # "hook", NEW t \in Thread, NEW g \in Function,
                 PatchSlot(t, g)
          PROVE  m \notin System
      <4>1. PICK k \in Module : k = list[pos[t]]
        BY <3>3 DEF PatchSlot, TypeOK
      <4>2. /\ pc[t] = "patch" /\ g \in Imports[k]
            /\ slots' = slots \/
                 (Hits(t, k, g) /\ slots' = [slots EXCEPT ![k][g] = "hook"])
        BY <3>3, <4>1 DEF PatchSlot, TypeOK
      <4>3. Hits(t, k, g) /\ slots' = [slots EXCEPT ![k][g] = "hook"]
        BY <2>1, <3>3, <4>2
      <4>4. slots'[m][f] = IF m = k /\ f = g THEN "hook" ELSE slots[m][f]
        <5>1. \A n \in Module : \A h \in Imports[n] :
                slots'[n][h] = IF n = k /\ h = g THEN "hook" ELSE slots[n][h]
          <6>1. g \in Imports[k] /\ slots' = [slots EXCEPT ![k][g] = "hook"]
            BY <4>2, <4>3
          <6>2. QED
            BY <6>1, SlotWritten
        <5>2. QED
          BY <5>1
      <4>5. m = k /\ f = g
        BY <2>1, <3>3, <4>4
      <4>6. QED
        BY <2>1, <4>1, <4>2, <4>3, <4>5 DEF Hits, SystemInv
    <3>4. QED
      BY <2>1, <3>1, <3>2, <3>3
         DEF Next, Step, vars, loader, Install, LoadLibrary, LoadFails,
             MapModules, Loaded, Acquire, SkipSelf, Classify, Patched, End
  <2>2. ASSUME NEW u \in Thread, pc'[u] = "patch", carrier'[u]
        PROVE  list'[pos'[u]] \notin System
    <3>1. CASE Classify(u)
      BY <2>2, <3>1
         DEF Classify, loader, IsStaticCrtCarrier, IsSystemModule, TypeOK
    <3>2. CASE ~Classify(u)
      <4>1. pc[u] = "patch" /\ pos'[u] = pos[u] /\ carrier[u]
        <5>1. CASE UNCHANGED vars
          BY <2>2, <5>1 DEF vars
        <5>2. ASSUME NEW t \in Thread, Classify(t)
              PROVE  pc[u] = "patch" /\ pos'[u] = pos[u] /\ carrier[u]
          <6>1. t # u
            BY <3>2, <5>2
          <6>2. pc'[u] = pc[u] /\ pos'[u] = pos[u] /\ carrier'[u] = carrier[u]
            BY <5>2, <6>1 DEF Classify, TypeOK
          <6>3. QED
            BY <2>2, <6>2
        <5>3. ASSUME NEW t \in Thread,
                     Install(t) \/ \E m \in Loadable : LoadLibrary(t, m)
              PROVE  pc[u] = "patch" /\ pos'[u] = pos[u] /\ carrier[u]
          BY <2>2, <5>3 DEF Install, LoadLibrary, TypeOK
        <5>4. ASSUME NEW t \in Thread,
                     \/ LoadFails(t) \/ MapModules(t) \/ BindSlot(t) \/ Loaded(t)
                     \/ Acquire(t) \/ SkipSelf(t)
                     \/ \E f \in Function : PatchSlot(t, f)
                     \/ Patched(t) \/ End(t)
              PROVE  pc[u] = "patch" /\ pos'[u] = pos[u] /\ carrier[u]
          <6>1. CASE LoadFails(t) \/ MapModules(t) \/ BindSlot(t) \/ Loaded(t)
            BY <2>2, <6>1 DEF LoadFails, MapModules, BindSlot, Loaded, TypeOK
          <6>2. CASE \/ Acquire(t) \/ SkipSelf(t)
                     \/ \E f \in Function : PatchSlot(t, f)
            BY <2>2, <6>2 DEF Acquire, SkipSelf, PatchSlot, TypeOK
          <6>3. CASE Patched(t) \/ End(t)
            BY <2>2, <6>3 DEF Patched, End, TypeOK
          <6>4. QED
            BY <5>4, <6>1, <6>2, <6>3
        <5>5. QED
          BY <5>1, <5>2, <5>3, <5>4 DEF Next, Step
      <4>2. pos[u] \in 1 .. Len(list) /\ list'[pos[u]] = list[pos[u]]
        BY <4>1, NothingIsUndone DEF TypeOK
      <4>3. QED
        BY <4>1, <4>2 DEF SystemInv
    <3>3. QED
      BY <3>1, <3>2
  <2>3. QED
    BY <2>1, <2>2 DEF SystemInv
<1>3. QED
  BY <1>1, <1>2, TypeCorrect, PTL DEF Spec

\* An allocation through a hooked slot of a shared CRT ends in that CRT, which
\* is in the Windows directory: there the heap call is not hooked
\* (AllocHooks.cpp:8, 120-123).
THEOREM OneHookPerAllocation == Spec => []AnnouncedOnce
<1>1. TypeOK /\ SystemInv => AnnouncedOnce
  <2> SUFFICES ASSUME TypeOK, SystemInv, NEW m \in Listed, NEW f \in Imports[m],
                      Kind[f] = "CrtAlloc", NEW h \in Imports[Crt[f]],
                      Kind[h] = "Heap", slots[Crt[f]][h] = "hook"
               PROVE  FALSE
    BY DEF AnnouncedOnce
  <2>1. m \in Module
    BY DEF TypeOK, Listed
  <2>2. Crt[f] \in System /\ Crt[f] \in Module
    BY <2>1, IatAssumption, CrtAssumption
  <2>3. QED
    BY <2>2 DEF SystemInv
<1>2. QED
  BY <1>1, TypeCorrect, SystemModulesKeepTheirHeap, PTL

=============================================================================
