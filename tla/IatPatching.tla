---------------------------- MODULE IatPatching -----------------------------
(***************************************************************************)
(* The Windows hooks (MemoryAnalyzer/Windows/AllocHooks.cpp) as pointers   *)
(* in the import tables of the process: Hooks::install, the hooked         *)
(* LoadLibrary functions, and patchAllModules with its classification of   *)
(* modules, while several threads load modules.                            *)
(*                                                                         *)
(* The loader of the operating system is external: it maps a module and    *)
(* its dependencies at the end of its list, then binds their import slots  *)
(* one by one, all under one lock, and says nothing to whoever walks the   *)
(* list meanwhile.                                                         *)
(***************************************************************************)
EXTENDS Naturals, Sequences, FiniteSets

CONSTANTS
  Thread,
  NoThread,
  Module,      \* the modules there are
  Self,        \* selfModule, the injected library
  Preloaded,   \* the loader's list when the library is injected
  Loadable,    \* modules the program loads later
  Brings,      \* the modules that loading one maps: its dependencies and itself
  System,      \* modules in the Windows directory
  Function,    \* functions that install() may put in its table
  Kind,        \* their Kind: "CrtAlloc", "Always" or "Heap"
  Crt,         \* the CRT that exports a CrtAlloc function
  Imports,     \* the functions of the table among the imports of a module
  Load,        \* the function LoadLibrary
  MaxRefusals  \* bound: slots VirtualProtect refuses at a time

ASSUME IatAssumption ==
  /\ NoThread \notin Thread
  /\ Self \in Module /\ Loadable \subseteq Module /\ System \subseteq Module
  /\ Preloaded \in Seq(Module)
  /\ \A m \in Loadable : Brings[m] \subseteq Module /\ IsFiniteSet(Brings[m])
  /\ Load \in Function /\ Kind[Load] = "Always"
  /\ \A f \in Function : Kind[f] \in {"CrtAlloc", "Always", "Heap"}
  /\ \A m \in Module : Imports[m] \subseteq Function
  /\ MaxRefusals \in Nat

\* The CRTs are those in the Windows directory.
ASSUME CrtAssumption ==
  \A f \in Function : Kind[f] = "CrtAlloc" => Crt[f] \in System

VARIABLES
  list,        \* InMemoryOrderModuleList
  slots,       \* what each import slot holds: nothing yet, the real function
               \* or the hook
  patches,     \* the functions in the table
  loaderLock,  \* the thread inside the real LoadLibrary
  patchLock,   \* the owner of patchLock
  pc,          \* where each thread is
  hooked,      \* whether the LoadLibrary it called was the hook
  wanted,      \* the modules its call asked for
  pos,         \* its place in the list
  carrier,     \* its verdict about the module at that place
  todo,        \* slots of that module it has not visited
  due,         \* modules that a finished pass was to patch
  refused      \* slots of which VirtualProtect failed last time

loader == <<list, loaderLock, hooked, wanted>>
vars == <<list, slots, patches, loaderLock, patchLock, pc, hooked, wanted,
          pos, carrier, todo, due, refused>>

Listed == {list[i] : i \in 1 .. Len(list)}

Bound(m) == \A f \in Imports[m] : slots[m][f] # "unbound"

Init ==
  /\ list = Preloaded
  /\ slots = [m \in Module |-> [f \in Imports[m] |->
                IF \E i \in 1 .. Len(Preloaded) : Preloaded[i] = m
                THEN "real" ELSE "unbound"]]
  /\ patches = {}
  /\ loaderLock = NoThread
  /\ patchLock = NoThread
  /\ pc = [t \in Thread |-> "run"]
  /\ hooked = [t \in Thread |-> FALSE]
  /\ wanted = [t \in Thread |-> {}]
  /\ pos = [t \in Thread |-> 1]
  /\ carrier = [t \in Thread |-> FALSE]
  /\ todo = [t \in Thread |-> {}]
  /\ due = {}
  /\ refused = {}

-----------------------------------------------------------------------------
(* Mutants: definitions below with one plausible bug each.                 *)

\* The Windows directory is not left out.
CarrierAlsoSystem(m) ==
  /\ \E f \in Imports[m] \cap patches : slots[m][f] = "real" /\ Kind[f] = "Heap"
  /\ ~ \E f \in Imports[m] \cap patches :
         slots[m][f] = "real" /\ Kind[f] = "CrtAlloc"

\* The walk ends at our own module.
WalkEndsAtSelf(t) ==
  /\ pc[t] = "walk" /\ pos[t] <= Len(list) /\ list[pos[t]] = Self
  /\ pos' = [pos EXCEPT ![t] = Len(list) + 1]
  /\ UNCHANGED <<loader, slots, patches, patchLock, pc, carrier, todo, due,
                 refused>>

\* The walk does not get past our own module.
WalkStaysAtSelf(t) ==
  /\ pc[t] = "walk" /\ pos[t] <= Len(list) /\ list[pos[t]] = Self
  /\ UNCHANGED vars

-----------------------------------------------------------------------------
(* Installation and LoadLibrary                                            *)

\* What setup() and resolve() find: the functions of the CRTs that are loaded by
\* now, and those of kernel32.
Resolved == {f \in Function : Kind[f] = "CrtAlloc" => Crt[f] \in Listed}

\* Hooks::install, in DllMain.  The target has no other thread that runs.
Install(t) ==
  /\ patches = {} /\ pc[t] = "run"
  /\ patches' = Resolved
  /\ pc' = [pc EXCEPT ![t] = "acquire"]
  /\ wanted' = [wanted EXCEPT ![t] = Listed]
  /\ UNCHANGED <<list, slots, loaderLock, patchLock, hooked, pos, carrier, todo,
                 due, refused>>

\* A module that is patched by now calls LoadLibrary through its slot.
LoadLibrary(t, m) ==
  /\ due # {} /\ pc[t] = "run"
  /\ \E c \in due :
       /\ Load \in Imports[c]
       /\ hooked' = [hooked EXCEPT ![t] = slots[c][Load] = "hook"]
  /\ wanted' = [wanted EXCEPT ![t] = Brings[m]]
  /\ pc' = [pc EXCEPT ![t] = "load"]
  /\ UNCHANGED <<list, slots, patches, loaderLock, patchLock, pos, carrier, todo,
                 due, refused>>

\* The real LoadLibrary cannot load the module: no patching.
LoadFails(t) ==
  /\ pc[t] = "load" /\ ~(wanted[t] \subseteq Listed)
  /\ pc' = [pc EXCEPT ![t] = "run"]
  /\ UNCHANGED <<loader, slots, patches, patchLock, pos, carrier, todo, due,
                 refused>>

\* The orders in which the loader may list new modules.
Orders(new) ==
  {order \in [1 .. Cardinality(new) -> new] :
     \A m \in new : \E i \in 1 .. Cardinality(new) : order[i] = m}

\* The loader lists what is new.
MapModules(t) ==
  /\ pc[t] = "load" /\ loaderLock = NoThread
  /\ loaderLock' = t
  /\ \E m \in Loadable :
       /\ wanted[t] = Brings[m]
       /\ \E order \in Orders(Brings[m] \ Listed) : list' = list \o order
  /\ pc' = [pc EXCEPT ![t] = "bind"]
  /\ UNCHANGED <<slots, patches, patchLock, hooked, wanted, pos, carrier, todo,
                 due, refused>>

\* The loader writes the address of the real function into a slot.
BindSlot(t) ==
  /\ pc[t] = "bind"
  /\ \E m \in wanted[t] : \E f \in Imports[m] :
       /\ slots[m][f] = "unbound"
       /\ slots' = [slots EXCEPT ![m][f] = "real"]
  /\ UNCHANGED <<loader, patches, patchLock, pc, pos, carrier, todo, due, refused>>

\* The real LoadLibrary returns; the hook goes on to patchAllModules().
Loaded(t) ==
  /\ pc[t] = "bind" /\ \A m \in wanted[t] : Bound(m)
  /\ loaderLock' = NoThread
  /\ pc' = [pc EXCEPT ![t] = IF hooked[t] THEN "acquire" ELSE "run"]
  /\ UNCHANGED <<list, slots, patches, patchLock, hooked, wanted, pos, carrier,
                 todo, due, refused>>

-----------------------------------------------------------------------------
(* patchAllModules                                                         *)

Acquire(t) ==
  /\ pc[t] = "acquire" /\ patchLock = NoThread
  /\ patchLock' = t
  /\ pos' = [pos EXCEPT ![t] = 1]
  /\ pc' = [pc EXCEPT ![t] = "walk"]
  /\ UNCHANGED <<loader, slots, patches, carrier, todo, due, refused>>

IsSystemModule(m) == m \in System

\* What the slots say now: a slot that is bound to a hook, or not bound yet,
\* is not one of the table's functions.
IsStaticCrtCarrier(m) ==
  /\ ~IsSystemModule(m)
  /\ \E f \in Imports[m] \cap patches : slots[m][f] = "real" /\ Kind[f] = "Heap"
  /\ ~ \E f \in Imports[m] \cap patches :
         slots[m][f] = "real" /\ Kind[f] = "CrtAlloc"

SkipSelf(t) ==
  /\ pc[t] = "walk" /\ pos[t] <= Len(list) /\ list[pos[t]] = Self
  /\ pos' = [pos EXCEPT ![t] = @ + 1]
  /\ UNCHANGED <<loader, slots, patches, patchLock, pc, carrier, todo, due,
                 refused>>

\* patchModule begins: the verdict comes first.
Classify(t) ==
  /\ pc[t] = "walk" /\ pos[t] <= Len(list) /\ list[pos[t]] # Self
  /\ carrier' = [carrier EXCEPT ![t] = IsStaticCrtCarrier(list[pos[t]])]
  /\ todo' = [todo EXCEPT ![t] = Imports[list[pos[t]]]]
  /\ pc' = [pc EXCEPT ![t] = "patch"]
  /\ UNCHANGED <<loader, slots, patches, patchLock, pos, due, refused>>

\* A slot that holds a function of the table, of a kind to patch here.
Hits(t, m, f) ==
  /\ f \in patches /\ slots[m][f] = "real"
  /\ Kind[f] = "Heap" => carrier[t]

\* One slot: VirtualProtect may refuse to make it writable.
PatchSlot(t, f) ==
  LET m == list[pos[t]]
  IN  /\ pc[t] = "patch" /\ f \in todo[t]
      /\ todo' = [todo EXCEPT ![t] = @ \ {f}]
      /\ \/ /\ Hits(t, m, f)
            /\ slots' = [slots EXCEPT ![m][f] = "hook"]
            /\ refused' = refused \ {<<m, f>>}
         \/ /\ Hits(t, m, f)
            /\ Cardinality(refused \cup {<<m, f>>}) <= MaxRefusals
            /\ refused' = refused \cup {<<m, f>>}
            /\ slots' = slots
         \/ /\ ~Hits(t, m, f)
            /\ UNCHANGED <<slots, refused>>
      /\ UNCHANGED <<loader, patches, patchLock, pc, pos, carrier, due>>

Patched(t) ==
  /\ pc[t] = "patch" /\ todo[t] = {}
  /\ pos' = [pos EXCEPT ![t] = @ + 1]
  /\ pc' = [pc EXCEPT ![t] = "walk"]
  /\ UNCHANGED <<loader, slots, patches, patchLock, carrier, todo, due, refused>>

\* The end of the list: the hook returns to the program.
End(t) ==
  /\ pc[t] = "walk" /\ pos[t] > Len(list)
  /\ patchLock' = NoThread
  /\ pc' = [pc EXCEPT ![t] = "run"]
  /\ due' = due \cup wanted[t]
  /\ UNCHANGED <<loader, slots, patches, pos, carrier, todo, refused>>

\* What a thread does until its call returns.
Step(t) ==
  \/ LoadFails(t) \/ MapModules(t) \/ BindSlot(t) \/ Loaded(t)
  \/ Acquire(t) \/ SkipSelf(t) \/ Classify(t)
  \/ \E f \in Function : PatchSlot(t, f)
  \/ Patched(t) \/ End(t)

Next == \E t \in Thread : Install(t) \/ (\E m \in Loadable : LoadLibrary(t, m)) \/ Step(t)

Spec == Init /\ [][Next]_vars

\* A thread inside a call runs on, and gets a lock that is free again and again.
FairSpec ==
  /\ Spec
  /\ \A t \in Thread : /\ WF_vars(Step(t))
                       /\ SF_vars(MapModules(t))
                       /\ SF_vars(Acquire(t))

-----------------------------------------------------------------------------
(* Properties                                                              *)

\* Each lock is owned by the thread in its critical section, and each variable
\* has its type.
TypeOK ==
  /\ list \in Seq(Module)
  /\ slots = [m \in Module |-> slots[m]]
  /\ \A m \in Module : slots[m] \in [Imports[m] -> {"unbound", "real", "hook"}]
  /\ patches \subseteq Function
  /\ pc \in [Thread -> {"run", "load", "bind", "acquire", "walk", "patch"}]
  /\ \A t \in Thread : /\ pc[t] \in {"walk", "patch"} <=> patchLock = t
                       /\ pc[t] = "bind" <=> loaderLock = t
  /\ hooked \in [Thread -> BOOLEAN] /\ carrier \in [Thread -> BOOLEAN]
  /\ wanted \in [Thread -> SUBSET Module]
  /\ todo \in [Thread -> SUBSET Function]
  /\ pos \in [Thread -> Nat \ {0}]
  /\ \A t \in Thread : pc[t] = "patch" =>
       pos[t] <= Len(list) /\ todo[t] \subseteq Imports[list[pos[t]]]
  /\ due \subseteq Module

\* By its imports, the module has a CRT of its own.
StaticCrt(m) ==
  /\ m \notin System \cup {Self}
  /\ \E f \in Imports[m] \cap patches : Kind[f] = "Heap"
  /\ ~ \E f \in Imports[m] \cap patches : Kind[f] = "CrtAlloc"

\* Once the LoadLibrary that brought a module has returned, its allocations are
\* hooked, except where VirtualProtect refused: each slot of a shared CRT, and
\* the heap's if the CRT is its own (AllocHooks.cpp:13-14, 24-27).  Another thread that
\* walked over the module while the loader was binding it does no harm.
ReturnedIsPatched ==
  \A m \in due \ {Self} : \A f \in Imports[m] \cap patches :
    (Kind[f] = "Heap" => StaticCrt(m)) =>
      slots[m][f] = "hook" \/ <<m, f>> \in refused

\* An allocation of a module goes through one hook at most: not through the
\* one in its own slot and again through one in a slot of the CRT, whose malloc
\* ends in the heap (AllocHooks.cpp:8, 120-123, README.md:76).
AnnouncedOnce ==
  \A m \in Listed : \A f \in Imports[m] :
    Kind[f] = "CrtAlloc" /\ slots[m][f] = "hook" =>
      ~ \E h \in Imports[Crt[f]] : Kind[h] = "Heap" /\ slots[Crt[f]][h] = "hook"

\* Every call of LoadLibrary returns.
LoadReturns == \A t \in Thread : pc[t] # "run" ~> pc[t] = "run"

\* "For those (and only those ...) the OS heap calls the CRT ends in are hooked
\* instead" (AllocHooks.cpp:25-27).  Not so: see the run heap_hooks.
OnlyStaticCrtHeapHooked ==
  \A m \in Listed : \A f \in Imports[m] :
    Kind[f] = "Heap" /\ slots[m][f] = "hook" => StaticCrt(m)

=============================================================================
