------------------------------- MODULE DynLoad -------------------------------
(***************************************************************************)
(* OSDynLoad (source/dynload.cpp): a table of acquired libraries, counted  *)
(* by reference, over the registry of source/symbol_registry.cpp.  A       *)
(* handle is the address of a slot.  Acquire and Release are sections      *)
(* under the lock and one step each; FindExport takes no lock and is two:  *)
(* the test that the slot is in use, and the search under its name.        *)
(***************************************************************************)
EXTENDS FiniteSetsExt, Integers

CONSTANTS Library, Registered,   \* names, and those kExports has symbols of
          NoLibrary,
          MaxModules,            \* kMaxModules
          LoadThread, MaxHeld    \* bound on the references a thread holds

Module == 1..MaxModules
FreeModule == [name |-> NoLibrary, refCount |-> 0]

VARIABLES
  modules,   \* g_modules; a slot is in use if it counts references
  held,      \* held[t][l]: the references to library l thread t has acquired
  handle,    \* handle[l]: the slot that the latest Acquire of l answered
  finding    \* finding[t]: the library thread t searches, its slot tested

loadVars == <<modules, held, handle, finding>>

LoadInit ==
  /\ modules = [i \in Module |-> FreeModule]
  /\ held = [t \in LoadThread |-> [l \in Library |-> 0]]
  /\ handle = [l \in Library |-> 0]
  /\ finding = [t \in LoadThread |-> NoLibrary]

SlotsOf(l) == {i \in Module : modules[i].refCount > 0 /\ modules[i].name = l}
FreeSlots == {i \in Module : modules[i].refCount = 0}

\* OSDynLoad_Acquire: one more reference, or the first free slot; a library that
\* is not registered is not found.
Acquire(t, l) ==
  /\ l \in Registered /\ finding[t] = NoLibrary /\ held[t][l] < MaxHeld
  /\ SlotsOf(l) # {} \/ FreeSlots # {}
  /\ LET i == IF SlotsOf(l) # {} THEN Min(SlotsOf(l)) ELSE Min(FreeSlots) IN
     /\ modules' = [modules EXCEPT ![i] = [name |-> l, refCount |-> @.refCount + 1]]
     /\ handle' = [handle EXCEPT ![l] = i]
  /\ held' = [held EXCEPT ![t][l] = @ + 1]
  /\ UNCHANGED finding

\* OSDynLoad_Release, of a reference the guest holds.
Release(t, l) ==
  /\ finding[t] = NoLibrary /\ held[t][l] > 0
  /\ modules' = [modules EXCEPT ![handle[l]].refCount = @ - 1]
  /\ held' = [held EXCEPT ![t][l] = @ - 1]
  /\ UNCHANGED <<handle, finding>>

FindExport(t, l) ==
  /\ finding[t] = NoLibrary /\ held[t][l] > 0
  /\ modules[handle[l]].refCount > 0
  /\ finding' = [finding EXCEPT ![t] = l]
  /\ UNCHANGED <<modules, held, handle>>

FindExportOfKind(t) ==
  /\ finding[t] # NoLibrary
  /\ finding' = [finding EXCEPT ![t] = NoLibrary]
  /\ UNCHANGED <<modules, held, handle>>

LoadNext == \E t \in LoadThread :
  \/ \E l \in Library : Acquire(t, l) \/ Release(t, l) \/ FindExport(t, l)
  \/ FindExportOfKind(t)

\* The references to library l that the guest holds.
References(l) == {r \in LoadThread \X (1..MaxHeld) : r[2] <= held[r[1]][l]}

\* The handle of a library names it, and is in use, for as long as some thread has a
\* reference; a slot in use counts the references to its library, whatever library
\* had the slot before.
ModulesKept ==
  /\ \A t \in LoadThread, l \in Library : held[t][l] > 0 \/ finding[t] = l
       => modules[handle[l]].name = l /\ modules[handle[l]].refCount > 0
  /\ \A i \in Module : modules[i].refCount > 0
       => modules[i].refCount = Cardinality(References(modules[i].name))
==============================================================================
