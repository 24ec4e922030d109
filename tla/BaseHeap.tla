------------------------------- MODULE BaseHeap -------------------------------
(***************************************************************************)
(* The base heap MEM2 (source/memexpheap.cpp) and the default heap on it   *)
(* (source/memdefaultheap.cpp), from which __ghs_mtx_init takes its        *)
(* mutexes and to which __ghs_mtx_dst returns them (source/ghs.cpp).  The  *)
(* first call builds the heap, and the guest may put another in its place. *)
(* A heap is known by its region and is here a set of blocks in use;       *)
(* ExpHeap has their sizes and places.                                     *)
(*                                                                         *)
(* Nothing takes a lock.  Two threads that build the heap at once, or use  *)
(* one heap at once, spoil it: the heaps are sound until then.             *)
(***************************************************************************)
EXTENDS Naturals

CONSTANTS HeapThread,
          Region, NoRegion,   \* memory malloc returns for a base heap
          GuestHeap,          \* a heap the guest makes in memory of its own
          Block               \* the blocks of a heap

VARIABLES
  baseRegion,   \* g_baseRegion
  baseHeap,     \* g_baseHeap
  claimed,      \* what malloc has returned
  taken,        \* the blocks of each heap that are in use
  owned,        \* the blocks that the guest has and may use
  visit,        \* visit[t]: the call thread t is in, or NoVisit
  unspoilt      \* no heap has been spoilt

baseVars == <<baseRegion, baseHeap, claimed, taken, owned, visit, unspoilt>>

NoVisit == [stage |-> "none", heap |-> NoRegion, free |-> {}]
Heap == Region \cup {GuestHeap}

BaseInit ==
  /\ baseRegion = NoRegion /\ baseHeap = NoRegion /\ claimed = {}
  /\ taken = [h \in Heap |-> {}] /\ owned = {}
  /\ visit = [t \in HeapThread |-> NoVisit] /\ unspoilt = TRUE

\* Thread t goes on to a stage of its call, which another thread may be in.
Goes(t, stage, h, free) ==
  /\ visit' = [visit EXCEPT ![t] = [stage |-> stage, heap |-> h, free |-> free]]
  /\ unspoilt' = \A u \in HeapThread \ {t} : visit[u].stage # stage \/ visit[u].heap # h

\* MEMAllocFromDefaultHeap, Ex and __ghs_mtx_init, and, with a block to free,
\* MEMFreeToDefaultHeap and __ghs_mtx_dst: they ask for the base heap first.
Call(t, free) ==
  /\ visit[t] = NoVisit
  /\ Goes(t, IF baseHeap = NoRegion THEN "build" ELSE "use", baseHeap, free)
  /\ owned' = owned \ free
  /\ UNCHANGED <<baseRegion, baseHeap, claimed, taken>>

\* The rest of MEMGetBaseHeapHandle, when there is no heap yet.
Build(t) ==
  /\ visit[t].stage = "build"
  /\ \E r \in Region \ claimed :
       /\ claimed' = claimed \cup {r} /\ baseRegion' = r
       /\ baseHeap' = r /\ taken' = [taken EXCEPT ![r] = {}]
       /\ Goes(t, "use", r, visit[t].free)
  /\ UNCHANGED owned

OutOfMemory(t) ==
  /\ visit[t].stage = "build"
  /\ visit' = [visit EXCEPT ![t] = NoVisit]
  /\ UNCHANGED <<baseRegion, baseHeap, claimed, taken, owned, unspoilt>>

\* MEMAllocFromExpHeapEx, where there is room; a full heap is left as it is.
Alloc(t, b) ==
  LET h == visit[t].heap IN
  /\ visit[t].stage = "use" /\ visit[t].free = {} /\ b \notin taken[h]
  /\ taken' = [taken EXCEPT ![h] = @ \cup {b}]
  /\ owned' = owned \cup {[heap |-> h, block |-> b]}
  /\ visit' = [visit EXCEPT ![t] = NoVisit]
  /\ UNCHANGED <<baseRegion, baseHeap, claimed, unspoilt>>

AllocFails(t) ==
  /\ visit[t].stage = "use" /\ visit[t].free = {} /\ taken[visit[t].heap] = Block
  /\ visit' = [visit EXCEPT ![t] = NoVisit]
  /\ UNCHANGED <<baseRegion, baseHeap, claimed, taken, owned, unspoilt>>

\* MEMFreeToExpHeap: a block of a heap that has been replaced is ignored, and stays
\* in use.
Free(t) ==
  LET h == visit[t].heap IN
  /\ visit[t].stage = "use" /\ visit[t].free # {}
  /\ taken' = [taken EXCEPT ![h] = @ \ {x.block : x \in {y \in visit[t].free : y.heap = h}}]
  /\ visit' = [visit EXCEPT ![t] = NoVisit]
  /\ UNCHANGED <<baseRegion, baseHeap, claimed, owned, unspoilt>>

\* MEMSetBaseHeapHandle, of the guest's heap, of one that it replaced, or of none.
SetBase(t, h) ==
  /\ visit[t] = NoVisit
  /\ baseHeap' = h
  /\ UNCHANGED <<baseRegion, claimed, taken, owned, visit, unspoilt>>

BaseNext ==
  /\ unspoilt
  /\ \E t \in HeapThread :
       \/ Call(t, {}) \/ \E x \in owned : Call(t, {x})
       \/ Build(t) \/ OutOfMemory(t) \/ AllocFails(t) \/ Free(t)
       \/ \E b \in Block : Alloc(t, b)
       \/ \E h \in claimed \cup {GuestHeap, NoRegion} : SetBase(t, h)

\* A block of the default heap is in use for as long as the guest has it, also when
\* the heap it comes from has been replaced: nobody else is given it.
BlocksKept == \A x \in owned : x.block \in taken[x.heap]
==============================================================================
