----------------------------- MODULE LockedCache -----------------------------
(***************************************************************************)
(* The locked cache (source/lockedcache.cpp): blocks of host memory within *)
(* a budget that is counted in an unsigned word, under a lock that the     *)
(* first call initialises.  A call is the test of g_inited, mutexInit when *)
(* it is not set, mutexLock with the test of the budget, and the change    *)
(* with mutexUnlock.                                                       *)
(*                                                                         *)
(* The copies of the DMA engine are made before a call returns and keep    *)
(* nothing; LCGetAllocatableSize only reads, under the lock.               *)
(***************************************************************************)
EXTENDS Naturals, FiniteSets

CONSTANTS
  Word,         \* 2^32: g_allocated + size is computed modulo this
  CacheSize,    \* kLockedCacheSize
  HostMemory,   \* the most that aligned_alloc can find in one piece
  Address,      \* the addresses it can return
  Sizes,        \* what the guest asks for
  CacheThread, NoOne,
  Primed        \* whether the guest makes its first call while it has one thread

VARIABLES allotted,   \* g_blocks: the size of each block by its address
          allocated,  \* g_allocated
          inited,     \* g_inited
          holder,     \* who holds g_lock
          request     \* request[t]: what thread t calls for, and how far it is

cacheVars == <<allotted, allocated, inited, holder, request>>

NoRequest == [stage |-> "idle", size |-> 0, addr |-> NoOne]

CacheInit ==
  /\ allotted = <<>> /\ allocated = 0 /\ inited = FALSE /\ holder = NoOne
  /\ request = [t \in CacheThread |-> NoRequest]

To(t, stage) == request' = [request EXCEPT ![t].stage = stage]
In(t, stage) == request[t].stage = stage

\* The guest calls LCAlloc of a size, or LCDealloc of the address of a block, and
\* ensureInit tests g_inited.
Enter(t, size, addr) ==
  /\ In(t, "idle")
  /\ Primed /\ ~inited => \A u \in CacheThread : In(u, "idle")
  /\ IF addr = NoOne THEN size # 0
     ELSE /\ size = 0 /\ addr \in DOMAIN allotted
          /\ \A u \in CacheThread : request[u].addr # addr
  /\ request' = [request EXCEPT ![t] =
       [stage |-> IF inited THEN "lock" ELSE "init", size |-> size, addr |-> addr]]
  /\ UNCHANGED <<allotted, allocated, inited, holder>>

\* mutexInit frees the lock, whoever holds it.
InitLock(t) ==
  /\ In(t, "init")
  /\ holder' = NoOne /\ inited' = TRUE /\ To(t, "lock")
  /\ UNCHANGED <<allotted, allocated>>

\* mutexLock: an allocation goes on to the test of the budget.
Lock(t) ==
  /\ In(t, "lock") /\ holder = NoOne
  /\ holder' = t /\ To(t, IF request[t].addr = NoOne THEN "test" ELSE "free")
  /\ UNCHANGED <<allotted, allocated, inited>>

\* Mutation of TestBudget: only what is already allocated is held to the budget.
TestBudgetBefore(t) ==
  /\ In(t, "test")
  /\ To(t, IF allocated <= CacheSize /\ request[t].size <= HostMemory THEN "allot" ELSE "leave")
  /\ UNCHANGED <<allotted, allocated, inited, holder>>

\* The test of the budget, which wraps, and then the host's memory.
TestBudget(t) ==
  /\ In(t, "test")
  /\ To(t, IF (allocated + request[t].size) % Word <= CacheSize /\ request[t].size <= HostMemory
           THEN "allot" ELSE "leave")
  /\ UNCHANGED <<allotted, allocated, inited, holder>>

Leave(t) == holder' = NoOne /\ request' = [request EXCEPT ![t] = NoRequest]

Refuse(t) == In(t, "leave") /\ Leave(t) /\ UNCHANGED <<allotted, allocated, inited>>

LCAlloc(t, p) ==
  /\ In(t, "allot") /\ p \notin DOMAIN allotted
  /\ allotted' = [q \in DOMAIN allotted \cup {p} |-> IF q = p THEN request[t].size ELSE allotted[q]]
  /\ allocated' = (allocated + request[t].size) % Word
  /\ Leave(t) /\ UNCHANGED inited

LCDealloc(t) ==
  LET p == request[t].addr IN
  /\ In(t, "free")
  /\ allotted' = [q \in DOMAIN allotted \ {p} |-> allotted[q]]
  /\ allocated' = (allocated - allotted[p]) % Word
  /\ Leave(t) /\ UNCHANGED inited

CacheNext == \E t \in CacheThread :
  \/ \E size \in Sizes : Enter(t, size, NoOne)
  \/ \E p \in Address : Enter(t, 0, p)
  \/ InitLock(t) \/ Lock(t) \/ TestBudget(t) \/ Refuse(t) \/ LCDealloc(t)
  \/ \E p \in Address : LCAlloc(t, p)

\* The bytes of all blocks that are handed out.
Bytes == UNION {{p} \X (1..allotted[p]) : p \in DOMAIN allotted}

\* README.md:489: "The 16 KB budget is enforced".  What is handed out never exceeds
\* it, although the test of the budget can wrap, and is counted exactly.
BudgetKept ==
  /\ allocated = Cardinality(Bytes)
  /\ allocated <= CacheSize
==============================================================================
