------------------------------ MODULE FlockPool ------------------------------
(***************************************************************************)
(* The flocks of the Green Hills C library (source/ghs.cpp): indices into  *)
(* a pool of mutexes, created under the pool's mutex and destroyed without *)
(* it.  Every access to the pool is a step.  The pool is initialised, as   *)
(* the C library uses it before it runs any thread of the guest.           *)
(***************************************************************************)
EXTENDS Naturals

CONSTANTS Thread, NoThread,
          FlockMax   \* kFlockMax

Flock == 0..FlockMax - 1

VARIABLES
  inUse,     \* g_flockInUse
  freeIdx,   \* g_freeFlockIdx
  pool,      \* the thread that holds g_flockPoolMutex
  at, idx,   \* where a thread is in a create or a destroy, and its index
  flocks     \* flocks[t]: what thread t has created and not destroyed

flockVars == <<inUse, freeIdx, pool, at, idx, flocks>>

FlockInit ==
  /\ inUse = [i \in Flock |-> FALSE]
  /\ freeIdx = 0 /\ pool = NoThread
  /\ at = [t \in Thread |-> "run"]
  /\ idx = [t \in Thread |-> 0]
  /\ flocks = [t \in Thread |-> {}]

Go(t, from, to) == at[t] = from /\ at' = [at EXCEPT ![t] = to]

\* __ghs_flock_create: take the pool's mutex and the index to try first.
BeginCreate(t) ==
  /\ pool = NoThread /\ pool' = t
  /\ Go(t, "run", IF freeIdx < FlockMax THEN "try" ELSE "scan")
  /\ idx' = [idx EXCEPT ![t] = IF freeIdx < FlockMax THEN freeIdx ELSE 0]
  /\ UNCHANGED <<inUse, freeIdx, flocks>>

\* That index is in use after all: search from the start.
Try(t) ==
  /\ Go(t, "try", IF inUse[idx[t]] THEN "scan" ELSE "take")
  /\ idx' = [idx EXCEPT ![t] = IF inUse[@] THEN 0 ELSE @]
  /\ UNCHANGED <<inUse, freeIdx, pool, flocks>>

Scan(t) ==
  /\ idx[t] < FlockMax
  /\ Go(t, "scan", IF inUse[idx[t]] THEN "scan" ELSE "take")
  /\ idx' = [idx EXCEPT ![t] = IF inUse[@] THEN @ + 1 ELSE @]
  /\ UNCHANGED <<inUse, freeIdx, pool, flocks>>

\* All flocks are in use: OSPanic, from which a port's handler may return.
Panic(t) ==
  /\ idx[t] = FlockMax
  /\ Go(t, "scan", "run")
  /\ pool' = NoThread
  /\ UNCHANGED <<inUse, freeIdx, idx, flocks>>

Take(t) ==
  /\ Go(t, "take", "advance")
  /\ inUse' = [inUse EXCEPT ![idx[t]] = TRUE]
  /\ flocks' = [flocks EXCEPT ![t] = @ \cup {idx[t]}]
  /\ UNCHANGED <<freeIdx, pool, idx>>

Advance(t) ==
  /\ Go(t, "advance", "run")
  /\ freeIdx' = idx[t] + 1
  /\ pool' = NoThread
  /\ UNCHANGED <<inUse, idx, flocks>>

\* __ghs_flock_destroy, by the thread that created the flock.
Destroy(t, i) ==
  /\ i \in flocks[t]
  /\ Go(t, "run", "hint")
  /\ idx' = [idx EXCEPT ![t] = i]
  /\ inUse' = [inUse EXCEPT ![i] = FALSE]
  /\ flocks' = [flocks EXCEPT ![t] = @ \ {i}]
  /\ UNCHANGED <<freeIdx, pool>>

Hint(t) ==
  /\ Go(t, "hint", "run")
  /\ freeIdx' = idx[t]
  /\ UNCHANGED <<inUse, pool, idx, flocks>>

FlockNext ==
  \E t \in Thread :
    \/ BeginCreate(t) \/ Try(t) \/ Scan(t) \/ Panic(t) \/ Take(t) \/ Advance(t)
    \/ \E i \in Flock : Destroy(t, i)
    \/ Hint(t)

\* Although a destroy takes no lock, no flock is ever handed to a second owner.
FlocksApart ==
  \A t, u \in Thread : t # u =>
    /\ flocks[t] \cap flocks[u] = {}
    /\ at[t] = "take" => idx[t] \notin flocks[u]
==============================================================================
