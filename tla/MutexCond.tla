------------------------------ MODULE MutexCond ------------------------------
(***************************************************************************)
(* OSMutex and OSCondition (source/mutex.cpp, source/cond.cpp,             *)
(* source/internal/mutex_internal.hpp): a recursive mutex over a plain     *)
(* libnx Mutex that is locked once whatever the depth, the depth being     *)
(* kept in HostMutex.count with no protection of its own, and a condition  *)
(* variable whose wait puts that depth aside.                              *)
(*                                                                         *)
(* Each access to count and each libnx call is a step of its own.  A guest *)
(* thread may call any operation on any mutex at any depth, also unlock a  *)
(* mutex it does not hold; OSWaitCond is called, as its header asks, with  *)
(* the mutex held.  OSInitMutex and OSInitCond only create the host object *)
(* (see HandleTable) and are steps that change nothing here.               *)
(***************************************************************************)
EXTENDS Naturals

CONSTANTS Thread, Mutex, Cond, NoThread, NoMutex, NoCond,
          MaxDepth   \* bound on the guest's recursion, far below 2^32

ASSUME MutexCondAssumption ==
  /\ NoThread \notin Thread
  /\ NoMutex \notin Mutex
  /\ NoCond \notin Cond
  /\ MaxDepth \in Nat \ {0}

VARIABLES owner,   \* owner[m]: HostMutex.lock, the thread that holds the libnx Mutex
          count,   \* count[m]: HostMutex.count
          pc,      \* where each thread is
          on,      \* the mutex of the call a thread is in
          at,      \* the condition a thread sleeps on inside condvarWait
          saved,   \* `saved` of OSWaitCond
          depth    \* depth[t][m]: locks minus unlocks of m by t, as the guest counts

vars == <<owner, count, pc, on, at, saved, depth>>

Init ==
  /\ owner = [m \in Mutex |-> NoThread]
  /\ count = [m \in Mutex |-> 0]
  /\ pc = [t \in Thread |-> "run"]
  /\ on = [t \in Thread |-> NoMutex]
  /\ at = [t \in Thread |-> NoCond]
  /\ saved = [t \in Thread |-> 0]
  /\ depth = [t \in Thread |-> [m \in Mutex |-> 0]]

Goto(t, place) == pc' = [pc EXCEPT ![t] = place]
Returned(t) == Goto(t, "run") /\ on' = [on EXCEPT ![t] = NoMutex]
Deeper(t, m) == depth' = [depth EXCEPT ![t][m] = @ + 1]
Shallower(t, m) == depth' = [depth EXCEPT ![t][m] = @ - 1]

\* OSLockMutex and OSTryLockMutex by the owner: count++ and no kernel call.
LockAgain(t, m) ==
  /\ pc[t] = "run" /\ owner[m] = t
  /\ depth[t][m] < MaxDepth
  /\ count' = [count EXCEPT ![m] = @ + 1]
  /\ Deeper(t, m)
  /\ UNCHANGED <<owner, pc, on, at, saved>>

\* OSLockMutex by another thread: it goes on to mutexLock.
LockOther(t, m) ==
  /\ pc[t] = "run" /\ owner[m] # t
  /\ Goto(t, "lock") /\ on' = [on EXCEPT ![t] = m]
  /\ UNCHANGED <<owner, count, at, saved, depth>>

\* mutexLock returns once the mutex is free.
LockKernel(t) ==
  /\ pc[t] = "lock" /\ owner[on[t]] = NoThread
  /\ owner' = [owner EXCEPT ![on[t]] = t]
  /\ Goto(t, "entered")
  /\ UNCHANGED <<count, on, at, saved, depth>>

\* OSTryLockMutex by another thread: mutexTryLock succeeds, or the call returns 0.
TryLock(t, m) ==
  /\ pc[t] = "run" /\ owner[m] = NoThread
  /\ owner' = [owner EXCEPT ![m] = t]
  /\ Goto(t, "entered") /\ on' = [on EXCEPT ![t] = m]
  /\ UNCHANGED <<count, at, saved, depth>>

\* count = 1 after the kernel lock, and the return to the guest.
SetCount(t) ==
  /\ pc[t] = "entered"
  /\ count' = [count EXCEPT ![on[t]] = 1]
  /\ Deeper(t, on[t]) /\ Returned(t)
  /\ UNCHANGED <<owner, at, saved>>

\* Mutation of Unlock: the ownership test is dropped.
UnlockUnchecked(t, m) ==
  /\ pc[t] = "run" /\ count[m] > 0
  /\ count' = [count EXCEPT ![m] = @ - 1]
  /\ IF count[m] = 1
     THEN Goto(t, "release") /\ on' = [on EXCEPT ![t] = m] /\ UNCHANGED depth
     ELSE depth' = [depth EXCEPT ![t][m] = IF @ = 0 THEN 0 ELSE @ - 1] /\ UNCHANGED <<pc, on>>
  /\ UNCHANGED <<owner, at, saved>>

\* Mutation of Unlock: the test reads count before the decrement.
UnlockOffByOne(t, m) ==
  /\ pc[t] = "run" /\ owner[m] = t
  /\ count' = [count EXCEPT ![m] = IF @ = 0 THEN 0 ELSE @ - 1]
  /\ IF count[m] = 0
     THEN Goto(t, "release") /\ on' = [on EXCEPT ![t] = m] /\ UNCHANGED depth
     ELSE Shallower(t, m) /\ UNCHANGED <<pc, on>>
  /\ UNCHANGED <<owner, at, saved>>

\* OSUnlockMutex by the owner: --count, and on to mutexUnlock when it is 0.
\* By any other thread the call returns without a step.
Unlock(t, m) ==
  /\ pc[t] = "run" /\ owner[m] = t
  /\ count' = [count EXCEPT ![m] = @ - 1]
  /\ IF count[m] = 1
     THEN Goto(t, "release") /\ on' = [on EXCEPT ![t] = m] /\ UNCHANGED depth
     ELSE Shallower(t, m) /\ UNCHANGED <<pc, on>>
  /\ UNCHANGED <<owner, at, saved>>

\* mutexUnlock and the return to the guest.
UnlockKernel(t) ==
  /\ pc[t] = "release"
  /\ owner' = [owner EXCEPT ![on[t]] = NoThread]
  /\ Shallower(t, on[t]) /\ Returned(t)
  /\ UNCHANGED <<count, at, saved>>

\* OSWaitCond: saved = count; count = 0.
WaitSave(t, m, c) ==
  /\ pc[t] = "run" /\ owner[m] = t
  /\ saved' = [saved EXCEPT ![t] = count[m]]
  /\ count' = [count EXCEPT ![m] = 0]
  /\ Goto(t, "wait") /\ on' = [on EXCEPT ![t] = m] /\ at' = [at EXCEPT ![t] = c]
  /\ UNCHANGED <<owner, depth>>

\* condvarWait: libnx gives the mutex up and queues the thread in one step.
WaitSleep(t) ==
  /\ pc[t] = "wait"
  /\ owner' = [owner EXCEPT ![on[t]] = NoThread]
  /\ Goto(t, "asleep")
  /\ UNCHANGED <<count, on, at, saved, depth>>

\* Mutation of SignalCond: condvarWakeOne instead of condvarWakeAll.
SignalOne(t, c) ==
  /\ pc[t] = "run"
  /\ \E w \in Thread :
       /\ pc[w] = "asleep" /\ at[w] = c
       /\ Goto(w, "woken") /\ at' = [at EXCEPT ![w] = NoCond]
  /\ UNCHANGED <<owner, count, on, saved, depth>>

\* OSSignalCond: condvarWakeAll.  Threads still on their way into condvarWait
\* hold the mutex and are not on the queue yet.
SignalCond(t, c) ==
  LET woken == {w \in Thread : pc[w] = "asleep" /\ at[w] = c} IN
  /\ pc[t] = "run"
  /\ pc' = [w \in Thread |-> IF w \in woken THEN "woken" ELSE pc[w]]
  /\ at' = [w \in Thread |-> IF w \in woken THEN NoCond ELSE at[w]]
  /\ UNCHANGED <<owner, count, on, saved, depth>>

\* condvarWait takes the mutex back before it returns.
WaitLock(t) ==
  /\ pc[t] = "woken" /\ owner[on[t]] = NoThread
  /\ owner' = [owner EXCEPT ![on[t]] = t]
  /\ Goto(t, "restore")
  /\ UNCHANGED <<count, on, at, saved, depth>>

\* Mutation of WaitRestore: the depth comes back as 1.
WaitRestoreFlat(t) ==
  /\ pc[t] = "restore"
  /\ count' = [count EXCEPT ![on[t]] = 1]
  /\ saved' = [saved EXCEPT ![t] = 0]
  /\ Returned(t)
  /\ UNCHANGED <<owner, at, depth>>

\* count = saved, and the return to the guest.
WaitRestore(t) ==
  /\ pc[t] = "restore"
  /\ count' = [count EXCEPT ![on[t]] = saved[t]]
  /\ saved' = [saved EXCEPT ![t] = 0]
  /\ Returned(t)
  /\ UNCHANGED <<owner, at, depth>>

\* The steps of a call after its first: what a thread inside the library does.
Inside(t) == \/ LockKernel(t) \/ SetCount(t) \/ UnlockKernel(t)
             \/ WaitSleep(t) \/ WaitLock(t) \/ WaitRestore(t)

\* The calls of the guest program.
Guest(t) ==
  \/ \E m \in Mutex : \/ LockAgain(t, m) \/ LockOther(t, m) \/ TryLock(t, m) \/ Unlock(t, m)
                      \/ \E c \in Cond : WaitSave(t, m, c)
  \/ \E c \in Cond : SignalCond(t, c)

Next == \E t \in Thread : Guest(t) \/ Inside(t)

Spec == Init /\ [][Next]_vars
------------------------------------------------------------------------------
Places == {"run", "lock", "entered", "release", "wait", "asleep", "woken", "restore"}

TypeOK ==
  /\ owner \in [Mutex -> Thread \cup {NoThread}]
  /\ count \in [Mutex -> Nat]
  /\ pc \in [Thread -> Places]
  /\ on \in [Thread -> Mutex \cup {NoMutex}]
  /\ at \in [Thread -> Cond \cup {NoCond}]
  /\ saved \in [Thread -> Nat]
  /\ depth \in [Thread -> [Mutex -> Nat]]

------------------------------------------------------------------------------
\* t is in a call on m at a point where it is given up: asleep or not back yet.
Away(t, m) == pc[t] \in {"asleep", "woken"} /\ on[t] = m

\* A thread that the guest sees holding m (its own lock/unlock balance is
\* positive, and it is not asleep in OSWaitCond) is alone in that: whatever
\* mixes of nested locks, try-locks, waits and stray unlocks ran before.
MutualExclusion ==
  \A m \in Mutex : \A t, u \in Thread :
    depth[t][m] > 0 /\ depth[u][m] > 0 /\ ~Away(t, m) /\ ~Away(u, m) => t = u

\* The unprotected count agrees with what the guest did, at every point where
\* the guest runs: in particular a wait at depth n comes back at depth n, and
\* n unlocks, no fewer, free the mutex.
DepthExact ==
  \A t \in Thread : pc[t] = "run" =>
    \A m \in Mutex :
      /\ depth[t][m] > 0 <=> owner[m] = t
      /\ owner[m] = t => count[m] = depth[t][m]

\* The inductive strengthening.  A thread is on a mutex exactly while it is in a
\* call, and on a condition exactly from the save to the wake-up.
CallsConsistent ==
  \A t \in Thread :
    /\ pc[t] = "run" <=> on[t] = NoMutex
    /\ pc[t] \in {"wait", "asleep"} <=> at[t] # NoCond

\* Which of its places a thread may be in with the mutex of its call held.
HoldsItsMutex ==
  \A t \in Thread : pc[t] # "run" =>
    (owner[on[t]] = t <=> pc[t] \in {"entered", "release", "wait", "restore"})

\* What the guest's balance, count and saved are to each other in a call on m.
InCall(t, m) ==
  CASE pc[t] \in {"lock", "entered"} -> depth[t][m] = 0
    [] pc[t] = "release" -> depth[t][m] = 1 /\ count[m] = 0
    [] OTHER -> depth[t][m] = saved[t] /\ saved[t] > 0

OutsideCall(t, m) ==
  /\ depth[t][m] > 0 <=> owner[m] = t
  /\ owner[m] = t => count[m] = depth[t][m]

Balance == \A t \in Thread, m \in Mutex :
             IF on[t] = m THEN InCall(t, m) ELSE OutsideCall(t, m)

IInv == TypeOK /\ CallsConsistent /\ HoldsItsMutex /\ Balance

\* "count is read and written only by the thread that owns the lock": a step
\* that changes count is a step of the thread that owns the mutex before and
\* after it, and of no other thread.
CountOnlyByOwner ==
  [][\A m \in Mutex : count'[m] # count[m] =>
       /\ owner[m] # NoThread /\ owner'[m] = owner[m]
       /\ \A u \in Thread : pc'[u] # pc[u] \/ depth'[u] # depth[u] => u = owner[m]]_vars

\* The recursion depth as the guest would see it, for the holder of m: count,
\* or what count is about to become or was before it was put aside.
GuestLevel(m) ==
  IF owner[m] = NoThread THEN 0
  ELSE IF on[owner[m]] # m THEN count[m]
  ELSE CASE pc[owner[m]] \in {"entered", "release"} -> 1
         [] pc[owner[m]] \in {"wait", "restore"} -> saved[owner[m]]
         [] OTHER -> count[m]

Parked(t) == pc[t] \in {"asleep", "woken"}

\* The pair of modules implements the monitor a guest expects, step by step.
Monitor == INSTANCE RecursiveMonitor WITH
  holder <- owner,
  level <- [m \in Mutex |-> GuestLevel(m)],
  parkedOn <- [t \in Thread |-> IF Parked(t) THEN on[t] ELSE NoMutex],
  parkedAt <- [t \in Thread |-> IF Parked(t) THEN at[t] ELSE NoCond],
  kept <- [t \in Thread |-> IF Parked(t) THEN saved[t] ELSE 0]

ImplementsMonitor == Monitor!Spec
==============================================================================
