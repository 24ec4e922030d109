---------------------------- MODULE MutexCondProofs ----------------------------
(***************************************************************************)
(* The recursive mutex and the condition variable for any set of threads,  *)
(* mutexes and conditions and any depth: type correctness, the inductive   *)
(* invariant, mutual exclusion, the exactness of the unprotected count,    *)
(* and that the pair implements RecursiveMonitor.                          *)
(***************************************************************************)
EXTENDS MutexCond, TLAPS

\* A nested lock deepens count and the guest's balance together.
LEMMA LockAgainKeeps ==
  ASSUME IInv, NEW t \in Thread, NEW m \in Mutex, LockAgain(t, m)
  PROVE  IInv'
<1> USE MutexCondAssumption DEF Goto, Returned, Deeper, Shallower
<1>1. TypeOK'
  BY DEF IInv, TypeOK, Places, CallsConsistent, HoldsItsMutex, Balance, InCall, OutsideCall, LockAgain
<1>2. CallsConsistent'
  BY DEF IInv, TypeOK, Places, CallsConsistent, LockAgain
<1>3. HoldsItsMutex'
  BY DEF IInv, TypeOK, Places, CallsConsistent, HoldsItsMutex, LockAgain
<1>4. Balance'
  <2> SUFFICES ASSUME NEW u \in Thread, NEW n \in Mutex
               PROVE  (IF on[u] = n THEN InCall(u, n) ELSE OutsideCall(u, n))'
    BY DEF Balance
  <2>1. IF on[u] = n THEN InCall(u, n) ELSE OutsideCall(u, n)
    BY DEF IInv, Balance
  <2>2. IF on[t] = n THEN InCall(t, n) ELSE OutsideCall(t, n)
    BY DEF IInv, Balance
  <2> QED BY <2>1, <2>2 DEF IInv, TypeOK, Places, CallsConsistent, HoldsItsMutex, InCall, OutsideCall, LockAgain
<1> QED BY <1>1, <1>2, <1>3, <1>4 DEF IInv

\* A thread that goes on to mutexLock holds nothing of that mutex yet.
LEMMA LockOtherKeeps ==
  ASSUME IInv, NEW t \in Thread, NEW m \in Mutex, LockOther(t, m)
  PROVE  IInv'
<1> USE MutexCondAssumption DEF Goto, Returned, Deeper, Shallower
<1>1. TypeOK'
  BY DEF IInv, TypeOK, Places, CallsConsistent, HoldsItsMutex, Balance, InCall, OutsideCall, LockOther
<1>2. CallsConsistent'
  BY DEF IInv, TypeOK, Places, CallsConsistent, LockOther
<1>3. HoldsItsMutex'
  BY DEF IInv, TypeOK, Places, CallsConsistent, HoldsItsMutex, LockOther
<1>4. Balance'
  <2> SUFFICES ASSUME NEW u \in Thread, NEW n \in Mutex
               PROVE  (IF on[u] = n THEN InCall(u, n) ELSE OutsideCall(u, n))'
    BY DEF Balance
  <2>1. IF on[u] = n THEN InCall(u, n) ELSE OutsideCall(u, n)
    BY DEF IInv, Balance
  <2>2. IF on[t] = n THEN InCall(t, n) ELSE OutsideCall(t, n)
    BY DEF IInv, Balance
  <2> QED BY <2>1, <2>2 DEF IInv, TypeOK, Places, CallsConsistent, HoldsItsMutex, InCall, OutsideCall, LockOther
<1> QED BY <1>1, <1>2, <1>3, <1>4 DEF IInv

\* mutexLock gives the mutex to a thread whose balance on it is zero.
LEMMA LockKernelKeeps ==
  ASSUME IInv, NEW t \in Thread, LockKernel(t)
  PROVE  IInv'
<1> USE MutexCondAssumption DEF Goto, Returned, Deeper, Shallower
<1>1. TypeOK'
  BY DEF IInv, TypeOK, Places, CallsConsistent, HoldsItsMutex, Balance, InCall, OutsideCall, LockKernel
<1>2. CallsConsistent'
  BY DEF IInv, TypeOK, Places, CallsConsistent, LockKernel
<1>3. HoldsItsMutex'
  BY DEF IInv, TypeOK, Places, CallsConsistent, HoldsItsMutex, LockKernel
<1>4. Balance'
  <2> SUFFICES ASSUME NEW u \in Thread, NEW n \in Mutex
               PROVE  (IF on[u] = n THEN InCall(u, n) ELSE OutsideCall(u, n))'
    BY DEF Balance
  <2>1. IF on[u] = n THEN InCall(u, n) ELSE OutsideCall(u, n)
    BY DEF IInv, Balance
  <2>2. IF on[t] = n THEN InCall(t, n) ELSE OutsideCall(t, n)
    BY DEF IInv, Balance
  <2> QED BY <2>1, <2>2 DEF IInv, TypeOK, Places, CallsConsistent, HoldsItsMutex, InCall, OutsideCall, LockKernel
<1> QED BY <1>1, <1>2, <1>3, <1>4 DEF IInv

\* A successful try-lock is at the same point as a finished mutexLock.
LEMMA TryLockKeeps ==
  ASSUME IInv, NEW t \in Thread, NEW m \in Mutex, TryLock(t, m)
  PROVE  IInv'
<1> USE MutexCondAssumption DEF Goto, Returned, Deeper, Shallower
<1>1. TypeOK'
  BY DEF IInv, TypeOK, Places, CallsConsistent, HoldsItsMutex, Balance, InCall, OutsideCall, TryLock
<1>2. CallsConsistent'
  BY DEF IInv, TypeOK, Places, CallsConsistent, TryLock
<1>3. HoldsItsMutex'
  BY DEF IInv, TypeOK, Places, CallsConsistent, HoldsItsMutex, TryLock
<1>4. Balance'
  <2> SUFFICES ASSUME NEW u \in Thread, NEW n \in Mutex
               PROVE  (IF on[u] = n THEN InCall(u, n) ELSE OutsideCall(u, n))'
    BY DEF Balance
  <2>1. IF on[u] = n THEN InCall(u, n) ELSE OutsideCall(u, n)
    BY DEF IInv, Balance
  <2>2. IF on[t] = n THEN InCall(t, n) ELSE OutsideCall(t, n)
    BY DEF IInv, Balance
  <2> QED BY <2>1, <2>2 DEF IInv, TypeOK, Places, CallsConsistent, HoldsItsMutex, InCall, OutsideCall, TryLock
<1> QED BY <1>1, <1>2, <1>3, <1>4 DEF IInv

\* count becomes 1 as the guest's balance does.
LEMMA SetCountKeeps ==
  ASSUME IInv, NEW t \in Thread, SetCount(t)
  PROVE  IInv'
<1> USE MutexCondAssumption DEF Goto, Returned, Deeper, Shallower
<1>1. TypeOK'
  BY DEF IInv, TypeOK, Places, CallsConsistent, HoldsItsMutex, Balance, InCall, OutsideCall, SetCount
<1>2. CallsConsistent'
  BY DEF IInv, TypeOK, Places, CallsConsistent, SetCount
<1>3. HoldsItsMutex'
  BY DEF IInv, TypeOK, Places, CallsConsistent, HoldsItsMutex, SetCount
<1>4. Balance'
  <2> SUFFICES ASSUME NEW u \in Thread, NEW n \in Mutex
               PROVE  (IF on[u] = n THEN InCall(u, n) ELSE OutsideCall(u, n))'
    BY DEF Balance
  <2>1. IF on[u] = n THEN InCall(u, n) ELSE OutsideCall(u, n)
    BY DEF IInv, Balance
  <2>2. IF on[t] = n THEN InCall(t, n) ELSE OutsideCall(t, n)
    BY DEF IInv, Balance
  <2> QED BY <2>1, <2>2 DEF IInv, TypeOK, Places, CallsConsistent, HoldsItsMutex, InCall, OutsideCall, SetCount
<1> QED BY <1>1, <1>2, <1>3, <1>4 DEF IInv

\* An unlock by the owner lowers count; the last one goes on to mutexUnlock.
LEMMA UnlockKeeps ==
  ASSUME IInv, NEW t \in Thread, NEW m \in Mutex, Unlock(t, m)
  PROVE  IInv'
<1> USE MutexCondAssumption DEF Goto, Returned, Deeper, Shallower
<1>1. TypeOK'
  <2>1. OutsideCall(t, m)
    BY DEF IInv, TypeOK, CallsConsistent, Balance, Unlock
  <2>2. depth[t][m] \in Nat \ {0} /\ count[m] = depth[t][m]
    BY <2>1 DEF IInv, TypeOK, OutsideCall, Unlock
  <2>3. count[m] - 1 \in Nat /\ depth[t][m] - 1 \in Nat
    BY <2>2
  <2>4. count' \in [Mutex -> Nat]
    BY <2>3 DEF IInv, TypeOK, Unlock
  <2>5. depth' \in [Thread -> [Mutex -> Nat]]
    BY <2>3 DEF IInv, TypeOK, Unlock
  <2>6. pc' \in [Thread -> Places] /\ on' \in [Thread -> Mutex \cup {NoMutex}]
    <3>1. pc \in [Thread -> Places] /\ on \in [Thread -> Mutex \cup {NoMutex}]
      BY DEF IInv, TypeOK
    <3>2. \/ pc' = [pc EXCEPT ![t] = "release"] /\ on' = [on EXCEPT ![t] = m]
          \/ pc' = pc /\ on' = on
      BY ONLY Unlock(t, m) DEF Unlock, Goto
    <3> QED BY ONLY <3>1, <3>2 DEF Places
  <2>7. UNCHANGED <<owner, at, saved>>
    BY DEF Unlock
  <2> QED BY <2>4, <2>5, <2>6, <2>7 DEF IInv, TypeOK
<1>2. CallsConsistent'
  BY DEF IInv, TypeOK, Places, CallsConsistent, Unlock
<1>3. HoldsItsMutex'
  BY DEF IInv, TypeOK, Places, CallsConsistent, HoldsItsMutex, Unlock
<1>4. Balance'
  <2> SUFFICES ASSUME NEW u \in Thread, NEW n \in Mutex
               PROVE  (IF on[u] = n THEN InCall(u, n) ELSE OutsideCall(u, n))'
    BY DEF Balance
  <2>1. IF on[u] = n THEN InCall(u, n) ELSE OutsideCall(u, n)
    BY DEF IInv, Balance
  <2>2. IF on[t] = n THEN InCall(t, n) ELSE OutsideCall(t, n)
    BY DEF IInv, Balance
  <2> QED BY <2>1, <2>2 DEF IInv, TypeOK, Places, CallsConsistent, HoldsItsMutex, InCall, OutsideCall, Unlock
<1> QED BY <1>1, <1>2, <1>3, <1>4 DEF IInv

\* mutexUnlock frees the mutex as the guest's balance reaches zero.
LEMMA UnlockKernelKeeps ==
  ASSUME IInv, NEW t \in Thread, UnlockKernel(t)
  PROVE  IInv'
<1> USE MutexCondAssumption DEF Goto, Returned, Deeper, Shallower
<1>1. TypeOK'
  BY DEF IInv, TypeOK, Places, CallsConsistent, HoldsItsMutex, Balance, InCall, OutsideCall, UnlockKernel
<1>2. CallsConsistent'
  BY DEF IInv, TypeOK, Places, CallsConsistent, UnlockKernel
<1>3. HoldsItsMutex'
  BY DEF IInv, TypeOK, Places, CallsConsistent, HoldsItsMutex, UnlockKernel
<1>4. Balance'
  <2> SUFFICES ASSUME NEW u \in Thread, NEW n \in Mutex
               PROVE  (IF on[u] = n THEN InCall(u, n) ELSE OutsideCall(u, n))'
    BY DEF Balance
  <2>1. IF on[u] = n THEN InCall(u, n) ELSE OutsideCall(u, n)
    BY DEF IInv, Balance
  <2>2. IF on[t] = n THEN InCall(t, n) ELSE OutsideCall(t, n)
    BY DEF IInv, Balance
  <2> QED BY <2>1, <2>2 DEF IInv, TypeOK, Places, CallsConsistent, HoldsItsMutex, InCall, OutsideCall, UnlockKernel
<1> QED BY <1>1, <1>2, <1>3, <1>4 DEF IInv

\* OSWaitCond moves the depth from count to saved.
LEMMA WaitSaveKeeps ==
  ASSUME IInv, NEW t \in Thread, NEW m \in Mutex, NEW c \in Cond, WaitSave(t, m, c)
  PROVE  IInv'
<1> USE MutexCondAssumption DEF Goto, Returned, Deeper, Shallower
<1>1. TypeOK'
  BY DEF IInv, TypeOK, Places, CallsConsistent, HoldsItsMutex, Balance, InCall, OutsideCall, WaitSave
<1>2. CallsConsistent'
  BY DEF IInv, TypeOK, Places, CallsConsistent, WaitSave
<1>3. HoldsItsMutex'
  BY DEF IInv, TypeOK, Places, CallsConsistent, HoldsItsMutex, WaitSave
<1>4. Balance'
  <2> SUFFICES ASSUME NEW u \in Thread, NEW n \in Mutex
               PROVE  (IF on[u] = n THEN InCall(u, n) ELSE OutsideCall(u, n))'
    BY DEF Balance
  <2>1. IF on[u] = n THEN InCall(u, n) ELSE OutsideCall(u, n)
    BY DEF IInv, Balance
  <2>2. IF on[t] = n THEN InCall(t, n) ELSE OutsideCall(t, n)
    BY DEF IInv, Balance
  <2> QED BY <2>1, <2>2 DEF IInv, TypeOK, Places, CallsConsistent, HoldsItsMutex, InCall, OutsideCall, WaitSave
<1> QED BY <1>1, <1>2, <1>3, <1>4 DEF IInv

\* condvarWait gives the mutex up with the depth in saved.
LEMMA WaitSleepKeeps ==
  ASSUME IInv, NEW t \in Thread, WaitSleep(t)
  PROVE  IInv'
<1> USE MutexCondAssumption DEF Goto, Returned, Deeper, Shallower
<1>1. TypeOK'
  BY DEF IInv, TypeOK, Places, CallsConsistent, HoldsItsMutex, Balance, InCall, OutsideCall, WaitSleep
<1>2. CallsConsistent'
  BY DEF IInv, TypeOK, Places, CallsConsistent, WaitSleep
<1>3. HoldsItsMutex'
  BY DEF IInv, TypeOK, Places, CallsConsistent, HoldsItsMutex, WaitSleep
<1>4. Balance'
  <2> SUFFICES ASSUME NEW u \in Thread, NEW n \in Mutex
               PROVE  (IF on[u] = n THEN InCall(u, n) ELSE OutsideCall(u, n))'
    BY DEF Balance
  <2>1. IF on[u] = n THEN InCall(u, n) ELSE OutsideCall(u, n)
    BY DEF IInv, Balance
  <2>2. IF on[t] = n THEN InCall(t, n) ELSE OutsideCall(t, n)
    BY DEF IInv, Balance
  <2> QED BY <2>1, <2>2 DEF IInv, TypeOK, Places, CallsConsistent, HoldsItsMutex, InCall, OutsideCall, WaitSleep
<1> QED BY <1>1, <1>2, <1>3, <1>4 DEF IInv

\* A broadcast moves sleepers only, and no sleeper holds its mutex.
LEMMA SignalCondKeeps ==
  ASSUME IInv, NEW t \in Thread, NEW c \in Cond, SignalCond(t, c)
  PROVE  IInv'
<1> USE MutexCondAssumption DEF Goto, Returned, Deeper, Shallower
<1>1. TypeOK'
  BY DEF IInv, TypeOK, Places, CallsConsistent, HoldsItsMutex, Balance, InCall, OutsideCall, SignalCond
<1>2. CallsConsistent'
  BY DEF IInv, TypeOK, Places, CallsConsistent, SignalCond
<1>3. HoldsItsMutex'
  BY DEF IInv, TypeOK, Places, CallsConsistent, HoldsItsMutex, SignalCond
<1>4. Balance'
  <2> SUFFICES ASSUME NEW u \in Thread, NEW n \in Mutex
               PROVE  (IF on[u] = n THEN InCall(u, n) ELSE OutsideCall(u, n))'
    BY DEF Balance
  <2>1. IF on[u] = n THEN InCall(u, n) ELSE OutsideCall(u, n)
    BY DEF IInv, Balance
  <2>2. IF on[t] = n THEN InCall(t, n) ELSE OutsideCall(t, n)
    BY DEF IInv, Balance
  <2> QED BY <2>1, <2>2 DEF IInv, TypeOK, Places, CallsConsistent, HoldsItsMutex, InCall, OutsideCall, SignalCond
<1> QED BY <1>1, <1>2, <1>3, <1>4 DEF IInv

\* A woken thread takes the mutex back with the depth still in saved.
LEMMA WaitLockKeeps ==
  ASSUME IInv, NEW t \in Thread, WaitLock(t)
  PROVE  IInv'
<1> USE MutexCondAssumption DEF Goto, Returned, Deeper, Shallower
<1>1. TypeOK'
  BY DEF IInv, TypeOK, Places, CallsConsistent, HoldsItsMutex, Balance, InCall, OutsideCall, WaitLock
<1>2. CallsConsistent'
  BY DEF IInv, TypeOK, Places, CallsConsistent, WaitLock
<1>3. HoldsItsMutex'
  BY DEF IInv, TypeOK, Places, CallsConsistent, HoldsItsMutex, WaitLock
<1>4. Balance'
  <2> SUFFICES ASSUME NEW u \in Thread, NEW n \in Mutex
               PROVE  (IF on[u] = n THEN InCall(u, n) ELSE OutsideCall(u, n))'
    BY DEF Balance
  <2>1. IF on[u] = n THEN InCall(u, n) ELSE OutsideCall(u, n)
    BY DEF IInv, Balance
  <2>2. IF on[t] = n THEN InCall(t, n) ELSE OutsideCall(t, n)
    BY DEF IInv, Balance
  <2> QED BY <2>1, <2>2 DEF IInv, TypeOK, Places, CallsConsistent, HoldsItsMutex, InCall, OutsideCall, WaitLock
<1> QED BY <1>1, <1>2, <1>3, <1>4 DEF IInv

\* The depth moves from saved back to count.
LEMMA WaitRestoreKeeps ==
  ASSUME IInv, NEW t \in Thread, WaitRestore(t)
  PROVE  IInv'
<1> USE MutexCondAssumption DEF Goto, Returned, Deeper, Shallower
<1>1. TypeOK'
  BY DEF IInv, TypeOK, Places, CallsConsistent, HoldsItsMutex, Balance, InCall, OutsideCall, WaitRestore
<1>2. CallsConsistent'
  BY DEF IInv, TypeOK, Places, CallsConsistent, WaitRestore
<1>3. HoldsItsMutex'
  BY DEF IInv, TypeOK, Places, CallsConsistent, HoldsItsMutex, WaitRestore
<1>4. Balance'
  <2> SUFFICES ASSUME NEW u \in Thread, NEW n \in Mutex
               PROVE  (IF on[u] = n THEN InCall(u, n) ELSE OutsideCall(u, n))'
    BY DEF Balance
  <2>1. IF on[u] = n THEN InCall(u, n) ELSE OutsideCall(u, n)
    BY DEF IInv, Balance
  <2>2. IF on[t] = n THEN InCall(t, n) ELSE OutsideCall(t, n)
    BY DEF IInv, Balance
  <2> QED BY <2>1, <2>2 DEF IInv, TypeOK, Places, CallsConsistent, HoldsItsMutex, InCall, OutsideCall, WaitRestore
<1> QED BY <1>1, <1>2, <1>3, <1>4 DEF IInv

\* Every step of every thread keeps the invariant.
LEMMA NextKeeps == IInv /\ [Next]_vars => IInv'
<1> SUFFICES ASSUME IInv, [Next]_vars PROVE IInv'
  OBVIOUS
<1>1. ASSUME NEW t \in Thread, Guest(t) PROVE IInv'
  BY <1>1, LockAgainKeeps, LockOtherKeeps, TryLockKeeps, UnlockKeeps, WaitSaveKeeps,
     SignalCondKeeps DEF Guest
<1>2. ASSUME NEW t \in Thread, Inside(t) PROVE IInv'
  BY <1>2, LockKernelKeeps, SetCountKeeps, UnlockKernelKeeps, WaitSleepKeeps,
     WaitLockKeeps, WaitRestoreKeeps DEF Inside
<1>3. CASE UNCHANGED vars
  BY <1>3 DEF vars, IInv, TypeOK, CallsConsistent, HoldsItsMutex, Balance, InCall, OutsideCall
<1> QED BY <1>1, <1>2, <1>3 DEF Next

\* The invariant the other results rest on holds in every reachable state.
THEOREM Invariance == Spec => []IInv
<1>1. Init => IInv
  BY MutexCondAssumption
     DEF Init, IInv, TypeOK, Places, CallsConsistent, HoldsItsMutex, Balance, OutsideCall
<1> QED BY <1>1, NextKeeps, PTL DEF Spec

\* Every owner, depth, saved depth and wait set keeps its type: no count ever
\* drops below zero, whatever the mix of locks, unlocks and waits.
THEOREM Typing == Spec => []TypeOK
<1>1. IInv => TypeOK
  BY DEF IInv
<1> QED BY <1>1, Invariance, PTL

\* Two threads never both hold a mutex in the eyes of the guest (OSLockMutex,
\* OSTryLockMutex, OSUnlockMutex and OSWaitCond in any mix).
THEOREM MutexExcludes == Spec => []MutualExclusion
<1>1. IInv => MutualExclusion
  <2> SUFFICES ASSUME IInv, NEW m \in Mutex, NEW t \in Thread,
                      depth[t][m] > 0, ~Away(t, m)
               PROVE  owner[m] = t
    BY DEF MutualExclusion
  <2>1. CASE on[t] = m
    BY <2>1, MutexCondAssumption
       DEF IInv, TypeOK, Places, CallsConsistent, HoldsItsMutex, Balance, InCall, Away
  <2>2. CASE on[t] # m
    BY <2>2 DEF IInv, Balance, OutsideCall
  <2> QED BY <2>1, <2>2
<1> QED BY <1>1, Invariance, PTL

\* count is exact whenever its owner runs: nested locks and waits included.
THEOREM CountIsExact == Spec => []DepthExact
<1>1. IInv => DepthExact
  BY MutexCondAssumption DEF IInv, TypeOK, CallsConsistent, Balance, OutsideCall, DepthExact
<1> QED BY <1>1, Invariance, PTL

\* The comment of mutex_internal.hpp: only the owner writes count, which is why
\* it needs no protection of its own.
THEOREM OwnerAloneWritesCount == Spec => CountOnlyByOwner
<1> DEFINE Written == \A m \in Mutex : count'[m] # count[m] =>
             /\ owner[m] # NoThread /\ owner'[m] = owner[m]
             /\ \A u \in Thread : pc'[u] # pc[u] \/ depth'[u] # depth[u] => u = owner[m]
<1>1. IInv /\ [Next]_vars => [Written]_vars
  <2> SUFFICES ASSUME IInv, Next PROVE Written
    BY DEF vars
  <2> USE MutexCondAssumption
          DEF IInv, TypeOK, CallsConsistent, HoldsItsMutex, Goto, Returned, Deeper, Shallower
  <2>1. ASSUME NEW t \in Thread, Guest(t) PROVE Written
    <3>1. ASSUME NEW m \in Mutex, LockAgain(t, m) PROVE Written
      BY <3>1 DEF LockAgain
    <3>2. ASSUME NEW m \in Mutex, LockOther(t, m) \/ TryLock(t, m) PROVE Written
      BY <3>2 DEF LockOther, TryLock
    <3>3. ASSUME NEW m \in Mutex, Unlock(t, m) PROVE Written
      BY <3>3 DEF Unlock
    <3>4. ASSUME NEW m \in Mutex, NEW c \in Cond, WaitSave(t, m, c) PROVE Written
      BY <3>4 DEF WaitSave
    <3>5. ASSUME NEW c \in Cond, SignalCond(t, c) PROVE Written
      BY <3>5 DEF SignalCond
    <3> QED BY <2>1, <3>1, <3>2, <3>3, <3>4, <3>5 DEF Guest
  <2>2. ASSUME NEW t \in Thread, Inside(t) PROVE Written
    <3>1. CASE SetCount(t)
      BY <3>1 DEF SetCount
    <3>2. CASE WaitRestore(t)
      BY <3>2 DEF WaitRestore
    <3>3. CASE LockKernel(t) \/ UnlockKernel(t) \/ WaitSleep(t) \/ WaitLock(t)
      BY <3>3 DEF LockKernel, UnlockKernel, WaitSleep, WaitLock
    <3> QED BY <2>2, <3>1, <3>2, <3>3 DEF Inside
  <2> QED BY <2>1, <2>2 DEF Next
<1>2. [][Next]_vars /\ []IInv => [][Written]_vars
  BY <1>1, PTL
<1> QED BY <1>2, Invariance, PTL DEF Spec, CountOnlyByOwner
------------------------------------------------------------------------------
\* The refinement.  With the invariant, the depth the mapping reads off count
\* and saved is the guest's own balance, a step earlier right after mutexLock.
Held(m) ==
  IF owner[m] = NoThread THEN 0
  ELSE IF pc[owner[m]] = "entered" /\ on[owner[m]] = m THEN 1
  ELSE depth[owner[m]][m]

LevelExact == \A m \in Mutex : GuestLevel(m) = Held(m) /\ GuestLevel(m) \in Nat

\* The depth the guest sees is the depth a thread really holds.
LEMMA LevelIsHeld == IInv => LevelExact
<1> USE DEF LevelExact
<1> SUFFICES ASSUME IInv, NEW m \in Mutex
             PROVE  GuestLevel(m) = Held(m) /\ GuestLevel(m) \in Nat
  OBVIOUS
<1>1. CASE owner[m] = NoThread
  BY <1>1 DEF GuestLevel, Held
<1>2. CASE owner[m] # NoThread
  <2>1. owner[m] \in Thread
    BY <1>2 DEF IInv, TypeOK
  <2>2. CASE on[owner[m]] # m
    BY <1>2, <2>1, <2>2 DEF IInv, TypeOK, Balance, OutsideCall, GuestLevel, Held
  <2>3. CASE on[owner[m]] = m
    <3>1. pc[owner[m]] \in {"entered", "release", "wait", "restore"}
      BY <2>1, <2>3, MutexCondAssumption DEF IInv, CallsConsistent, HoldsItsMutex
    <3>2. InCall(owner[m], m)
      BY <2>1, <2>3 DEF IInv, Balance
    <3> QED BY <1>2, <2>1, <2>3, <3>1, <3>2 DEF IInv, TypeOK, InCall, GuestLevel, Held
  <2> QED BY <2>2, <2>3
<1> QED BY <1>1, <1>2

\* Steps between the linearisation points change nothing the guest can see.
LEMMA SilentSteps ==
  ASSUME IInv, IInv', NEW t \in Thread,
         \/ \E m \in Mutex : LockOther(t, m) \/ (Unlock(t, m) /\ count[m] = 1)
         \/ \E m \in Mutex, c \in Cond : WaitSave(t, m, c)
         \/ SetCount(t) \/ WaitRestore(t)
  PROVE  UNCHANGED Monitor!vars
<1> USE MutexCondAssumption DEF Goto, Returned, Deeper, Shallower
<1>1. UNCHANGED owner
  BY DEF LockOther, Unlock, WaitSave, SetCount, WaitRestore
<1>2. ASSUME NEW u \in Thread
      PROVE  /\ Parked(u)' = Parked(u)
             /\ Parked(u) => on'[u] = on[u] /\ at'[u] = at[u] /\ saved'[u] = saved[u]
  BY DEF IInv, TypeOK, Places, Parked, LockOther, Unlock, WaitSave, SetCount, WaitRestore
<1>3. ASSUME NEW n \in Mutex
      PROVE  Held(n)' = Held(n)
  <2>1. CASE owner[n] = NoThread
    BY <1>1, <2>1 DEF Held
  <2>2. CASE owner[n] # NoThread /\ owner[n] # t
    <3>1. owner[n] \in Thread
      BY <2>2 DEF IInv, TypeOK
    <3>2. LET u == owner[n] IN pc'[u] = pc[u] /\ on'[u] = on[u] /\ depth'[u] = depth[u]
      BY <2>2, <3>1 DEF IInv, TypeOK, LockOther, Unlock, WaitSave, SetCount, WaitRestore
    <3> QED BY <1>1, <2>2, <3>2 DEF Held
  <2>3. CASE owner[n] = t
    <3>1. CASE SetCount(t)
      <4>1. on[t] \in Mutex /\ pc[t] = "entered" /\ depth[t][on[t]] = 0
        BY <3>1 DEF IInv, TypeOK, CallsConsistent, Balance, InCall, SetCount
      <4> QED BY <1>1, <2>3, <3>1, <4>1 DEF IInv, TypeOK, SetCount, Held
    <3>2. CASE ~SetCount(t)
      <4>1. UNCHANGED depth
        BY <3>2 DEF LockOther, Unlock, WaitSave, WaitRestore
      <4>2. pc[t] # "entered" /\ pc'[t] # "entered"
        BY <3>2 DEF IInv, TypeOK, LockOther, Unlock, WaitSave, WaitRestore
      <4> QED BY <1>1, <2>3, <4>1, <4>2 DEF Held
    <3> QED BY <3>1, <3>2
  <2> QED BY <2>1, <2>2, <2>3
<1>4. IInv' => LevelExact'
  BY LevelIsHeld, PTL
<1>5. \A m \in Mutex : GuestLevel(m)' = GuestLevel(m)
  BY <1>3, <1>4, LevelIsHeld DEF LevelExact
<1> QED BY <1>1, <1>2, <1>5 DEF Monitor!vars

\* What every remaining step does to the thread-indexed parts of the mapping
\* and to the depth of a mutex other than its own.
LEMMA LevelElsewhere ==
  ASSUME IInv, IInv', NEW t \in Thread, NEW m \in Mutex,
         \A n \in Mutex \ {m} :
           /\ owner'[n] = owner[n]
           /\ owner[n] \in Thread => depth'[owner[n]][n] = depth[owner[n]][n],
         \A u \in Thread \ {t} : pc'[u] = pc[u] /\ on'[u] = on[u],
         on[t] \in {m, NoMutex}, on'[t] \in {m, NoMutex}
  PROVE  \A n \in Mutex \ {m} : GuestLevel(n)' = GuestLevel(n)
<1> SUFFICES ASSUME NEW n \in Mutex \ {m} PROVE Held(n)' = Held(n)
  <2>1. LevelExact /\ LevelExact'
    BY LevelIsHeld, PTL
  <2> QED BY <2>1 DEF LevelExact
<1>1. owner'[n] = owner[n]
  OBVIOUS
<1>2. CASE owner[n] = NoThread
  BY <1>1, <1>2 DEF Held
<1>3. CASE owner[n] # NoThread
  <2>1. owner[n] \in Thread
    BY <1>3 DEF IInv, TypeOK
  <2>2. depth'[owner[n]][n] = depth[owner[n]][n]
    BY <2>1
  <2>3. CASE owner[n] = t
    BY <1>1, <1>3, <2>2, <2>3, MutexCondAssumption DEF Held
  <2>4. CASE owner[n] # t
    BY <1>1, <1>3, <2>1, <2>2, <2>4 DEF Held
  <2> QED BY <2>3, <2>4
<1> QED BY <1>2, <1>3

\* Taking the mutex for one more level, whichever way.
LEMMA AcquireSteps ==
  ASSUME IInv, IInv', NEW t \in Thread, NEW m \in Mutex,
         \/ LockAgain(t, m) \/ TryLock(t, m)
         \/ LockKernel(t) /\ on[t] = m
  PROVE  Monitor!Acquire(t, m)
<1> USE MutexCondAssumption DEF Goto, Returned, Deeper
<1>1. /\ \A n \in Mutex \ {m} : owner'[n] = owner[n] /\ \A u \in Thread : depth'[u][n] = depth[u][n]
      /\ \A u \in Thread \ {t} : pc'[u] = pc[u] /\ on'[u] = on[u]
      /\ on[t] \in {m, NoMutex} /\ on'[t] \in {m, NoMutex}
  BY SMTT(60) DEF IInv, TypeOK, CallsConsistent, LockAgain, TryLock, LockKernel
<1>2. \A n \in Mutex \ {m} : GuestLevel(n)' = GuestLevel(n)
  BY <1>1, LevelElsewhere
<1>3. owner[m] \in {NoThread, t} /\ owner' = [owner EXCEPT ![m] = t]
  BY DEF IInv, TypeOK, LockAgain, TryLock, LockKernel
<1>4. GuestLevel(m)' = GuestLevel(m) + 1
  <2>1. LevelExact /\ LevelExact'
    BY LevelIsHeld, PTL
  <2>2. CASE LockAgain(t, m)
    BY <2>1, <2>2 DEF LevelExact, IInv, TypeOK, CallsConsistent, LockAgain, Held
  <2>3. CASE TryLock(t, m) \/ (LockKernel(t) /\ on[t] = m)
    BY <2>1, <2>3 DEF LevelExact, IInv, TypeOK, TryLock, LockKernel, Held
  <2> QED BY <2>2, <2>3
<1>5. UNCHANGED <<[u \in Thread |-> IF Parked(u) THEN on[u] ELSE NoMutex],
                  [u \in Thread |-> IF Parked(u) THEN at[u] ELSE NoCond],
                  [u \in Thread |-> IF Parked(u) THEN saved[u] ELSE 0]>>
  BY DEF IInv, TypeOK, Places, Parked, LockAgain, TryLock, LockKernel
<1>6. ~Parked(t)
  BY DEF Parked, LockAgain, TryLock, LockKernel
<1> QED BY <1>2, <1>3, <1>4, <1>5, <1>6 DEF Monitor!Acquire

\* Giving one level back; the mutex is free when it was the last.
LEMMA ReleaseSteps ==
  ASSUME IInv, IInv', NEW t \in Thread, NEW m \in Mutex,
         \/ Unlock(t, m) /\ count[m] # 1
         \/ UnlockKernel(t) /\ on[t] = m
  PROVE  Monitor!Release(t, m)
<1> USE MutexCondAssumption DEF Goto, Returned, Shallower
<1>1. /\ \A n \in Mutex \ {m} : owner'[n] = owner[n] /\ \A u \in Thread : depth'[u][n] = depth[u][n]
      /\ \A u \in Thread \ {t} : pc'[u] = pc[u] /\ on'[u] = on[u]
      /\ on[t] \in {m, NoMutex} /\ on'[t] \in {m, NoMutex}
  <2>1. \A n \in Mutex \ {m} : owner'[n] = owner[n]
    BY DEF IInv, TypeOK, Unlock, UnlockKernel
  <2>2. \A n \in Mutex \ {m}, u \in Thread : depth'[u][n] = depth[u][n]
    BY DEF IInv, TypeOK, Unlock, UnlockKernel
  <2>3. \A u \in Thread \ {t} : pc'[u] = pc[u] /\ on'[u] = on[u]
    BY DEF IInv, TypeOK, Unlock, UnlockKernel
  <2>4. on[t] \in {m, NoMutex} /\ on'[t] \in {m, NoMutex}
    BY DEF IInv, TypeOK, CallsConsistent, Unlock, UnlockKernel
  <2> QED BY <2>1, <2>2, <2>3, <2>4
<1>2. \A n \in Mutex \ {m} : GuestLevel(n)' = GuestLevel(n)
  BY <1>1, LevelElsewhere
<1>3. LevelExact /\ LevelExact'
  BY LevelIsHeld, PTL
<1>4. owner[m] = t
  BY DEF IInv, CallsConsistent, HoldsItsMutex, Unlock, UnlockKernel
<1>5. CASE Unlock(t, m) /\ count[m] # 1
  <2>1. GuestLevel(m) = depth[t][m] /\ count[m] = depth[t][m] /\ depth[t][m] \in Nat
    BY <1>3, <1>4, <1>5 DEF LevelExact, IInv, TypeOK, CallsConsistent, Balance, OutsideCall, Unlock, Held
  <2>2. GuestLevel(m)' = GuestLevel(m) - 1
    BY <1>3, <1>4, <1>5, <2>1 DEF LevelExact, IInv, TypeOK, Unlock, Held
  <2>3. owner' = [owner EXCEPT ![m] = IF GuestLevel(m) = 1 THEN NoThread ELSE t]
    BY <1>4, <1>5, <2>1 DEF IInv, TypeOK, Unlock
  <2> QED BY <1>2, <1>4, <1>5, <2>2, <2>3 DEF Monitor!Release, Parked, Unlock
<1>6. CASE UnlockKernel(t) /\ on[t] = m
  <2>1. GuestLevel(m) = 1
    BY <1>3, <1>4, <1>6 DEF LevelExact, IInv, Balance, InCall, UnlockKernel, Held
  <2>2. GuestLevel(m)' = 0 /\ owner' = [owner EXCEPT ![m] = NoThread]
    BY <1>6 DEF IInv, TypeOK, UnlockKernel, GuestLevel
  <2>3. UNCHANGED <<[u \in Thread |-> IF Parked(u) THEN on[u] ELSE NoMutex],
                    [u \in Thread |-> IF Parked(u) THEN at[u] ELSE NoCond],
                    [u \in Thread |-> IF Parked(u) THEN saved[u] ELSE 0]>>
    BY <1>6 DEF IInv, TypeOK, Places, Parked, UnlockKernel
  <2>4. ~Parked(t)
    BY <1>6 DEF Parked, UnlockKernel
  <2>5. [n \in Mutex |-> GuestLevel(n)']
          = [[n \in Mutex |-> GuestLevel(n)] EXCEPT ![m] = @ - 1]
    <3>1. \A n \in Mutex : GuestLevel(n)' = IF n = m THEN GuestLevel(n) - 1 ELSE GuestLevel(n)
      BY <1>2, <2>1, <2>2
    <3> QED BY <3>1
  <2>6. owner' = [owner EXCEPT ![m] = IF GuestLevel(m) = 1 THEN NoThread ELSE t]
    BY <2>1, <2>2
  <2> QED BY <1>4, <2>3, <2>4, <2>5, <2>6 DEF Monitor!Release
<1> QED BY <1>5, <1>6

\* condvarWait puts the whole depth aside and frees the mutex in one step.
LEMMA ParkStep ==
  ASSUME IInv, IInv', NEW t \in Thread, NEW m \in Mutex, NEW c \in Cond,
         WaitSleep(t), on[t] = m, at[t] = c
  PROVE  Monitor!Park(t, m, c)
<1> USE MutexCondAssumption DEF Goto
<1>1. pc[t] = "wait"
  BY DEF WaitSleep
<1>2. /\ \A n \in Mutex \ {m} : owner'[n] = owner[n] /\ \A u \in Thread : depth'[u][n] = depth[u][n]
      /\ \A u \in Thread \ {t} : pc'[u] = pc[u] /\ on'[u] = on[u]
      /\ on[t] \in {m, NoMutex} /\ on'[t] \in {m, NoMutex}
  BY <1>1 DEF IInv, TypeOK, WaitSleep
<1>3. \A n \in Mutex \ {m} : GuestLevel(n)' = GuestLevel(n)
  BY <1>1, <1>2, LevelElsewhere
<1>4. owner[m] = t /\ GuestLevel(m) = saved[t]
  BY <1>1 DEF IInv, TypeOK, CallsConsistent, HoldsItsMutex, GuestLevel
<1>5. owner' = [owner EXCEPT ![m] = NoThread] /\ GuestLevel(m)' = 0
  BY <1>1 DEF IInv, TypeOK, WaitSleep, GuestLevel
<1>6. ~Parked(t) /\ \A u \in Thread : Parked(u)' <=> (Parked(u) \/ u = t)
  BY <1>1 DEF IInv, TypeOK, Places, WaitSleep, Parked
<1>7. UNCHANGED <<on, at, saved>>
  BY DEF WaitSleep
<1>8. [n \in Mutex |-> GuestLevel(n)]' = [[n \in Mutex |-> GuestLevel(n)] EXCEPT ![m] = 0]
  BY <1>1, <1>3, <1>5
<1>9. /\ [u \in Thread |-> IF Parked(u) THEN on[u] ELSE NoMutex]'
           = [[u \in Thread |-> IF Parked(u) THEN on[u] ELSE NoMutex] EXCEPT ![t] = m]
      /\ [u \in Thread |-> IF Parked(u) THEN at[u] ELSE NoCond]'
           = [[u \in Thread |-> IF Parked(u) THEN at[u] ELSE NoCond] EXCEPT ![t] = c]
      /\ [u \in Thread |-> IF Parked(u) THEN saved[u] ELSE 0]'
           = [[u \in Thread |-> IF Parked(u) THEN saved[u] ELSE 0] EXCEPT ![t] = saved[t]]
  BY <1>6, <1>7
<1> QED
  BY <1>4, <1>5, <1>6, <1>8, <1>9 DEF Monitor!Park

\* OSSignalCond releases every parked thread of its condition at once.
LEMMA SignalStep ==
  ASSUME IInv, IInv', NEW t \in Thread, NEW c \in Cond, SignalCond(t, c)
  PROVE  Monitor!Signal(c)
<1> USE MutexCondAssumption
<1>1. UNCHANGED <<owner, count, on, saved, depth>>
  BY DEF SignalCond
<1>2. ASSUME NEW u \in Thread
      PROVE  /\ Parked(u)' <=> Parked(u)
             /\ (pc[u] = "entered") <=> (pc'[u] = "entered")
             /\ Parked(u) => at'[u] = IF at[u] = c THEN NoCond ELSE at[u]
  BY DEF IInv, TypeOK, Places, CallsConsistent, SignalCond, Parked
<1>3. ASSUME NEW n \in Mutex PROVE Held(n)' = Held(n)
  BY <1>1, <1>2 DEF IInv, TypeOK, Held
<1>4. LevelExact /\ LevelExact'
  BY LevelIsHeld, PTL
<1>5. \A n \in Mutex : GuestLevel(n)' = GuestLevel(n)
  BY <1>3, <1>4 DEF LevelExact
<1> QED BY <1>1, <1>2, <1>5 DEF Monitor!Signal

\* A woken thread comes back with the mutex at the depth it had.
LEMMA ResumeStep ==
  ASSUME IInv, IInv', NEW t \in Thread, NEW m \in Mutex, WaitLock(t), on[t] = m
  PROVE  Monitor!Resume(t, m)
<1> USE MutexCondAssumption DEF Goto
<1>1. at[t] = NoCond /\ pc[t] = "woken" /\ owner[m] = NoThread
  BY DEF IInv, TypeOK, CallsConsistent, WaitLock
<1>2. /\ \A n \in Mutex \ {m} : owner'[n] = owner[n] /\ \A u \in Thread : depth'[u][n] = depth[u][n]
      /\ \A u \in Thread \ {t} : pc'[u] = pc[u] /\ on'[u] = on[u]
      /\ on[t] \in {m, NoMutex} /\ on'[t] \in {m, NoMutex}
  BY <1>1 DEF IInv, TypeOK, WaitLock
<1>3. \A n \in Mutex \ {m} : GuestLevel(n)' = GuestLevel(n)
  BY <1>1, <1>2, LevelElsewhere
<1>4. owner' = [owner EXCEPT ![m] = t] /\ GuestLevel(m)' = saved[t]
  BY <1>1 DEF IInv, TypeOK, WaitLock, GuestLevel
<1>5. Parked(t) /\ \A u \in Thread : Parked(u)' <=> (Parked(u) /\ u # t)
  BY <1>1 DEF IInv, TypeOK, Places, WaitLock, Parked
<1>6. UNCHANGED <<on, at, saved>>
  BY DEF WaitLock
<1>7. [n \in Mutex |-> GuestLevel(n)]' = [[n \in Mutex |-> GuestLevel(n)] EXCEPT ![m] = saved[t]]
  BY <1>1, <1>3, <1>4
<1>8. /\ [u \in Thread |-> IF Parked(u) THEN on[u] ELSE NoMutex]'
           = [[u \in Thread |-> IF Parked(u) THEN on[u] ELSE NoMutex] EXCEPT ![t] = NoMutex]
      /\ [u \in Thread |-> IF Parked(u) THEN saved[u] ELSE 0]'
           = [[u \in Thread |-> IF Parked(u) THEN saved[u] ELSE 0] EXCEPT ![t] = 0]
      /\ UNCHANGED [u \in Thread |-> IF Parked(u) THEN at[u] ELSE NoCond]
  BY <1>1, <1>5, <1>6
<1> QED
  BY <1>1, <1>4, <1>5, <1>7, <1>8 DEF Monitor!Resume

\* OSMutex and OSCondition implement the recursive monitor a guest expects.
THEOREM Refinement == Spec => ImplementsMonitor
<1>1. Init => Monitor!Init
  BY DEF Init, Monitor!Init, GuestLevel, Parked
<1>2. IInv /\ IInv' /\ [Next]_vars => [Monitor!Next]_(Monitor!vars)
  <2> SUFFICES ASSUME IInv, IInv', [Next]_vars
               PROVE  Monitor!Next \/ UNCHANGED Monitor!vars
    OBVIOUS
  <2>1. ASSUME NEW t \in Thread, Guest(t) PROVE Monitor!Next \/ UNCHANGED Monitor!vars
    <3>1. ASSUME NEW m \in Mutex, LockAgain(t, m) \/ TryLock(t, m) PROVE Monitor!Next
      BY <3>1, AcquireSteps DEF Monitor!Next
    <3>2. ASSUME NEW m \in Mutex, LockOther(t, m) PROVE UNCHANGED Monitor!vars
      BY <3>2, SilentSteps
    <3>3. ASSUME NEW m \in Mutex, Unlock(t, m) PROVE Monitor!Next \/ UNCHANGED Monitor!vars
      <4>1. CASE count[m] = 1 BY <3>3, <4>1, SilentSteps
      <4>2. CASE count[m] # 1 BY <3>3, <4>2, ReleaseSteps DEF Monitor!Next
      <4> QED BY <4>1, <4>2
    <3>4. ASSUME NEW m \in Mutex, NEW c \in Cond, WaitSave(t, m, c)
          PROVE  UNCHANGED Monitor!vars
      BY <3>4, SilentSteps
    <3>5. ASSUME NEW c \in Cond, SignalCond(t, c) PROVE Monitor!Next
      BY <3>5, SignalStep DEF Monitor!Next
    <3> QED BY <2>1, <3>1, <3>2, <3>3, <3>4, <3>5 DEF Guest
  <2>2. ASSUME NEW t \in Thread, Inside(t) PROVE Monitor!Next \/ UNCHANGED Monitor!vars
    <3>1. on[t] \in Mutex
      BY <2>2 DEF IInv, TypeOK, CallsConsistent, Inside, LockKernel, SetCount, UnlockKernel,
                  WaitSleep, WaitLock, WaitRestore
    <3>2. CASE LockKernel(t) BY <3>1, <3>2, AcquireSteps DEF Monitor!Next
    <3>3. CASE UnlockKernel(t) BY <3>1, <3>3, ReleaseSteps DEF Monitor!Next
    <3>4. CASE WaitSleep(t)
      <4>1. at[t] \in Cond
        BY <3>4 DEF IInv, TypeOK, CallsConsistent, WaitSleep
      <4> QED BY <3>1, <3>4, <4>1, ParkStep DEF Monitor!Next
    <3>5. CASE WaitLock(t) BY <3>1, <3>5, ResumeStep DEF Monitor!Next
    <3>6. CASE SetCount(t) \/ WaitRestore(t) BY <3>6, SilentSteps
    <3> QED BY <2>2, <3>2, <3>3, <3>4, <3>5, <3>6 DEF Inside
  <2>3. CASE UNCHANGED vars
    BY <2>3 DEF vars, Monitor!vars, GuestLevel, Parked
  <2> QED BY <2>1, <2>2, <2>3 DEF Next
<1> QED BY <1>1, <1>2, Invariance, PTL DEF Spec, ImplementsMonitor, Monitor!Spec
==============================================================================
