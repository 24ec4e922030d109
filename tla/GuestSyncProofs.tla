---------------------------- MODULE GuestSyncProofs ----------------------------
(***************************************************************************)
(* Proofs about GuestSync, for any number of threads, keys, host objects   *)
(* and permits: the handle table never leaks nor publishes a raw host and  *)
(* is an atomic map; no thread sleeps over a permit of the semaphore or a  *)
(* signal of the event.                                                    *)
(*                                                                         *)
(* The handle table has an inductive invariant of its own, which says what *)
(* the owner of m_lock has found so far; the semaphore and the event share *)
(* the places of the threads, and each is shown not to move the sleepers   *)
(* of the other.                                                           *)
(***************************************************************************)
EXTENDS GuestSync, TLAPS

\* The stages of a call between mutexLock and mutexUnlock.
Inside == {"new", "init", "emplace", "unlock", "delete"}

\* Exactly the owner of m_lock is inside.
OwnerInside == \A t \in Pair : stage[t] \in Inside <=> lock = t

\* A call has an address until it returns.
CallsHaveKeys == \A t \in Pair : stage[t] # "idle" => key[t] \in Key

\* The object a get is creating: no address has it, and its own has none yet.
Creating(t) ==
  /\ host[t] \in Host /\ map[key[t]] = NoHost
  /\ \A k \in Key : map[k] # host[t]

\* What each step of a call inside the lock can rely on.
FoundUnderLock ==
  \A t \in Pair :
    /\ stage[t] = "new" => map[key[t]] = NoHost
    /\ stage[t] = "init" => Creating(t) /\ object[host[t]] = "raw"
    /\ stage[t] = "emplace" => Creating(t) /\ object[host[t]] = "ready"
    /\ stage[t] = "unlock" => host[t] \in Host /\ host[t] = map[key[t]]
    /\ stage[t] = "delete" => host[t] = map[key[t]]

TableInv ==
  /\ H!NoLeakNoRawHost
  /\ OwnerInside /\ CallsHaveKeys /\ FoundUnderLock
------------------------------------------------------------------------------
\* The table starts empty and unlocked.
LEMMA TableInit == H!Init => TableInv
BY GuestSyncAssumption
DEF H!Init, TableInv, H!NoLeakNoRawHost, H!TypeOK, OwnerInside, CallsHaveKeys, FoundUnderLock, Inside

\* A thread that only asks for an address has touched nothing.
LEMMA CallKeeps ==
  ASSUME TableInv, NEW t \in Pair, NEW k \in Key, NEW op \in {"get", "erase"}, H!Call(t, k, op)
  PROVE  TableInv'
BY GuestSyncAssumption
DEF H!Call, TableInv, H!NoLeakNoRawHost, H!TypeOK, OwnerInside, CallsHaveKeys, FoundUnderLock, Creating, Inside

\* Whoever gets m_lock is the only one inside.
LEMMA LockAndFindKeeps ==
  ASSUME TableInv, NEW t \in Pair, H!LockAndFind(t)
  PROVE  TableInv'
BY GuestSyncAssumption
DEF H!LockAndFind, TableInv, H!NoLeakNoRawHost, H!TypeOK, OwnerInside, CallsHaveKeys, FoundUnderLock, Creating, Inside

\* operator new returns an address that no key has.
LEMMA NewKeeps ==
  ASSUME TableInv, NEW t \in Pair, NEW h \in Host, H!New(t, h)
  PROVE  TableInv'
BY GuestSyncAssumption
DEF H!New, TableInv, H!NoLeakNoRawHost, H!TypeOK, OwnerInside, CallsHaveKeys, FoundUnderLock, Creating, Inside

\* init makes ready an object that nobody else can see.
LEMMA InitHostKeeps ==
  ASSUME TableInv, NEW t \in Pair, H!InitHost(t)
  PROVE  TableInv'
BY GuestSyncAssumption
DEF H!InitHost, TableInv, H!NoLeakNoRawHost, H!TypeOK, OwnerInside, CallsHaveKeys, FoundUnderLock, Creating, Inside

\* emplace publishes a ready object under the one key that waits for it.
LEMMA EmplaceKeeps ==
  ASSUME TableInv, NEW t \in Pair, H!Emplace(t)
  PROVE  TableInv'
BY GuestSyncAssumption
DEF H!Emplace, TableInv, H!NoLeakNoRawHost, H!TypeOK, OwnerInside, CallsHaveKeys, FoundUnderLock, Creating, Inside

\* A get leaves with the object of its key.
LEMMA ReturnKeeps ==
  ASSUME TableInv, NEW t \in Pair, H!UnlockAndReturn(t)
  PROVE  TableInv'
BY GuestSyncAssumption
DEF H!UnlockAndReturn, TableInv, H!NoLeakNoRawHost, H!TypeOK, OwnerInside, CallsHaveKeys, FoundUnderLock, Creating, Inside

\* erase frees the object and drops the only entry that leads to it.
LEMMA DeleteKeeps ==
  ASSUME TableInv, NEW t \in Pair, H!Delete(t)
  PROVE  TableInv'
BY GuestSyncAssumption
DEF H!Delete, TableInv, H!NoLeakNoRawHost, H!TypeOK, OwnerInside, CallsHaveKeys, FoundUnderLock, Creating, Inside

\* Every step of the table keeps its invariant.
LEMMA TableStep == TableInv /\ [H!Next]_(H!vars) => TableInv'
<1> SUFFICES ASSUME TableInv, [H!Next]_(H!vars) PROVE TableInv'
  OBVIOUS
<1>1. CASE H!Next
  BY <1>1, CallKeeps, LockAndFindKeeps, NewKeeps, InitHostKeeps, EmplaceKeeps, ReturnKeeps, DeleteKeeps
  DEF H!Next, H!Step
<1>2. CASE UNCHANGED H!vars
  BY <1>2
  DEF H!vars, TableInv, H!NoLeakNoRawHost, H!TypeOK, OwnerInside, CallsHaveKeys, FoundUnderLock, Creating
<1> QED BY <1>1, <1>2

\* A get of a bound address is the promise's Find, the emplace of a new object its
\* Bind and the deletion its Erase; every other step of a call is invisible.
LEMMA TableImplements ==
  TableInv /\ [H!Next]_(H!vars) => [H!Promise!Next]_(H!Promise!vars)
<1> SUFFICES ASSUME TableInv, [H!Next]_(H!vars)
             PROVE  H!Promise!Next \/ UNCHANGED H!Promise!vars
  OBVIOUS
<1> USE DEF TableInv, H!NoLeakNoRawHost, H!TypeOK, CallsHaveKeys, FoundUnderLock, Creating
<1>1. ASSUME \A u \in Pair : H!AnswerOf(u)' = H!AnswerOf(u)
      PROVE  H!Answered' = H!Answered
  BY <1>1 DEF H!Answered
<1>2. ASSUME NEW t \in Pair, NEW A,
             H!AnswerOf(t)' = A, \A u \in Pair \ {t} : H!AnswerOf(u)' = H!AnswerOf(u)
      PROVE  H!Answered' = [H!Answered EXCEPT ![t] = A]
  <2>1. H!Answered' = [u \in Pair |-> H!AnswerOf(u)']
    BY DEF H!Answered
  <2>2. [H!Answered EXCEPT ![t] = A] = [u \in Pair |-> IF u = t THEN A ELSE H!AnswerOf(u)]
    BY DEF H!Answered
  <2> QED BY <1>2, <2>1, <2>2
<1>3. ASSUME NEW u \in Pair, UNCHANGED <<stage[u], key[u], host[u], answer[u]>>
      PROVE  H!AnswerOf(u)' = H!AnswerOf(u)
  BY <1>3, ZenonT(60) DEF H!AnswerOf
<1>4. ASSUME NEW t \in Pair, H!LockAndFind(t)
      PROVE  H!Promise!Next \/ UNCHANGED H!Promise!vars
  <2>1. key[t] \in Key
    BY <1>4 DEF H!LockAndFind
  <2>2. \A u \in Pair \ {t} : H!AnswerOf(u)' = H!AnswerOf(u)
    BY <1>3, <1>4 DEF H!LockAndFind
  <2>3. CASE stage[t] = "get" /\ map[key[t]] # NoHost
    <3>1. stage'[t] = "unlock" /\ key'[t] = key[t] /\ host'[t] = map[key[t]]
      BY <1>4, <2>3 DEF H!LockAndFind
    <3>2. H!AnswerOf(t)' = {[key |-> key[t], host |-> map[key[t]]]}
      BY <3>1, Zenon DEF H!AnswerOf
    <3>3. H!Answered' = [H!Answered EXCEPT ![t] = {[key |-> key[t], host |-> map[key[t]]]}]
      BY <1>2, <2>2, <3>2
    <3>4. H!Promise!Find(t, key[t])
      BY <1>4, <2>3, <3>3, Zenon DEF H!LockAndFind, H!Promise!Find
    <3> QED BY <2>1, <3>4 DEF H!Promise!Next
  <2>4. CASE ~(stage[t] = "get" /\ map[key[t]] # NoHost)
    <3>1. stage[t] # "unlock" /\ stage'[t] # "unlock" /\ answer'[t] = answer[t]
      BY <1>4, <2>4 DEF H!LockAndFind
    <3>2. H!AnswerOf(t)' = H!AnswerOf(t)
      BY <3>1, Zenon DEF H!AnswerOf
    <3> QED BY <1>1, <1>4, <2>2, <3>2 DEF H!LockAndFind, H!Promise!vars
  <2> QED BY <2>3, <2>4
<1>5. ASSUME NEW t \in Pair, H!Emplace(t)
      PROVE  H!Promise!Next
  <2>1. key[t] \in Key /\ Creating(t)
    BY <1>5 DEF H!Emplace
  <2>2. \A u \in Pair \ {t} : H!AnswerOf(u)' = H!AnswerOf(u)
    BY <1>3, <1>5 DEF H!Emplace
  <2>3. stage'[t] = "unlock" /\ key'[t] = key[t] /\ host'[t] = host[t]
    BY <1>5 DEF H!Emplace
  <2>4. H!AnswerOf(t)' = {[key |-> key[t], host |-> host[t]]}
    BY <2>3, Zenon DEF H!AnswerOf
  <2>5. H!Answered' = [H!Answered EXCEPT ![t] = {[key |-> key[t], host |-> host[t]]}]
    BY <1>2, <2>2, <2>4
  <2>6. H!Promise!Bind(t, key[t], host[t])
    BY <1>5, <2>1, <2>5, Zenon DEF H!Emplace, H!Promise!Bind
  <2> QED BY <2>1, <2>6 DEF H!Promise!Next
<1>6. ASSUME NEW t \in Pair, H!Delete(t)
      PROVE  H!Promise!Next
  <2>1. key[t] \in Key
    BY <1>6 DEF H!Delete
  <2>2. \A u \in Pair \ {t} : H!AnswerOf(u)' = H!AnswerOf(u)
    BY <1>3, <1>6 DEF H!Delete
  <2>3. stage'[t] = "idle" /\ answer'[t] = {}
    BY <1>6 DEF H!Delete
  <2>4. H!AnswerOf(t)' = {}
    BY <2>3 DEF H!AnswerOf
  <2>5. H!Answered' = [H!Answered EXCEPT ![t] = {}]
    BY <1>2, <2>2, <2>4
  <2>6. H!Promise!Erase(t, key[t])
    BY <1>6, <2>5, Zenon DEF H!Delete, H!Promise!Erase
  <2> QED BY <2>1, <2>6 DEF H!Promise!Next
<1>7. ASSUME NEW t \in Pair, H!UnlockAndReturn(t)
      PROVE  UNCHANGED H!Promise!vars
  <2>1. \A u \in Pair \ {t} : H!AnswerOf(u)' = H!AnswerOf(u)
    BY <1>3, <1>7 DEF H!UnlockAndReturn
  <2>2. /\ stage[t] = "unlock" /\ stage'[t] = "idle"
        /\ answer'[t] = {[key |-> key[t], host |-> host[t]]}
    BY <1>7 DEF H!UnlockAndReturn
  <2>3. H!AnswerOf(t)' = H!AnswerOf(t)
    BY <2>2, Zenon DEF H!AnswerOf
  <2> QED BY <1>1, <1>7, <2>1, <2>3 DEF H!UnlockAndReturn, H!Promise!vars
<1>8. ASSUME NEW t \in Pair,
             \/ H!InitHost(t) \/ \E h \in Host : H!New(t, h)
             \/ \E k \in Key, op \in {"get", "erase"} : H!Call(t, k, op)
      PROVE  UNCHANGED H!Promise!vars
  <2>1. \A u \in Pair \ {t} : H!AnswerOf(u)' = H!AnswerOf(u)
    BY <1>3, <1>8 DEF H!InitHost, H!New, H!Call
  <2>2. stage[t] # "unlock" /\ stage'[t] # "unlock" /\ answer'[t] = answer[t]
    BY <1>8 DEF H!InitHost, H!New, H!Call
  <2>3. H!AnswerOf(t)' = H!AnswerOf(t)
    BY <2>2 DEF H!AnswerOf
  <2> QED BY <1>1, <1>8, <2>1, <2>3 DEF H!InitHost, H!New, H!Call, H!Promise!vars
<1>9. CASE UNCHANGED H!vars
  <2>1. \A u \in Pair : H!AnswerOf(u)' = H!AnswerOf(u)
    BY <1>3, <1>9 DEF H!vars
  <2> QED BY <1>1, <1>9, <2>1 DEF H!vars, H!Promise!vars
<1> QED BY <1>4, <1>5, <1>6, <1>7, <1>8, <1>9 DEF H!Next, H!Step
------------------------------------------------------------------------------
SignalInv == S!SemTypeOK /\ S!NoSleepOverPermit /\ E!EventTypeOK /\ E!NoSleepOverSignal

\* Every thread is at one of the places.
Placed == pc \in [Thread -> Places]

\* A call on the semaphore leaves permits only where nobody sleeps for them, and
\* moves nobody who waits for the event.
LEMMA SemaphoreStep ==
  ASSUME Placed, SignalInv, NEW t \in Thread, S!SemNext(t)
  PROVE  Placed' /\ S!SemTypeOK' /\ S!NoSleepOverPermit'
<1> USE GuestSyncAssumption DEF Placed, Places, SignalInv, S!SemTypeOK, S!NoSleepOverPermit
<1>1. CASE \E n \in -1..MaxCount : S!InitSemaphore(t, n)
  <2>1. PICK n \in -1..MaxCount : S!InitSemaphore(t, n)
    BY <1>1
  <2>2. semUnwoken' \in BOOLEAN
    BY <2>1, Zenon DEF S!InitSemaphore
  <2>3. semUnwoken' <=> n > 0 /\ S!Asleep # {}
    BY <2>1, Zenon DEF S!InitSemaphore
  <2> QED BY <2>1, <2>2, <2>3 DEF S!InitSemaphore, S!Asleep
<1>2. CASE S!SignalSemaphore(t)
  <2>1. \A u \in Thread : pc'[u] = IF u \in S!Asleep THEN "semWoken" ELSE pc[u]
    BY <1>2 DEF S!SignalSemaphore
  <2>2. Placed'
    BY <1>2, <2>1 DEF S!SignalSemaphore
  <2>3. S!Asleep' = {}
    BY <2>1 DEF S!Asleep
  <2>4. semUnwoken' \in BOOLEAN
    BY <1>2, Zenon DEF S!SignalSemaphore
  <2>5. floor' \in {-1, 0} /\ count' \in floor'..MaxCount
    BY <1>2 DEF S!SignalSemaphore
  <2> QED BY <2>2, <2>3, <2>4, <2>5
<1>3. CASE S!WaitSemaphore(t)
  BY <1>3 DEF S!WaitSemaphore, S!Asleep
<1>4. CASE S!TryWaitSemaphore(t)
  BY <1>4 DEF S!TryWaitSemaphore, S!Asleep
<1> QED BY <1>1, <1>2, <1>3, <1>4 DEF S!SemNext

\* A call on the semaphore moves nobody who waits for the event.
LEMMA SemaphoreSparesEvent ==
  ASSUME Placed, SignalInv, NEW t \in Thread, S!SemNext(t), UNCHANGED eventVars
  PROVE  E!EventTypeOK' /\ E!NoSleepOverSignal'
<1> USE DEF Placed
<1>1. \A u \in Thread, p \in {"waiting", "timing", "woken", "polling"} : pc'[u] = p <=> pc[u] = p
  <2>1. CASE S!SignalSemaphore(t)
    BY <2>1 DEF S!SignalSemaphore, S!Asleep
  <2>2. CASE pc' = pc \/ S!WaitSemaphore(t)
    BY <2>2 DEF S!WaitSemaphore
  <2> QED BY <2>1, <2>2 DEF S!SemNext, S!InitSemaphore, S!TryWaitSemaphore
<1>2. E!Sleepers' = E!Sleepers /\ E!Awake' = E!Awake
  BY <1>1 DEF E!Sleepers, E!Awake
<1> QED BY <1>2 DEF SignalInv, eventVars, E!EventTypeOK, E!NoSleepOverSignal

\* Waking all leaves nobody asleep on the event.
LEMMA WakeAllMoves ==
  ASSUME Placed, E!WakeAll
  PROVE  Placed' /\ E!Sleepers' = {}
<1> USE DEF Placed, Places, E!Sleepers
<1>1. \A u \in Thread : pc'[u] = IF u \in E!Sleepers THEN E!WokenPlace[pc[u]] ELSE pc[u]
  BY DEF E!WakeAll
<1>2. \A u \in Thread : pc'[u] \in Places /\ pc'[u] \notin {"waiting", "timing"}
  BY <1>1 DEF E!WokenPlace
<1> QED BY <1>2, <1>1 DEF E!WakeAll

\* Waking one leaves nobody asleep or somebody awake.
LEMMA WakeOneMoves ==
  ASSUME Placed, E!WakeOne
  PROVE  Placed' /\ (E!Sleepers' # {} => E!Awake' # {})
<1> USE DEF Placed, Places, E!Sleepers
<1>1. CASE E!Sleepers = {}
  BY <1>1 DEF E!WakeOne
<1>2. CASE E!Sleepers # {}
  <2>1. PICK w \in E!Sleepers : pc' = [pc EXCEPT ![w] = E!WokenPlace[pc[w]]]
    BY <1>2 DEF E!WakeOne
  <2>2. w \in Thread /\ E!WokenPlace[pc[w]] \in {"woken", "polling"}
    BY <2>1 DEF E!WokenPlace
  <2> QED BY <2>1, <2>2 DEF E!Awake
<1> QED BY <1>1, <1>2

\* A call on the event, or the time that passes in it, leaves the signal only where
\* nobody sleeps or, in auto-reset mode, where somebody is awake to take it; it
\* moves nobody who waits for the semaphore.
LEMMA EventStep ==
  ASSUME Placed, SignalInv, NEW t \in Thread, E!EventNext(t)
  PROVE  Placed' /\ E!EventTypeOK' /\ E!NoSleepOverSignal'
<1> USE GuestSyncAssumption
    DEF Placed, Places, SignalInv, E!EventTypeOK, E!NoSleepOverSignal, E!Sleepers, E!Awake
<1>1. CASE \E value, auto \in BOOLEAN : E!InitEvent(t, value, auto)
  <2>1. PICK value, auto \in BOOLEAN : E!InitEvent(t, value, auto)
    BY <1>1
  <2>2. eventUnwoken' \in BOOLEAN /\ signalled' \in BOOLEAN /\ autoReset' \in BOOLEAN
    BY <2>1, Zenon DEF E!InitEvent
  <2>3. eventUnwoken' <=> signalled' /\ E!Sleepers # {}
    BY <2>1, Zenon DEF E!InitEvent
  <2> QED BY <2>1, <2>2, <2>3 DEF E!InitEvent
<1>2. CASE E!SignalEvent(t)
  BY <1>2, WakeAllMoves, WakeOneMoves DEF E!SignalEvent
<1>3. CASE E!SignalEventAll(t)
  BY <1>3, WakeAllMoves DEF E!SignalEventAll
<1>4. CASE E!ResetEvent(t)
  BY <1>4 DEF E!ResetEvent
<1>5. CASE E!Released(t) /\ pc[t] \in {"run", "woken", "polling"}
  BY <1>5 DEF E!Released
<1>6. CASE E!Sleep(t, "waiting") \/ E!Sleep(t, "timing")
  BY <1>6 DEF E!Sleep, E!eventVars
<1>7. CASE E!WaitEventWithTimeout(t) /\ ~E!Released(t)
  <2>1. /\ ~signalled /\ autoReset' = autoReset /\ signalled' = signalled
        /\ eventUnwoken' = eventUnwoken
        /\ \E place \in {"timing", "run"} : pc' = [pc EXCEPT ![t] = place]
        /\ late' = late \/ late' = [late EXCEPT ![t] = FALSE]
        /\ owed' = owed \/ owed' = owed \ {t}
    BY <1>7 DEF E!WaitEventWithTimeout, E!Sleep, E!eventVars
  <2> QED BY <2>1
<1>8. CASE E!Tick(t)
  BY <1>8 DEF E!Tick, E!eventVars
<1>9. CASE E!PassDeadline(t)
  BY <1>9 DEF E!PassDeadline
<1> QED BY <1>1, <1>2, <1>3, <1>4, <1>5, <1>6, <1>7, <1>8, <1>9
        DEF E!EventNext, E!WaitEvent, E!WaitEventWithTimeout

\* A call on the event moves nobody who waits for the semaphore.
LEMMA EventSparesSemaphore ==
  ASSUME Placed, SignalInv, NEW t \in Thread, E!EventNext(t), UNCHANGED semVars
  PROVE  S!SemTypeOK' /\ S!NoSleepOverPermit'
<1> USE DEF Placed
<1>1. \A u \in Thread : pc'[u] = "semAsleep" <=> pc[u] = "semAsleep"
  <2>1. CASE E!WakeAll
    <3>1. \A u \in Thread : pc'[u] = IF u \in E!Sleepers THEN E!WokenPlace[pc[u]] ELSE pc[u]
      BY <2>1 DEF E!WakeAll
    <3> QED BY <3>1 DEF E!Sleepers, E!WokenPlace
  <2>2. CASE E!WakeOne
    <3>1. CASE \E w \in E!Sleepers : pc' = [pc EXCEPT ![w] = E!WokenPlace[pc[w]]]
      BY <3>1 DEF E!Sleepers, E!WokenPlace
    <3> QED BY <2>2, <3>1 DEF E!WakeOne
  <2>3. CASE pc' = pc
    BY <2>3
  <2>4. CASE /\ pc[t] # "semAsleep"
             /\ \E place \in {"run", "waiting", "timing", "polling"} : pc' = [pc EXCEPT ![t] = place]
    BY <2>4
  <2> QED
    BY <2>1, <2>2, <2>3, <2>4, Zenon
    DEF E!EventNext, E!InitEvent, E!SignalEvent, E!SignalEventAll, E!ResetEvent, E!WaitEvent,
        E!WaitEventWithTimeout, E!Tick, E!PassDeadline, E!Released, E!Sleep
<1>2. S!Asleep' = S!Asleep
  BY <1>1 DEF S!Asleep
<1> QED BY <1>2 DEF SignalInv, semVars, S!SemTypeOK, S!NoSleepOverPermit

\* A call on the spin lock moves nobody who waits for the semaphore or the event.
LEMMA SpinLockStep ==
  ASSUME Placed, SignalInv, L!SpinTypeOK, NEW t \in Thread, L!SpinNext(t), UNCHANGED <<semVars, eventVars>>
  PROVE  Placed' /\ SignalInv' /\ L!SpinTypeOK'
<1> USE DEF Placed, Places
<1>1. /\ \A u \in Thread : u # t => pc'[u] = pc[u]
      /\ pc[t] \in {"run", "locking", "napping", "trying"}
      /\ pc'[t] \in {"run", "locking", "napping", "trying"}
      /\ Placed' /\ L!SpinTypeOK'
  BY DEF L!SpinNext, L!AcquireSpinLock, L!SpinLocked, L!TryAcquireSpinLock, L!TryAcquireWithTimeout,
         L!WakeUp, L!Expire, L!ReleaseSpinLock, L!Taken, L!SpinTypeOK, L!spinVars
<1>2. S!Asleep' = S!Asleep /\ E!Sleepers' = E!Sleepers /\ E!Awake' = E!Awake
  BY <1>1 DEF S!Asleep, E!Sleepers, E!Awake
<1> QED BY <1>1, <1>2 DEF SignalInv, semVars, eventVars, S!SemTypeOK, S!NoSleepOverPermit,
                          E!EventTypeOK, E!NoSleepOverSignal
------------------------------------------------------------------------------
IInv == TableInv /\ Placed /\ SignalInv /\ L!SpinTypeOK

\* All threads are outside, and all objects are in their first state.
LEMMA InitIInv == Init => IInv
<1> SUFFICES ASSUME Init PROVE IInv
  OBVIOUS
<1> USE GuestSyncAssumption DEF Init
<1>1. TableInv
  BY TableInit
<1>2. Placed /\ S!Asleep = {} /\ E!Sleepers = {}
  BY DEF Placed, Places, S!Asleep, E!Sleepers
<1>3. S!SemTypeOK /\ S!NoSleepOverPermit
  <2>1. semUnwoken \in BOOLEAN
    BY Zenon DEF S!SemInit
  <2>2. count = 0 /\ floor = 0
    BY Zenon DEF S!SemInit
  <2>3. 0 \in {-1, 0} /\ 0 \in 0..MaxCount
    OBVIOUS
  <2> QED BY <1>2, <2>1, <2>2, <2>3, Zenon DEF S!SemTypeOK, S!NoSleepOverPermit
<1>4. E!EventTypeOK /\ E!NoSleepOverSignal
  BY <1>2 DEF E!EventInit, E!EventTypeOK, E!NoSleepOverSignal
<1>5. L!SpinTypeOK
  BY DEF L!SpinInit, L!SpinTypeOK
<1> QED BY <1>1, <1>2, <1>3, <1>4, <1>5 DEF IInv, SignalInv

\* Each part keeps its own invariant and does not disturb the others.
LEMMA StepIInv == IInv /\ [Next]_vars => IInv'
<1> SUFFICES ASSUME IInv, [Next]_vars PROVE IInv'
  OBVIOUS
<1> USE DEF IInv, tableVars, spinVars, H!vars
<1>1. CASE UseTable
  <2>1. TableInv'
    BY <1>1, TableStep DEF UseTable
  <2> QED BY <1>1, <2>1 DEF UseTable, Placed, SignalInv, semVars, eventVars, S!SemTypeOK,
             S!NoSleepOverPermit, S!Asleep, E!EventTypeOK, E!NoSleepOverSignal, E!Sleepers, E!Awake, L!SpinTypeOK
<1>2. ASSUME UNCHANGED tableVars PROVE TableInv'
  BY <1>2, TableStep
<1>3. ASSUME NEW t \in Thread, UseSemaphore(t) PROVE IInv'
  BY <1>2, <1>3, SemaphoreStep, SemaphoreSparesEvent DEF UseSemaphore, SignalInv, L!SpinTypeOK
<1>4. ASSUME NEW t \in Thread, UseEvent(t) PROVE IInv'
  BY <1>2, <1>4, EventStep, EventSparesSemaphore DEF UseEvent, SignalInv, L!SpinTypeOK
<1>5. ASSUME NEW t \in Thread, UseSpinLock(t) PROVE IInv'
  BY <1>2, <1>5, SpinLockStep DEF UseSpinLock
<1>6. CASE UNCHANGED vars
  BY <1>2, <1>6 DEF vars, Placed, SignalInv, semVars, eventVars, S!SemTypeOK,
     S!NoSleepOverPermit, S!Asleep, E!EventTypeOK, E!NoSleepOverSignal, E!Sleepers, E!Awake, L!SpinTypeOK
<1> QED BY <1>1, <1>3, <1>4, <1>5, <1>6 DEF Next

\* The inductive invariant holds of every run of the guest's threads.
LEMMA Invariance == Spec => []IInv
BY InitIInv, StepIInv, PTL DEF Spec
------------------------------------------------------------------------------
\* Every thread is at a place of its calls, a semaphore's count is never below what
\* its initialisation allows (no wait takes a permit that is not there, however many
\* waiters one signal wakes), and the event and the spin lock keep their types.
THEOREM TypeCorrect == Spec => []TypeOK
<1>1. IInv => TypeOK
  BY DEF IInv, Placed, SignalInv, TypeOK
<1> QED BY <1>1, Invariance, PTL

\* Racing first uses of an address never publish an object whose init has not run,
\* never bind two objects to it and never leak one (handle_table.hpp).
THEOREM TableSafe == Spec => []NoLeakNoRawHost
<1>1. IInv => NoLeakNoRawHost
  BY DEF IInv, TableInv, NoLeakNoRawHost
<1> QED BY <1>1, Invariance, PTL

\* OSWaitSemaphore and OSSignalSemaphore: no thread sleeps while there is a permit
\* that was not made under its feet by OSInitSemaphore.
THEOREM PermitsWake == Spec => []NoSleepOverPermit
<1>1. IInv => NoSleepOverPermit
  BY DEF IInv, SignalInv, NoSleepOverPermit
<1> QED BY <1>1, Invariance, PTL

\* OSSignalEvent wakes one waiter of an auto-reset event and all of a manual one, and
\* that is enough: over a signal nobody sleeps unless another is awake to take it.
THEOREM SignalsWake == Spec => []NoSleepOverSignal
<1>1. IInv => NoSleepOverSignal
  BY DEF IInv, SignalInv, NoSleepOverSignal
<1> QED BY <1>1, Invariance, PTL

\* HandleTable<Host> implements HandleMap: each get answers the one object that is
\* bound to its address at a moment of the call.
THEOREM TableIsAtomicMap == Spec => IsAtomicMap
<1>1. Init => H!Promise!Init
  BY DEF Init, H!Init, H!Promise!Init, H!Answered, H!AnswerOf
<1>2. IInv /\ [Next]_vars => [H!Promise!Next]_(H!Promise!vars)
  <2>1. [Next]_vars => [H!Next]_(H!vars)
    BY DEF Next, vars, tableVars, UseTable, UseSemaphore, UseEvent, UseSpinLock, H!vars
  <2> QED BY <2>1, TableImplements DEF IInv
<1> QED BY <1>1, <1>2, Invariance, PTL DEF Spec, IsAtomicMap, H!IsAtomicMap, H!Promise!Spec
==============================================================================
