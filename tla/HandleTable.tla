----------------------------- MODULE HandleTable -----------------------------
(***************************************************************************)
(* coreinit_nx::HandleTable<Host> (source/internal/handle_table.hpp): the  *)
(* process-wide map from the address of a guest structure to the host      *)
(* object that implements it.  Objects are created lazily, under m_lock,   *)
(* by the first get of a key.  Every synchronisation primitive and heap of *)
(* the library starts with one call of get.                                *)
(*                                                                         *)
(* The steps between mutexLock and mutexUnlock are separate, so that what  *)
(* m_lock protects is a result and not an assumption.                      *)
(***************************************************************************)
EXTENDS FiniteSets, Naturals

CONSTANTS Thread, Key,
          Host,              \* addresses that operator new can return
          NoHost, NoThread, NoKey

VARIABLES lock,     \* owner of m_lock
          map,      \* m_map
          object,   \* life of each Host object: "free", "raw" (new), "ready" (init)
          pc, key,  \* where a thread is, and the key of its call
          host,     \* the local variable `host` of a get
          answer    \* the key and host of a thread's last finished get

vars == <<lock, map, object, pc, key, host, answer>>

Init ==
  /\ lock = NoThread
  /\ map = [k \in Key |-> NoHost]
  /\ object = [h \in Host |-> "free"]
  /\ pc = [t \in Thread |-> "idle"]
  /\ key = [t \in Thread |-> NoKey]
  /\ host = [t \in Thread |-> NoHost]
  /\ answer = [t \in Thread |-> {}]

\* A guest thread calls get or erase on an address.
Call(t, k, op) ==
  /\ pc[t] = "idle"
  /\ pc' = [pc EXCEPT ![t] = op]
  /\ key' = [key EXCEPT ![t] = k]
  /\ UNCHANGED <<lock, map, object, host, answer>>

\* Mutation of LockAndFind: the lookup without m_lock.
FindUnlocked(t) ==
  /\ pc[t] \in {"get", "erase"}
  /\ host' = [host EXCEPT ![t] = map[key[t]]]
  /\ pc' = [pc EXCEPT ![t] = IF pc[t] = "erase" THEN "delete"
                             ELSE IF map[key[t]] = NoHost THEN "new" ELSE "unlock"]
  /\ UNCHANGED <<lock, map, object, key, answer>>

\* mutexLock(&m_lock), then m_map.find(key).
LockAndFind(t) ==
  /\ pc[t] \in {"get", "erase"}
  /\ lock = NoThread
  /\ lock' = t
  /\ host' = [host EXCEPT ![t] = map[key[t]]]
  /\ pc' = [pc EXCEPT ![t] = IF pc[t] = "erase" THEN "delete"
                             ELSE IF map[key[t]] = NoHost THEN "new" ELSE "unlock"]
  /\ UNCHANGED <<map, object, key, answer>>

\* host = new Host(): any address not in use.
New(t, h) ==
  /\ pc[t] = "new" /\ object[h] = "free"
  /\ object' = [object EXCEPT ![h] = "raw"]
  /\ host' = [host EXCEPT ![t] = h]
  /\ pc' = [pc EXCEPT ![t] = "init"]
  /\ UNCHANGED <<lock, map, key, answer>>

\* host->init()
InitHost(t) ==
  /\ pc[t] = "init"
  /\ object' = [object EXCEPT ![host[t]] = "ready"]
  /\ pc' = [pc EXCEPT ![t] = "emplace"]
  /\ UNCHANGED <<lock, map, key, host, answer>>

\* m_map.emplace(key, host): a key already present keeps its entry.
Emplace(t) ==
  /\ pc[t] = "emplace"
  /\ map' = IF map[key[t]] = NoHost THEN [map EXCEPT ![key[t]] = host[t]] ELSE map
  /\ pc' = [pc EXCEPT ![t] = "unlock"]
  /\ UNCHANGED <<lock, object, key, host, answer>>

\* Mutation of UnlockAndReturn: a return path that keeps m_lock.
ReturnStillLocked(t) ==
  /\ pc[t] = "unlock"
  /\ pc' = [pc EXCEPT ![t] = "idle"]
  /\ key' = [key EXCEPT ![t] = NoKey]
  /\ host' = [host EXCEPT ![t] = NoHost]
  /\ answer' = [answer EXCEPT ![t] = {[key |-> key[t], host |-> host[t]]}]
  /\ UNCHANGED <<lock, map, object>>

\* mutexUnlock(&m_lock); return host.
UnlockAndReturn(t) ==
  /\ pc[t] = "unlock"
  /\ lock' = NoThread
  /\ pc' = [pc EXCEPT ![t] = "idle"]
  /\ key' = [key EXCEPT ![t] = NoKey]
  /\ host' = [host EXCEPT ![t] = NoHost]
  /\ answer' = [answer EXCEPT ![t] = {[key |-> key[t], host |-> host[t]]}]
  /\ UNCHANGED <<map, object>>

\* erase, from the found iterator to mutexUnlock: the object is deleted and
\* its entry dropped; an unknown key changes nothing.
Delete(t) ==
  /\ pc[t] = "delete"
  /\ object' = IF host[t] = NoHost THEN object ELSE [object EXCEPT ![host[t]] = "free"]
  /\ map' = [map EXCEPT ![key[t]] = NoHost]
  /\ lock' = NoThread
  /\ pc' = [pc EXCEPT ![t] = "idle"]
  /\ key' = [key EXCEPT ![t] = NoKey]
  /\ host' = [host EXCEPT ![t] = NoHost]
  /\ answer' = [answer EXCEPT ![t] = {}]

Step(t) == \/ LockAndFind(t) \/ InitHost(t) \/ Emplace(t)
           \/ UnlockAndReturn(t) \/ Delete(t) \/ \E h \in Host : New(t, h)

Next == \E t \in Thread :
          Step(t) \/ \E k \in Key, op \in {"get", "erase"} : Call(t, k, op)

\* The Horizon kernel hands a contended mutex to its waiters in turn, so a
\* thread that keeps asking for m_lock is not passed over for ever.
Fairness == \A t \in Thread : SF_vars(LockAndFind(t)) /\ WF_vars(Step(t))

Spec == Init /\ [][Next]_vars /\ Fairness
------------------------------------------------------------------------------
TypeOK ==
  /\ lock \in Thread \cup {NoThread}
  /\ map \in [Key -> Host \cup {NoHost}]
  /\ object \in [Host -> {"free", "raw", "ready"}]
  /\ pc \in [Thread -> {"idle", "get", "erase", "new", "init", "emplace", "unlock", "delete"}]
  /\ key \in [Thread -> Key \cup {NoKey}]
  /\ host \in [Thread -> Host \cup {NoHost}]
  /\ answer \in [Thread -> SUBSET [key : Key, host : Host]]

\* Every object that exists is either reachable through the map, fully
\* initialised and bound to exactly one key, or in the hands of the one thread
\* that is creating it: racing first uses of an address never publish a raw
\* host and never leak a second one.
NoLeakNoRawHost ==
  /\ TypeOK
  /\ \A k \in Key : map[k] # NoHost => object[map[k]] = "ready"
  /\ \A j, k \in Key : j # k /\ map[j] # NoHost => map[j] # map[k]
  /\ \A h \in Host : object[h] # "free" =>
       \/ \E k \in Key : map[k] = h
       \/ \E t \in Thread : pc[t] \in {"init", "emplace"} /\ host[t] = h

\* A get takes effect while it holds m_lock with the entry in the map, a step
\* before its answer is written.
AnswerOf(t) == IF pc[t] = "unlock" THEN {[key |-> key[t], host |-> host[t]]} ELSE answer[t]
Answered == [t \in Thread |-> AnswerOf(t)]

Promise == INSTANCE HandleMap WITH bound <- map, answers <- Answered

\* The lazy table is an atomic map: whatever the interleaving, each get of an
\* address answers the one object bound to it at a moment of the call.
IsAtomicMap == Promise!Spec

\* Every get and erase returns: m_lock is released on every path.
CallsReturn == \A t \in Thread : pc[t] # "idle" ~> pc[t] = "idle"
==============================================================================
