------------------------------ MODULE Semaphore ------------------------------
(***************************************************************************)
(* OSSemaphore (source/semaphore.cpp): a counter under a lock, with a      *)
(* condition variable on which every signal wakes all the waiters.         *)
(*                                                                         *)
(* A HostSemaphore is only touched under its lock, so a call is one step   *)
(* up to where it sleeps in condvarWait.  pc is shared with the other      *)
(* objects a thread may block on.                                          *)
(***************************************************************************)
EXTENDS Integers

CONSTANTS Thread,
          MaxCount   \* bound on the count a guest reaches, far below 2^31

VARIABLES pc,
          count,      \* HostSemaphore.count
          floor,      \* the lowest count this initialisation allows
          unwoken     \* has an initialisation given permits to sleeping threads?

semVars == <<count, floor, unwoken>>

SemInit == count = 0 /\ floor = 0 /\ unwoken = FALSE

Asleep == {t \in Thread : pc[t] = "semAsleep"}

\* OSInitSemaphore sets the count, of either sign, and wakes nobody.
InitSemaphore(t, n) ==
  /\ pc[t] = "run"
  /\ count' = n
  /\ floor' = IF n < 0 THEN n ELSE 0
  /\ unwoken' = (n > 0 /\ Asleep # {})
  /\ UNCHANGED pc

\* Mutation of SignalSemaphore: the waiters are woken only at the change from 0.
SignalFromZero(t) ==
  /\ pc[t] = "run" /\ count < MaxCount
  /\ count' = count + 1
  /\ pc' = [u \in Thread |-> IF u \in Asleep /\ count = 1 THEN "semWoken" ELSE pc[u]]
  /\ UNCHANGED <<floor, unwoken>>

\* OSSignalSemaphore: count++ and condvarWakeAll.
SignalSemaphore(t) ==
  /\ pc[t] = "run" /\ count < MaxCount
  /\ count' = count + 1
  /\ pc' = [u \in Thread |-> IF u \in Asleep THEN "semWoken" ELSE pc[u]]
  /\ unwoken' = FALSE
  /\ UNCHANGED floor

\* Mutation of WaitSemaphore: an `if` where the code has a `while`.
WaitUntested(t) ==
  /\ pc[t] \in {"run", "semWoken"}
  /\ \/ /\ count > 0 \/ pc[t] = "semWoken"
        /\ count' = count - 1
        /\ pc' = [pc EXCEPT ![t] = "run"]
     \/ /\ count <= 0 /\ pc[t] = "run"
        /\ pc' = [pc EXCEPT ![t] = "semAsleep"]
        /\ UNCHANGED count
  /\ UNCHANGED <<floor, unwoken>>

\* OSWaitSemaphore, at the call or when condvarWait returns: take a permit, or
\* go (back) to sleep.
WaitSemaphore(t) ==
  /\ pc[t] \in {"run", "semWoken"}
  /\ \/ /\ count > 0
        /\ count' = count - 1
        /\ pc' = [pc EXCEPT ![t] = "run"]
     \/ /\ count <= 0
        /\ pc' = [pc EXCEPT ![t] = "semAsleep"]
        /\ UNCHANGED count
  /\ UNCHANGED <<floor, unwoken>>

\* OSTryWaitSemaphore, when it succeeds; when it fails it changes nothing.
TryWaitSemaphore(t) ==
  /\ pc[t] = "run" /\ count > 0
  /\ count' = count - 1
  /\ UNCHANGED <<floor, unwoken, pc>>

SemNext(t) == \/ \E n \in -1..MaxCount : InitSemaphore(t, n)
              \/ SignalSemaphore(t) \/ WaitSemaphore(t) \/ TryWaitSemaphore(t)

\* However many waiters one signal wakes, and whoever takes the permit before
\* them, no wait takes a permit that is not there: count never falls below floor.
SemTypeOK == floor \in {-1, 0} /\ count \in floor..MaxCount /\ unwoken \in BOOLEAN

\* No thread sleeps while there is a permit, except where OSInitSemaphore made
\* the permit under its feet: then it sleeps until the next signal.
NoSleepOverPermit == Asleep # {} /\ ~unwoken => count <= 0
==============================================================================
