------------------------------- MODULE SpinLock -------------------------------
(***************************************************************************)
(* OSSpinLock (source/spinlock.cpp), its plain and its uninterruptible     *)
(* calls, and the lock of __ghsLock: a mutex of the host, which is not     *)
(* recursive.  A timed acquire tries, looks at the clock and sleeps 0.1 ms *)
(* until its deadline, which is abstracted to the moment it passes.        *)
(***************************************************************************)
EXTENDS Naturals

CONSTANTS Thread, NoThread

VARIABLES pc,
          spinner,   \* who holds the lock, or NoThread
          overdue    \* overdue[t]: the deadline of t's timed acquire has passed

spinVars == <<spinner, overdue>>

SpinInit == spinner = NoThread /\ overdue = [t \in Thread |-> FALSE]

Taken(t) == spinner = NoThread /\ spinner' = t /\ pc' = [pc EXCEPT ![t] = "run"]

\* OSAcquireSpinLock; a thread that holds the lock does not call it.
AcquireSpinLock(t) ==
  /\ pc[t] = "run" /\ spinner # t
  /\ IF spinner = NoThread THEN Taken(t)
     ELSE pc' = [pc EXCEPT ![t] = "locking"] /\ UNCHANGED spinner
  /\ UNCHANGED overdue

\* The host's mutex comes free for a thread that waits in mutexLock.
SpinLocked(t) == pc[t] = "locking" /\ Taken(t) /\ UNCHANGED overdue

\* OSTryAcquireSpinLock, when it succeeds; when it fails it changes nothing.
TryAcquireSpinLock(t) == pc[t] = "run" /\ Taken(t) /\ UNCHANGED overdue

\* OSTryAcquireSpinLockWithTimeout at the top of its loop: taken, timed out, or
\* asleep.  A timeout of 0 has passed at the call.
TryAcquireWithTimeout(t) ==
  /\ pc[t] \in {"run", "trying"}
  /\ \/ Taken(t) /\ overdue' = [overdue EXCEPT ![t] = FALSE]
     \/ /\ spinner # NoThread /\ ~overdue[t]
        /\ pc' = [pc EXCEPT ![t] = "napping"] /\ UNCHANGED spinVars
     \/ /\ spinner # NoThread /\ overdue[t]
        /\ pc' = [pc EXCEPT ![t] = "run"]
        /\ overdue' = [overdue EXCEPT ![t] = FALSE] /\ UNCHANGED spinner

\* svcSleepThread returns, and the clock passes the deadline of t.
WakeUp(t) ==
  /\ pc[t] = "napping"
  /\ pc' = [pc EXCEPT ![t] = "trying"] /\ UNCHANGED spinVars

Expire(t) ==
  /\ pc[t] \in {"napping", "trying"} /\ ~overdue[t]
  /\ overdue' = [overdue EXCEPT ![t] = TRUE] /\ UNCHANGED <<pc, spinner>>

\* OSReleaseSpinLock, by the thread that has acquired it.
ReleaseSpinLock(t) ==
  /\ pc[t] = "run" /\ spinner = t
  /\ spinner' = NoThread /\ UNCHANGED <<pc, overdue>>

SpinNext(t) ==
  \/ AcquireSpinLock(t) \/ SpinLocked(t) \/ TryAcquireSpinLock(t) \/ TryAcquireWithTimeout(t)
  \/ WakeUp(t) \/ Expire(t) \/ ReleaseSpinLock(t)

SpinTypeOK == spinner \in Thread \cup {NoThread} /\ overdue \in [Thread -> BOOLEAN]
==============================================================================
