------------------------------ MODULE GuestSync ------------------------------
(***************************************************************************)
(* Guest threads that use a semaphore, an event and a spin lock, and the   *)
(* handle table in which every call finds its object first.  The objects   *)
(* share nothing but the threads, and a thread blocked on one of them      *)
(* cannot call another.  The handle table and the spin lock would multiply *)
(* the states of the others without meeting them: the table is left before *)
(* the object is used, and a behaviour uses either alone.                  *)
(***************************************************************************)
EXTENDS Integers, FiniteSets

CONSTANTS Thread, NoThread, MaxCount,
          Pair,   \* the threads that race in the handle table
          Key, Host, NoHost, NoKey

ASSUME GuestSyncAssumption ==
  /\ NoThread \notin Thread /\ Pair \subseteq Thread /\ MaxCount \in Nat
  /\ NoHost \notin Host /\ NoKey \notin Key

VARIABLES part, pc,
          lock, map, object, stage, key, host, answer,
          count, floor, semUnwoken,
          signalled, autoReset, late, owed, eventUnwoken,
          spinner, overdue

H == INSTANCE HandleTable WITH Thread <- Pair, pc <- stage
S == INSTANCE Semaphore WITH unwoken <- semUnwoken
E == INSTANCE Event WITH unwoken <- eventUnwoken
L == INSTANCE SpinLock

tableVars == <<lock, map, object, stage, key, host, answer>>
semVars == <<count, floor, semUnwoken>>
eventVars == <<signalled, autoReset, late, owed, eventUnwoken>>
spinVars == <<spinner, overdue>>

vars == <<part, pc, tableVars, semVars, eventVars, spinVars>>

Init ==
  /\ part \in {"table", "signals", "spinlock"} /\ pc = [t \in Thread |-> "run"]
  /\ H!Init /\ S!SemInit /\ E!EventInit /\ L!SpinInit

UseTable == part = "table" /\ H!Next /\ UNCHANGED <<pc, semVars, eventVars, spinVars>>
UseSemaphore(t) == part = "signals" /\ S!SemNext(t) /\ UNCHANGED <<tableVars, eventVars, spinVars>>
UseEvent(t) == part = "signals" /\ E!EventNext(t) /\ UNCHANGED <<tableVars, semVars, spinVars>>
UseSpinLock(t) == part = "spinlock" /\ L!SpinNext(t) /\ UNCHANGED <<tableVars, semVars, eventVars>>

Next ==
  /\ \/ UseTable
     \/ \E t \in Thread : UseSemaphore(t) \/ UseEvent(t) \/ UseSpinLock(t)
  /\ UNCHANGED part

\* What goes on inside a call without the guest: a woken thread gets the lock of
\* its object, which nobody keeps, a short sleep ends, and time passes.  That a
\* spin lock is ever released is up to the guest, and not assumed; the handle table
\* has the fairness of its own module.
Woken(t) ==
  \/ pc[t] = "semWoken" /\ UseSemaphore(t)
  \/ pc[t] \in {"woken", "timing", "polling"} /\ UseEvent(t) /\ pc'[t] # pc[t]
  \/ pc[t] \in {"napping", "trying"} /\ UseSpinLock(t) /\ pc'[t] # pc[t]

Expires(t) ==
  /\ \/ E!PassDeadline(t) /\ UNCHANGED spinVars
     \/ L!Expire(t) /\ UNCHANGED eventVars
  /\ UNCHANGED <<part, tableVars, semVars>>

Fairness == \A t \in Thread : WF_vars(Woken(t) /\ UNCHANGED part) /\ WF_vars(Expires(t))

Spec == Init /\ [][Next]_vars /\ Fairness /\ H!Fairness
------------------------------------------------------------------------------
Places == {"run", "semAsleep", "semWoken", "waiting", "woken", "timing", "polling",
           "locking", "napping", "trying"}

TypeOK == pc \in [Thread -> Places] /\ S!SemTypeOK /\ E!EventTypeOK /\ L!SpinTypeOK

\* The properties of the parts, on the threads they share.
NoLeakNoRawHost == H!NoLeakNoRawHost
IsAtomicMap == H!IsAtomicMap
CallsReturn == H!CallsReturn
NoSleepOverPermit == S!NoSleepOverPermit
NoSleepOverSignal == E!NoSleepOverSignal
SignalAllReleasesAll == E!SignalAllReleasesAll

\* OSWaitEventWithTimeout and OSTryAcquireSpinLockWithTimeout return, whatever the
\* others signal, reset, take and hold.
TimedWaitReturns ==
  \A t \in Thread : pc[t] \in {"timing", "polling", "napping", "trying"} ~> pc[t] = "run"
==============================================================================
