----------------------------- MODULE MCMutexCond -----------------------------
(***************************************************************************)
(* Guest threads against mutexes and conditions, with the fairness of the  *)
(* scheduler and of a guest that finishes what it holds.                   *)
(***************************************************************************)
EXTENDS MutexCond, TLC

\* The kernel hands a contended Mutex to threads of equal priority in turn, so
\* a thread inside the library is not passed over for ever.  The guest side is
\* an assumption on the program: a thread does not nest for ever, it unwinds
\* each depth it keeps coming back to.
Unwind(t, m, d) == depth[t][m] = d /\ Unlock(t, m)

FairSpec ==
  /\ Spec
  /\ \A t \in Thread :
       /\ SF_vars(LockKernel(t)) /\ SF_vars(WaitLock(t))
       /\ WF_vars(Inside(t))
       /\ \A m \in Mutex, d \in 1..MaxDepth : SF_vars(Unwind(t, m, d))

\* A thread woken by OSSignalCond returns from OSWaitCond: the woken threads all
\* want the mutex at once, with others who lock it, and get it one after the
\* other.  (With one mutex: with several a guest can deadlock on their order.)
SignalledReturns == \A t \in Thread : pc[t] = "woken" ~> pc[t] = "run"
==============================================================================
