-------------------------------- MODULE Event --------------------------------
(***************************************************************************)
(* OSEvent (source/event.cpp): manual-reset and auto-reset events with     *)
(* plain and timed waits.                                                  *)
(*                                                                         *)
(* A HostEvent is only touched under its lock, so a call is one step up to *)
(* where it sleeps.  A timed wait sleeps 1 ms at a time and compares the   *)
(* clock with its deadline each time round; the clock is abstracted to the *)
(* moment it passes that deadline.                                         *)
(***************************************************************************)
EXTENDS Naturals, FiniteSets

CONSTANTS Thread

VARIABLES pc,
          signalled, autoReset,   \* the HostEvent
          late,      \* late[t]: the deadline of t's timed wait has passed
          owed,      \* threads waiting when OSSignalEventAll last ran, until
                     \* they return or a reset takes the signal back
          unwoken    \* has an initialisation signalled under sleeping threads?

eventVars == <<signalled, autoReset, late, owed, unwoken>>

EventInit ==
  /\ signalled = FALSE /\ autoReset = FALSE
  /\ late = [t \in Thread |-> FALSE]
  /\ owed = {} /\ unwoken = FALSE

Sleepers == {t \in Thread : pc[t] \in {"waiting", "timing"}}   \* on the condvar
Awake == {t \in Thread : pc[t] \in {"woken", "polling"}}       \* out of it, not yet returned

WokenPlace == [waiting |-> "woken", timing |-> "polling"]

\* OSInitEvent: the state is set, nobody is woken.
InitEvent(t, value, auto) ==
  /\ pc[t] = "run"
  /\ signalled' = value
  /\ autoReset' = auto
  /\ unwoken' = (value /\ Sleepers # {})
  /\ owed' = {}
  /\ UNCHANGED <<pc, late>>

WakeAll == pc' = [t \in Thread |-> IF t \in Sleepers THEN WokenPlace[pc[t]] ELSE pc[t]]

WakeOne == IF Sleepers = {} THEN UNCHANGED pc
           ELSE \E w \in Sleepers : pc' = [pc EXCEPT ![w] = WokenPlace[@]]

\* Mutation of SignalEvent: one waiter is woken in either mode.
SignalOneOnly(t) ==
  /\ pc[t] = "run"
  /\ signalled' = TRUE
  /\ WakeOne
  /\ unwoken' = FALSE
  /\ UNCHANGED <<autoReset, late, owed>>

\* OSSignalEvent: one waiter is woken in auto-reset mode, all of them in manual.
SignalEvent(t) ==
  /\ pc[t] = "run"
  /\ signalled' = TRUE
  /\ IF autoReset THEN WakeOne ELSE WakeAll
  /\ unwoken' = FALSE
  /\ UNCHANGED <<autoReset, late, owed>>

\* OSSignalEventAll: set, wake all, and in auto-reset mode clear again, all
\* under the lock.
SignalEventAll(t) ==
  /\ pc[t] = "run"
  /\ WakeAll
  /\ signalled' = ~autoReset
  /\ owed' = Sleepers \cup Awake
  /\ unwoken' = FALSE
  /\ UNCHANGED <<autoReset, late>>

ResetEvent(t) ==
  /\ pc[t] = "run"
  /\ signalled' = FALSE
  /\ owed' = {}
  /\ UNCHANGED <<pc, autoReset, late, unwoken>>

\* A wait finds the event signalled: in auto-reset mode it takes the signal.
Released(t) ==
  /\ signalled
  /\ signalled' = ~autoReset
  /\ pc' = [pc EXCEPT ![t] = "run"]
  /\ late' = [late EXCEPT ![t] = FALSE]
  /\ owed' = owed \ {t}
  /\ UNCHANGED <<autoReset, unwoken>>

Sleep(t, place) ==
  /\ ~signalled
  /\ pc' = [pc EXCEPT ![t] = place]
  /\ UNCHANGED eventVars

\* OSWaitEvent, at the call or when condvarWait returns.
WaitEvent(t) ==
  /\ pc[t] \in {"run", "woken"}
  /\ Released(t) \/ Sleep(t, "waiting")

\* Mutation of WaitEventWithTimeout: each wake-up starts a new timeout.
WaitEventRestarting(t) ==
  /\ pc[t] \in {"run", "polling"}
  /\ \/ Released(t)
     \/ /\ ~signalled
        /\ pc' = [pc EXCEPT ![t] = "timing"]
        /\ late' = [late EXCEPT ![t] = FALSE]
        /\ UNCHANGED <<signalled, autoReset, owed, unwoken>>

\* OSWaitEventWithTimeout at the top of its loop: released, timed out (the
\* signal is tested first), or asleep for another millisecond.  A timeout of 0
\* has passed at the call.
WaitEventWithTimeout(t) ==
  /\ pc[t] \in {"run", "polling"}
  /\ \/ Released(t)
     \/ ~late[t] /\ Sleep(t, "timing")
     \/ /\ ~signalled /\ late[t]
        /\ pc' = [pc EXCEPT ![t] = "run"]
        /\ late' = [late EXCEPT ![t] = FALSE]
        /\ owed' = owed \ {t}
        /\ UNCHANGED <<signalled, autoReset, unwoken>>

\* condvarWaitTimeout gives up after 1 ms.
Tick(t) ==
  /\ pc[t] = "timing"
  /\ pc' = [pc EXCEPT ![t] = "polling"]
  /\ UNCHANGED eventVars

\* The clock passes the deadline of t.
PassDeadline(t) ==
  /\ pc[t] \in {"timing", "polling"} /\ ~late[t]
  /\ late' = [late EXCEPT ![t] = TRUE]
  /\ UNCHANGED <<pc, signalled, autoReset, owed, unwoken>>

EventNext(t) ==
  \/ \E value, auto \in BOOLEAN : InitEvent(t, value, auto)
  \/ SignalEvent(t) \/ SignalEventAll(t) \/ ResetEvent(t)
  \/ WaitEvent(t) \/ WaitEventWithTimeout(t) \/ Tick(t) \/ PassDeadline(t)
------------------------------------------------------------------------------
EventTypeOK ==
  /\ signalled \in BOOLEAN /\ autoReset \in BOOLEAN /\ unwoken \in BOOLEAN
  /\ late \in [Thread -> BOOLEAN]
  /\ owed \subseteq Thread

\* No thread sleeps on over a signal: if the event is signalled and somebody
\* sleeps on it, somebody else is awake to take the signal, in either mode and
\* however timed waits, barging waits and resets interleave.
NoSleepOverSignal ==
  signalled /\ Sleepers # {} /\ ~unwoken => autoReset /\ Awake # {}

\* event.cpp:67: "with auto-reset, all waiting threads are woken and the event
\* is then reset".  The same for every event.
SignalAllReleasesAll == owed \cap Sleepers = {}
==============================================================================
