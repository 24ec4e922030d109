-------------------------------- MODULE Alarm --------------------------------
(***************************************************************************)
(* OSAlarm (source/alarm.cpp): all alarms in one map under g_lock, and a   *)
(* scheduler thread that collects what is due under the lock and calls the *)
(* callbacks without it, so that these may set and cancel alarms.  The     *)
(* thread is started by the first OSSetAlarm, through a flag that no lock  *)
(* protects, and stopped by coreinitNxAlarmShutdown.                       *)
(*                                                                         *)
(* A section under g_lock is one step (a sleep in condvarWait ends it).    *)
(* Time is kept relative: the ticks left until each alarm is due.  g_lock  *)
(* is initialised.  Left out are the user data of an alarm, which nothing  *)
(* reads, its tag, OSCancelAlarms disarming any set of alarms instead, and *)
(* OSWaitAlarm, which polls and changes nothing.                           *)
(***************************************************************************)
EXTENDS Integers, FiniteSets

CONSTANTS
  Thread,      \* guest threads
  Alarm,
  Scheduler,   \* threads that threadCreate can give schedulerLoop
  MaxDelay,    \* bound on delays and periods, in ticks
  MaxSets      \* bound on the settings, over all alarms

ASSUME AlarmAssumption ==
  /\ MaxDelay \in Nat \ {0} /\ MaxSets \in Nat \ {0}
  /\ Thread \cap Scheduler = {}
  /\ -1 \notin Scheduler

Off == -1        \* not armed
NoHandle == -1   \* g_thread before its first use

VARIABLES
  left,       \* left[a]: ticks until a is due, 0 when it is, or Off
  interval,   \* interval[a], 0 for a one-shot alarm
  sets,       \* how many times an alarm has been set
  current,    \* current[a]: which of these is the latest of a, or 0
  at,         \* at[s]: where scheduler s is in its loop
  nap,        \* nap[s]: ticks left of its condvarWaitTimeout
  due,        \* due[s]: settings it collected and has yet to call
  pc,         \* where a caller of OSSetAlarm is in ensureThread
  started, stop, handle,   \* g_started, g_stop and g_thread
  closing,    \* where coreinitNxAlarmShutdown is
  awaited,    \* the thread whose end it waits for, or NoHandle
  verdict     \* verdict[a]: what became of the current setting of a: "open",
              \* "called", "withdrawn" or, by an OSCancelAlarm that answered 1,
              \* "cancelled"

alarms == <<left, interval, sets, current, verdict>>
loop == <<at, nap, due>>
life == <<started, stop, handle, closing, awaited>>
vars == <<alarms, loop, pc, life>>

Caller == Thread \cup Scheduler

Init ==
  /\ left = [a \in Alarm |-> Off]
  /\ interval = [a \in Alarm |-> 0]
  /\ sets = 0 /\ current = [a \in Alarm |-> 0] /\ verdict = [a \in Alarm |-> "open"]
  /\ at = [s \in Scheduler |-> "none"]
  /\ nap = [s \in Scheduler |-> 0] /\ due = [s \in Scheduler |-> {}]
  /\ pc = [c \in Caller |-> "run"]
  /\ started = FALSE /\ stop = FALSE /\ handle = NoHandle
  /\ closing = "no" /\ awaited = NoHandle

Setting(a) == [alarm |-> a, no |-> current[a], once |-> interval[a] = 0]
Armed == {a \in Alarm : left[a] # Off}

\* The guest calls from its own threads, until the port shuts the library down,
\* and from the callbacks, which run on the scheduler.
MayCall(c) ==
  /\ pc[c] = "run"
  /\ IF c \in Thread THEN closing = "no" ELSE at[c] = "callbacks"

\* condvarWakeAll(&g_wake)
Wake ==
  /\ at' = [s \in Scheduler |-> IF at[s] \in {"asleep", "napping"} THEN "loop" ELSE at[s]]
  /\ nap' = [s \in Scheduler |-> 0]

\* Mutation of Set: the scheduler is not woken.
SetQuietly(c, a, delay, period) ==
  /\ MayCall(c) /\ sets < MaxSets
  /\ left' = [left EXCEPT ![a] = delay]
  /\ interval' = [interval EXCEPT ![a] = period]
  /\ sets' = sets + 1 /\ current' = [current EXCEPT ![a] = sets + 1]
  /\ verdict' = [verdict EXCEPT ![a] = "open"]
  /\ pc' = [pc EXCEPT ![c] = "test"]
  /\ UNCHANGED <<loop, life>>

\* OSSetAlarm (period 0) and OSSetPeriodicAlarm, up to ensureThread.
Set(c, a, delay, period) ==
  /\ MayCall(c) /\ sets < MaxSets
  /\ left' = [left EXCEPT ![a] = delay]
  /\ interval' = [interval EXCEPT ![a] = period]
  /\ sets' = sets + 1 /\ current' = [current EXCEPT ![a] = sets + 1]
  /\ verdict' = [verdict EXCEPT ![a] = "open"]
  /\ Wake
  /\ pc' = [pc EXCEPT ![c] = "test"]
  /\ UNCHANGED <<due, life>>

\* ensureThread: if (g_started) return.
TestStarted(c) ==
  /\ pc[c] = "test"
  /\ pc' = [pc EXCEPT ![c] = IF started THEN "run" ELSE "create"]
  /\ UNCHANGED <<alarms, loop, life>>

\* threadCreate, which may fail.  g_thread is written although another thread is in it;
\* what was created and never started, or never closed, is then lost.
CreateThread(c) ==
  /\ pc[c] = "create"
  /\ \/ \E s \in Scheduler :
          /\ s # awaited /\ (at[s] = "none" \/ (at[s] \in {"created", "exited"} /\ s # handle))
          /\ at' = [at EXCEPT ![s] = "created"]
          /\ handle' = s
          /\ pc' = [pc EXCEPT ![c] = "start"]
     \/ pc' = [pc EXCEPT ![c] = "run"] /\ UNCHANGED <<at, handle>>
  /\ UNCHANGED <<alarms, nap, due, started, stop, closing, awaited>>

\* threadStart, of the thread in g_thread by now: it fails if that is not one to be
\* started, and may fail if it is.
StartThread(c) ==
  /\ pc[c] = "start"
  /\ \/ /\ at[handle] = "created"
        /\ at' = [at EXCEPT ![handle] = "loop"]
        /\ pc' = [pc EXCEPT ![c] = "flag"]
     \/ pc' = [pc EXCEPT ![c] = "run"] /\ UNCHANGED at
  /\ UNCHANGED <<alarms, nap, due, life>>

\* g_started = true
SetStarted(c) ==
  /\ pc[c] = "flag"
  /\ started' = TRUE
  /\ pc' = [pc EXCEPT ![c] = "run"]
  /\ UNCHANGED <<alarms, loop, stop, handle, closing, awaited>>

\* The alarms in S are disarmed.
Disarm(S, how) ==
  /\ left' = [a \in Alarm |-> IF a \in S THEN Off ELSE left[a]]
  /\ verdict' = [a \in Alarm |-> IF a \notin S THEN verdict[a]
                                 ELSE IF a \in Armed THEN how
                                 ELSE IF verdict[a] = "open" THEN "withdrawn"
                                 ELSE verdict[a]]

\* OSCancelAlarm answers whether the alarm was armed.
Cancel(c, a) ==
  /\ MayCall(c)
  /\ Disarm({a}, "cancelled") /\ Wake
  /\ UNCHANGED <<interval, sets, current, due, pc, life>>

\* OSCancelAlarms, the alarms with the tag being S.
CancelGroup(c, S) ==
  /\ MayCall(c)
  /\ Disarm(S, "withdrawn") /\ Wake
  /\ UNCHANGED <<interval, sets, current, due, pc, life>>

\* OSCreateAlarm: also an alarm that was armed starts anew, and nobody is woken.
Create(c, a) ==
  /\ MayCall(c)
  /\ Disarm({a}, "withdrawn")
  /\ interval' = [interval EXCEPT ![a] = 0]
  /\ UNCHANGED <<sets, current, loop, pc, life>>

Nearest == CHOOSE n \in 0..MaxDelay :
             (\E a \in Armed : left[a] = n) /\ \A a \in Armed : n <= left[a]

\* schedulerLoop sees g_stop.
Exit(s) ==
  /\ at[s] = "loop" /\ stop
  /\ at' = [at EXCEPT ![s] = "exited"]
  /\ UNCHANGED <<alarms, nap, due, pc, life>>

\* Mutation of Collect: a one-shot alarm is disarmed when it is called.
CollectArmed(s) ==
  LET now == {a \in Armed : left[a] = 0} IN
  /\ at[s] = "loop" /\ ~stop /\ now # {}
  /\ due' = [due EXCEPT ![s] = {Setting(a) : a \in now}]
  /\ left' = [a \in Alarm |-> IF a \in now THEN interval[a] ELSE left[a]]
  /\ at' = [at EXCEPT ![s] = "callbacks"]
  /\ UNCHANGED <<interval, sets, current, verdict, nap, pc, life>>

\* The round of the loop that finds alarms due: a periodic alarm is armed again
\* from now, a one-shot alarm disarmed, before any of them is called.
Collect(s) ==
  LET now == {a \in Armed : left[a] = 0} IN
  /\ at[s] = "loop" /\ ~stop /\ now # {}
  /\ due' = [due EXCEPT ![s] = {Setting(a) : a \in now}]
  /\ left' = [a \in Alarm |-> IF a \notin now THEN left[a]
                              ELSE IF interval[a] > 0 THEN interval[a] ELSE Off]
  /\ at' = [at EXCEPT ![s] = "callbacks"]
  /\ UNCHANGED <<interval, sets, current, verdict, nap, pc, life>>

\* A callback is called, without the lock.
Call(s) ==
  /\ at[s] = "callbacks" /\ pc[s] = "run"
  /\ \E e \in due[s] :
       /\ due' = [due EXCEPT ![s] = @ \ {e}]
       /\ verdict' = [verdict EXCEPT ![e.alarm] =
                        IF e.no = current[e.alarm] /\ @ = "open" THEN "called" ELSE @]
  /\ UNCHANGED <<left, interval, sets, current, at, nap, pc, life>>

\* The last callback has returned and the loop starts over.
CallsDone(s) ==
  /\ at[s] = "callbacks" /\ pc[s] = "run" /\ due[s] = {}
  /\ at' = [at EXCEPT ![s] = "loop"]
  /\ UNCHANGED <<alarms, nap, due, pc, life>>

\* Nothing is due: sleep until the nearest alarm, or until woken.
Sleep(s) ==
  /\ at[s] = "loop" /\ ~stop
  /\ \A a \in Armed : left[a] > 0
  /\ IF Armed = {} THEN at' = [at EXCEPT ![s] = "asleep"] /\ UNCHANGED nap
     ELSE at' = [at EXCEPT ![s] = "napping"] /\ nap' = [nap EXCEPT ![s] = Nearest]
  /\ UNCHANGED <<alarms, due, pc, life>>

\* condvarWaitTimeout gives up.
NapOver(s) ==
  /\ at[s] = "napping" /\ nap[s] = 0
  /\ at' = [at EXCEPT ![s] = "loop"]
  /\ UNCHANGED <<alarms, nap, due, pc, life>>

\* Time passes.
Less(n) == IF n > 0 THEN n - 1 ELSE n

Tick ==
  /\ left' = [a \in Alarm |-> Less(left[a])]
  /\ nap' = [s \in Scheduler |-> Less(nap[s])]
  /\ <<left', nap'>> # <<left, nap>>
  /\ UNCHANGED <<interval, sets, current, verdict, at, due, pc, life>>

\* Mutation of RequestStop: the scheduler is not woken.
RequestStopQuietly ==
  /\ closing = "no" /\ \A t \in Thread : pc[t] = "run"
  /\ stop' = TRUE /\ closing' = "join"
  /\ UNCHANGED <<alarms, loop, pc, started, handle, awaited>>

\* coreinitNxAlarmShutdown: g_stop under the lock.  The port calls it when its
\* threads make no alarm calls; callbacks may be running.
RequestStop ==
  /\ closing = "no" /\ \A t \in Thread : pc[t] = "run"
  /\ stop' = TRUE /\ closing' = "join"
  /\ Wake
  /\ UNCHANGED <<alarms, due, pc, started, handle, awaited>>

\* if (g_started) threadWaitForExit, of the thread that is in g_thread now.
Join ==
  /\ closing = "join"
  /\ IF started THEN awaited' = handle /\ closing' = "wait"
     ELSE closing' = "clear" /\ UNCHANGED awaited
  /\ UNCHANGED <<alarms, loop, pc, started, stop, handle>>

\* It has ended, or its handle was closed before, and the wait fails.
Waited ==
  /\ closing = "wait" /\ at[awaited] \in {"exited", "none"}
  /\ closing' = "close" /\ awaited' = NoHandle
  /\ UNCHANGED <<alarms, loop, pc, started, stop, handle>>

\* threadClose, g_started = false.  If a racing ensureThread has put another thread in
\* g_thread since, that one loses its stack: it may be gone, or go on.
Close ==
  /\ closing = "close"
  /\ \/ /\ at' = [at EXCEPT ![handle] = "none"]
        /\ due' = [due EXCEPT ![handle] = {}] /\ pc' = [pc EXCEPT ![handle] = "run"]
     \/ at[handle] # "exited" /\ UNCHANGED <<at, due, pc>>
  /\ started' = FALSE /\ closing' = "clear"
  /\ UNCHANGED <<alarms, nap, stop, handle, awaited>>

\* Mutation of Clear: g_stop stays set.
ClearOnly ==
  /\ closing = "clear"
  /\ Disarm(Alarm, "withdrawn")
  /\ interval' = [a \in Alarm |-> 0]
  /\ closing' = "no"
  /\ UNCHANGED <<sets, current, loop, pc, started, stop, handle, awaited>>

\* g_alarms.clear(); g_stop = false.
Clear ==
  /\ closing = "clear"
  /\ Disarm(Alarm, "withdrawn")
  /\ interval' = [a \in Alarm |-> 0]
  /\ stop' = FALSE /\ closing' = "no"
  /\ UNCHANGED <<sets, current, loop, pc, started, handle, awaited>>

Loop(s) == Exit(s) \/ Collect(s) \/ Call(s) \/ CallsDone(s) \/ Sleep(s) \/ NapOver(s)
EnsureThread(c) == TestStarted(c) \/ CreateThread(c) \/ StartThread(c) \/ SetStarted(c)
Finish == Join \/ Waited \/ Close \/ Clear
Shutdown == RequestStop \/ Finish

Guest(c) ==
  \E a \in Alarm :
    \/ \E delay, period \in 0..MaxDelay : Set(c, a, delay, period)
    \/ Cancel(c, a) \/ Create(c, a)
    \/ \E S \in SUBSET Alarm : CancelGroup(c, S)

Next == \/ \E c \in Caller : Guest(c) \/ EnsureThread(c)
        \/ \E s \in Scheduler : Loop(s)
        \/ Shutdown \/ Tick

\* Threads inside the library run on, and time passes.  Callbacks return.
Fairness ==
  /\ \A s \in Scheduler : WF_vars(Loop(s))
  /\ \A c \in Caller : WF_vars(EnsureThread(c))
  /\ WF_vars(Finish) /\ WF_vars(Tick)

Spec == Init /\ [][Next]_vars /\ Fairness
------------------------------------------------------------------------------
SettingType == [alarm : Alarm, no : 1..MaxSets, once : BOOLEAN]

TypeOK ==
  /\ left \in [Alarm -> 0..MaxDelay \cup {Off}]
  /\ interval \in [Alarm -> 0..MaxDelay]
  /\ sets \in 0..MaxSets /\ current \in [Alarm -> 0..sets]
  /\ verdict \in [Alarm -> {"open", "called", "withdrawn", "cancelled"}]
  /\ at \in [Scheduler -> {"none", "created", "loop", "asleep", "napping", "callbacks", "exited"}]
  /\ nap \in [Scheduler -> 0..MaxDelay]
  /\ due \in [Scheduler -> SUBSET SettingType]
  /\ pc \in [Caller -> {"run", "test", "create", "start", "flag"}]
  /\ started \in BOOLEAN /\ stop \in BOOLEAN
  /\ {handle, awaited} \subseteq Scheduler \cup {NoHandle}
  /\ closing \in {"no", "join", "wait", "close", "clear"}

\* No scheduler sleeps past an alarm: asleep, nothing is armed; napping, it
\* wakes no later than the nearest is due, whatever was set in the meantime.
SleepsLightly ==
  /\ TypeOK
  /\ \A s \in Scheduler :
       /\ at[s] = "asleep" => Armed = {}
       /\ at[s] = "napping" => \A a \in Armed : nap[s] <= left[a]

\* README: "one-shot alarms fire once".  A one-shot setting is armed, or in the
\* list of one scheduler, or has been called: never two of these at once, also
\* with a second scheduler and with the alarm set again in between.
OneShotOnce ==
  /\ \A r, s \in Scheduler : \A e \in due[r] \cap due[s] : e.once => r = s
  /\ \A a \in Armed : interval[a] = 0 =>
       verdict[a] = "open" /\ \A s \in Scheduler : Setting(a) \notin due[s]
  /\ \A s \in Scheduler : \A e \in due[s] :
       e.once /\ e.no = current[e.alarm] => verdict[e.alarm] # "called"

\* README: "One scheduler thread for all alarms".
OneScheduler == Cardinality({s \in Scheduler : at[s] \notin {"none", "created", "exited"}}) <= 1

\* A shutdown waits for a thread that was created and never started: g_started was set
\* for another one before a racing ensureThread wrote g_thread and failed to start it.
Stranded == closing = "wait" /\ at[awaited] = "created"

\* With one scheduler and g_started set, an alarm that is armed is called, unless
\* it is cancelled, set again, created again or cleared first: also one set
\* while the scheduler is on its way to sleep, set by a callback, or set after a
\* shutdown, and whatever creations and starts have failed.
ArmedFires ==
  [] OneScheduler /\ []<>~Stranded =>
    \A a \in Alarm, n \in 1..MaxSets :
      started /\ a \in Armed /\ current[a] = n ~> current[a] # n \/ verdict[a] # "open"

\* coreinitNxAlarmShutdown returns, whatever the callbacks do meanwhile and however
\* many schedulers they have started, unless it is stranded for good.
ShutdownReturns == []<>~Stranded => (closing # "no" ~> closing = "no")

\* README: "cancelled alarms never fire".  Once OSCancelAlarm has answered that
\* the alarm was armed, the setting it cancelled is not called.
CancelledNeverFires ==
  [][\A s \in Scheduler : \A e \in due[s] \ due'[s] :
       e.no = current[e.alarm] => verdict[e.alarm] # "cancelled"]_vars
==============================================================================
