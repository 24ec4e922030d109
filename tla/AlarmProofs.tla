------------------------------ MODULE AlarmProofs ------------------------------
(***************************************************************************)
(* Proofs about Alarm, for any number of guest threads, alarms and         *)
(* schedulers and for any delays: no scheduler sleeps past an alarm, and a *)
(* one-shot setting is called once, however many schedulers there are.     *)
(***************************************************************************)
EXTENDS Alarm, WellFoundedInduction, NaturalsInduction, TLAPS

\* What has been collected was set: the number of a setting names it, and of an
\* alarm that is still armed with it, whether it is a one-shot.
DueKnown ==
  /\ \A a \in Armed : current[a] > 0
  /\ \A s \in Scheduler : \A e \in due[s] :
       /\ e.no <= sets
       /\ e.alarm \in Armed /\ e.no = current[e.alarm] => e = Setting(e.alarm)
  /\ \A r, s \in Scheduler : \A e \in due[r], f \in due[s] :
       e.alarm = f.alarm /\ e.no = f.no => e = f

\* What SleepsLightly says beyond the types.
Light ==
  \A s \in Scheduler :
    /\ at[s] = "asleep" => Armed = {}
    /\ at[s] = "napping" => \A a \in Armed : nap[s] <= left[a]

IInv == TypeOK /\ Light /\ OneShotOnce /\ DueKnown
------------------------------------------------------------------------------
\* A nonempty set of natural numbers has a least one.
LEMMA Least ==
  ASSUME NEW S \in SUBSET Nat, S # {}
  PROVE  \E n \in S : \A k \in S : n <= k
<1> DEFINE Below == {p \in Nat \X Nat : p[1] < p[2]}
<1>1. OpToRel(<, Nat) = Below
  BY DEF OpToRel
<1>2. IsWellFoundedOn(Below, Nat)
  BY NatLessThanWellFounded, <1>1
<1>3. \E n \in S : \A k \in S : <<k, n>> \notin Below
  BY <1>2, WFMin
<1>4. \A k, n \in Nat : <<k, n>> \in Below <=> k < n
  OBVIOUS
<1> HIDE DEF Below
<1>5. PICK n \in S : \A k \in S : <<k, n>> \notin Below
  BY <1>3
<1>6. \A k \in S : k \in Nat /\ n \in Nat /\ ~(k < n)
  BY <1>4, <1>5
<1> QED BY <1>6

\* The delay until the nearest alarm.
LEMMA NearestIs ==
  ASSUME TypeOK, Armed # {}
  PROVE  Nearest \in 0..MaxDelay /\ \A a \in Armed : Nearest <= left[a]
<1> DEFINE Delays == {left[a] : a \in Armed}
<1>1. \A a \in Armed : left[a] \in 0..MaxDelay
  BY DEF TypeOK, Armed, Off
<1>2. Delays \in SUBSET Nat /\ Delays # {}
  BY <1>1
<1>3. PICK n \in Delays : \A k \in Delays : n <= k
  BY <1>2, Least
<1>4. \E m \in 0..MaxDelay : (\E a \in Armed : left[a] = m) /\ \A a \in Armed : m <= left[a]
  BY <1>1, <1>3
<1> QED BY <1>4 DEF Nearest
------------------------------------------------------------------------------
\* What touches neither the alarms nor the lists keeps what is known of them.
LEMMA LoopKeeps ==
  ASSUME OneShotOnce, DueKnown, UNCHANGED <<alarms, due>>
  PROVE  OneShotOnce' /\ DueKnown'
BY DEF OneShotOnce, DueKnown, alarms, Armed, Setting

\* Disarming alarms only takes settings away.
LEMMA DisarmKeeps ==
  ASSUME IInv, NEW S \in SUBSET Alarm, NEW how \in {"cancelled", "withdrawn"}, Disarm(S, how),
         interval' \in [Alarm -> 0..MaxDelay], \A a \in Alarm \ S : interval'[a] = interval[a],
         UNCHANGED <<sets, current, due>>
  PROVE  /\ left' \in [Alarm -> 0..MaxDelay \cup {Off}]
         /\ verdict' \in [Alarm -> {"open", "called", "withdrawn", "cancelled"}]
         /\ Armed' = Armed \ S /\ \A a \in Armed' : left'[a] = left[a]
         /\ OneShotOnce' /\ DueKnown'
<1> USE DEF IInv
<1>1. left' \in [Alarm -> 0..MaxDelay \cup {Off}]
  BY DEF Disarm, TypeOK
<1>2. verdict' \in [Alarm -> {"open", "called", "withdrawn", "cancelled"}]
  BY DEF Disarm, TypeOK
<1>3. Armed' = Armed \ S /\ \A a \in Armed' : left'[a] = left[a]
  BY DEF Disarm, TypeOK, Armed
<1>4. /\ \A a \in Armed' : verdict'[a] = verdict[a] /\ interval'[a] = interval[a] /\ Setting(a)' = Setting(a)
      /\ \A a \in Alarm : verdict'[a] = "called" => verdict[a] = "called"
  BY <1>3 DEF Disarm, TypeOK, Armed, Setting
<1>5. OneShotOnce'
  <2>1. (\A r, s \in Scheduler : \A e \in due[r] \cap due[s] : e.once => r = s)'
    BY DEF OneShotOnce
  <2>2. (\A a \in Armed : interval[a] = 0 =>
           verdict[a] = "open" /\ \A s \in Scheduler : Setting(a) \notin due[s])'
    BY <1>3, <1>4 DEF OneShotOnce
  <2>3. (\A s \in Scheduler : \A e \in due[s] :
           e.once /\ e.no = current[e.alarm] => verdict[e.alarm] # "called")'
    <3>1. \A s \in Scheduler : \A e \in due[s] : e.alarm \in Alarm
      BY DEF TypeOK, SettingType
    <3> QED BY <1>4, <3>1 DEF OneShotOnce
  <2> QED BY <2>1, <2>2, <2>3 DEF OneShotOnce
<1>6. DueKnown'
  BY <1>3, <1>4 DEF DueKnown
<1> QED BY <1>1, <1>2, <1>3, <1>5, <1>6

\* After condvarWakeAll nobody sleeps.
LEMMA WakeKeeps ==
  ASSUME TypeOK, Wake
  PROVE  /\ at' \in [Scheduler -> {"none", "created", "loop", "asleep", "napping", "callbacks", "exited"}]
         /\ nap' \in [Scheduler -> 0..MaxDelay]
         /\ Light'
BY AlarmAssumption DEF TypeOK, Wake, Light

\* A new setting has a number that no list has heard of.
LEMMA SetKeeps ==
  ASSUME IInv, NEW c \in Caller, NEW a \in Alarm, NEW delay \in 0..MaxDelay, NEW period \in 0..MaxDelay,
         Set(c, a, delay, period)
  PROVE  IInv'
<1> USE DEF IInv
<1>0. sets \in Nat /\ sets' = sets + 1 /\ sets' \in 0..MaxSets /\ \A b \in Alarm : current[b] \in 0..sets
  BY AlarmAssumption DEF TypeOK, Set
<1>1. TypeOK'
  <2>1. current' \in [Alarm -> 0..sets']
    BY <1>0 DEF TypeOK, Set
  <2>2. left' \in [Alarm -> 0..MaxDelay \cup {Off}] /\ interval' \in [Alarm -> 0..MaxDelay]
    BY DEF TypeOK, Set
  <2>3. /\ verdict' \in [Alarm -> {"open", "called", "withdrawn", "cancelled"}]
        /\ pc' \in [Caller -> {"run", "test", "create", "start", "flag"}]
    BY DEF TypeOK, Set
  <2> QED BY <1>0, <2>1, <2>2, <2>3, WakeKeeps DEF TypeOK, Set, life
<1>2. Light'
  BY WakeKeeps DEF Set
<1>3. /\ Armed' = Armed \cup {a} /\ current'[a] = sets + 1 /\ verdict'[a] = "open" /\ due' = due
      /\ \A b \in Alarm \ {a} : /\ current'[b] = current[b] /\ verdict'[b] = verdict[b]
                                /\ interval'[b] = interval[b] /\ Setting(b)' = Setting(b)
  BY DEF TypeOK, Set, Armed, Off, Setting
<1>4. \A s \in Scheduler : \A e \in due[s] : e.no \in Nat /\ e.alarm \in Alarm /\ e.no <= sets
  BY DEF DueKnown, TypeOK, SettingType
<1>5. Setting(a)'.no = sets + 1
  BY <1>3 DEF Setting
<1>6. OneShotOnce'
  <2>1. (\A r, s \in Scheduler : \A e \in due[r] \cap due[s] : e.once => r = s)'
    BY <1>3 DEF OneShotOnce
  <2>2. (\A b \in Armed : interval[b] = 0 =>
           verdict[b] = "open" /\ \A s \in Scheduler : Setting(b) \notin due[s])'
    <3> SUFFICES ASSUME NEW b \in Armed', interval'[b] = 0
                 PROVE  verdict'[b] = "open" /\ \A s \in Scheduler : Setting(b)' \notin due[s]
      BY <1>3
    <3>1. CASE b = a
      BY <1>0, <1>3, <1>4, <1>5, <3>1
    <3>2. CASE b # a
      <4>1. b \in Armed /\ b \in Alarm \ {a}
        BY <1>3, <3>2 DEF Armed
      <4> QED BY <1>3, <4>1 DEF OneShotOnce
    <3> QED BY <3>1, <3>2
  <2>3. (\A s \in Scheduler : \A e \in due[s] :
           e.once /\ e.no = current[e.alarm] => verdict[e.alarm] # "called")'
    <3> SUFFICES ASSUME NEW s \in Scheduler, NEW e \in due[s], e.once, e.no = current'[e.alarm]
                 PROVE  verdict'[e.alarm] # "called"
      BY <1>3
    <3> QED BY <1>0, <1>3, <1>4 DEF OneShotOnce
  <2> QED BY <2>1, <2>2, <2>3 DEF OneShotOnce
<1>7. DueKnown'
  <2>1. (\A b \in Armed : current[b] > 0)'
    BY <1>0, <1>3 DEF DueKnown, Armed
  <2>2. ASSUME NEW s \in Scheduler, NEW e \in due[s]
        PROVE  e.no <= sets' /\ (e.alarm \in Armed' /\ e.no = current'[e.alarm] => e = Setting(e.alarm)')
    <3>1. CASE e.alarm = a
      BY <1>0, <1>3, <1>4, <2>2, <3>1
    <3>2. CASE e.alarm # a
      BY <1>0, <1>3, <1>4, <2>2, <3>2 DEF DueKnown
    <3> QED BY <3>1, <3>2
  <2> QED BY <1>3, <2>1, <2>2 DEF DueKnown
<1> QED BY <1>1, <1>2, <1>6, <1>7

\* Cancelling, also by tag, disarms and wakes; OSCreateAlarm disarms and does not.
LEMMA CancelKeeps ==
  ASSUME IInv, NEW S \in SUBSET Alarm, NEW how \in {"cancelled", "withdrawn"},
         Disarm(S, how), Wake, UNCHANGED <<interval, sets, current, due, pc, life>>
  PROVE  IInv'
<1> USE DEF IInv
<1>1. /\ left' \in [Alarm -> 0..MaxDelay \cup {Off}]
      /\ verdict' \in [Alarm -> {"open", "called", "withdrawn", "cancelled"}]
      /\ OneShotOnce' /\ DueKnown'
  BY DisarmKeeps DEF TypeOK
<1>2. TypeOK'
  BY <1>1, WakeKeeps DEF TypeOK, life
<1> QED BY <1>1, <1>2, WakeKeeps

\* An alarm that is created anew is no longer armed.
LEMMA CreateKeeps ==
  ASSUME IInv, NEW c \in Caller, NEW a \in Alarm, Create(c, a)
  PROVE  IInv'
<1> USE DEF IInv, Create
<1>1. interval' \in [Alarm -> 0..MaxDelay] /\ \A b \in Alarm \ {a} : interval'[b] = interval[b]
  BY AlarmAssumption DEF TypeOK
<1>2. /\ left' \in [Alarm -> 0..MaxDelay \cup {Off}]
      /\ verdict' \in [Alarm -> {"open", "called", "withdrawn", "cancelled"}]
      /\ Armed' = Armed \ {a} /\ \A b \in Armed' : left'[b] = left[b]
      /\ OneShotOnce' /\ DueKnown'
  BY <1>1, DisarmKeeps DEF loop
<1>3. TypeOK'
  BY <1>1, <1>2 DEF TypeOK, life, loop
<1>4. Light'
  BY <1>2 DEF Light, loop
<1> QED BY <1>2, <1>3, <1>4

\* The shutdown disarms all alarms without a word to anyone.
LEMMA ClearKeeps ==
  ASSUME IInv, Clear
  PROVE  IInv'
<1> USE DEF IInv, Clear
<1>1. interval' \in [Alarm -> 0..MaxDelay] /\ \A b \in Alarm \ Alarm : interval'[b] = interval[b]
  BY AlarmAssumption DEF TypeOK
<1>2. /\ left' \in [Alarm -> 0..MaxDelay \cup {Off}]
      /\ verdict' \in [Alarm -> {"open", "called", "withdrawn", "cancelled"}]
      /\ Armed' = {} /\ OneShotOnce' /\ DueKnown'
  BY <1>1, DisarmKeeps DEF loop, Armed
<1>3. TypeOK'
  BY <1>1, <1>2 DEF TypeOK, loop
<1>4. Light'
  BY <1>2 DEF Light, loop
<1> QED BY <1>2, <1>3, <1>4

\* A one-shot alarm leaves the map as it enters the list, and a list that has it
\* is the only one.
LEMMA CollectKeeps ==
  ASSUME IInv, NEW s \in Scheduler, Collect(s)
  PROVE  IInv'
<1> DEFINE now == {a \in Armed : left[a] = 0}
<1> USE DEF IInv
<1>1. /\ \A a \in Alarm : left'[a] = IF a \notin now THEN left[a]
                                     ELSE IF interval[a] > 0 THEN interval[a] ELSE Off
      /\ due' = [due EXCEPT ![s] = {Setting(a) : a \in now}]
      /\ at[s] = "loop" /\ at' = [at EXCEPT ![s] = "callbacks"] /\ now # {}
      /\ UNCHANGED <<interval, sets, current, verdict, nap, pc, life>>
  BY DEF Collect
<1>2. \A a \in now : a \in Alarm /\ a \in Armed /\ current[a] > 0 /\ current[a] <= sets /\ Setting(a) \in SettingType
  <2>1. \A a \in now : a \in Alarm /\ a \in Armed /\ current[a] > 0 /\ current[a] \in 0..sets
    BY DEF Armed, DueKnown, TypeOK
  <2>2. \A a \in now : current[a] \in 1..MaxSets /\ current[a] <= sets
    BY <2>1, AlarmAssumption DEF TypeOK
  <2>3. \A a \in now : (interval[a] = 0) \in BOOLEAN
    OBVIOUS
  <2> QED BY <2>1, <2>2, <2>3 DEF Setting, SettingType
<1>3. TypeOK'
  <2>1. left' \in [Alarm -> 0..MaxDelay \cup {Off}]
    BY DEF TypeOK, Collect
  <2>2. {Setting(a) : a \in now} \in SUBSET SettingType
    BY <1>2
  <2>3. due' \in [Scheduler -> SUBSET SettingType]
    BY <1>1, <2>2 DEF TypeOK
  <2>4. at' \in [Scheduler -> {"none", "created", "loop", "asleep", "napping", "callbacks", "exited"}]
    BY <1>1 DEF TypeOK
  <2> QED BY <1>1, <2>1, <2>3, <2>4 DEF TypeOK, life
<1>4. /\ Armed' \subseteq Armed
      /\ \A a \in Armed' : a \in now => interval[a] > 0
      /\ \A a \in Armed' : IF a \in now THEN left'[a] = interval[a] ELSE left'[a] = left[a]
  BY <1>1 DEF Armed, Off
<1>5. \A a \in Alarm : Setting(a)' = Setting(a)
  BY <1>1 DEF Setting
<1>6. Light'
  <2> SUFFICES ASSUME NEW r \in Scheduler
               PROVE  /\ at'[r] = "asleep" => Armed' = {}
                      /\ at'[r] = "napping" => \A a \in Armed' : nap'[r] <= left'[a]
    BY DEF Light
  <2>1. at'[r] \in {"asleep", "napping"} => at[r] = at'[r]
    BY <1>1 DEF TypeOK
  <2>2. CASE at[r] = "asleep"
    BY <1>1, <2>1, <2>2 DEF Light
  <2>3. CASE at[r] = "napping"
    <3>1. nap[r] \in Nat /\ \A a \in Armed : nap[r] <= left[a] /\ a \in Alarm
      BY <2>3 DEF Light, Armed, TypeOK
    <3>2. nap[r] = 0
      <4>1. PICK b \in now : TRUE
        BY <1>1
      <4> QED BY <3>1, <4>1
    <3> QED BY <1>1, <1>4, <3>1, <3>2, <2>3 DEF TypeOK
  <2>4. CASE at[r] \notin {"asleep", "napping"}
    BY <1>1, <2>4 DEF TypeOK
  <2> QED BY <2>1, <2>2, <2>3, <2>4
<1>7. /\ due'[s] = {Setting(a) : a \in now}
      /\ \A r \in Scheduler : r # s => due'[r] = due[r]
  BY <1>1 DEF TypeOK
<1>8. \A a \in now : Setting(a).alarm = a /\ Setting(a).no = current[a] /\ (Setting(a).once <=> interval[a] = 0)
  BY DEF Setting
<1> HIDE DEF now
<1>9. \A a \in now, r \in Scheduler : \A f \in due[r] : f.alarm = a /\ f.no = current[a] => f = Setting(a)
  BY <1>2 DEF DueKnown
<1>10. OneShotOnce'
  <2>1. (\A r, q \in Scheduler : \A e \in due[r] \cap due[q] : e.once => r = q)'
    <3>1. \A a \in now, r \in Scheduler : Setting(a).once => Setting(a) \notin due[r]
      BY <1>2, <1>8 DEF OneShotOnce
    <3> QED BY <1>7, <3>1 DEF OneShotOnce
  <2>2. (\A a \in Armed : interval[a] = 0 =>
           verdict[a] = "open" /\ \A r \in Scheduler : Setting(a) \notin due[r])'
    <3> SUFFICES ASSUME NEW a \in Armed', interval[a] = 0
                 PROVE  verdict[a] = "open" /\ \A r \in Scheduler : Setting(a) \notin due'[r]
      BY <1>1, <1>5 DEF Armed
    <3>1. a \in Armed /\ a \notin now
      BY <1>4
    <3>2. \A r \in Scheduler : Setting(a) \notin due[r]
      BY <3>1 DEF OneShotOnce
    <3>3. Setting(a).alarm = a
      BY DEF Setting
    <3>4. Setting(a) \notin due'[s]
      BY <1>7, <1>8, <3>1, <3>3
    <3> QED BY <1>7, <3>1, <3>2, <3>4 DEF OneShotOnce
  <2>3. (\A r \in Scheduler : \A e \in due[r] :
           e.once /\ e.no = current[e.alarm] => verdict[e.alarm] # "called")'
    <3>1. \A a \in now : Setting(a).once => verdict[a] = "open"
      BY <1>2, <1>8 DEF OneShotOnce
    <3> QED BY <1>1, <1>7, <1>8, <3>1 DEF OneShotOnce
  <2> QED BY <2>1, <2>2, <2>3 DEF OneShotOnce
<1>11. DueKnown'
  <2>1. (\A a \in Armed : current[a] > 0)'
    BY <1>1, <1>4 DEF DueKnown
  <2>2. ASSUME NEW r \in Scheduler, NEW e \in due'[r]
        PROVE  e.no <= sets /\ (e.alarm \in Armed' /\ e.no = current[e.alarm] => e = Setting(e.alarm))
    BY <1>2, <1>4, <1>7, <1>8, <2>2 DEF DueKnown
  <2>3. ASSUME NEW r \in Scheduler, NEW q \in Scheduler, NEW e \in due'[r], NEW f \in due'[q],
               e.alarm = f.alarm, e.no = f.no
        PROVE  e = f
    BY <1>7, <1>8, <1>9, <2>3 DEF DueKnown
  <2>4. \A e : e.alarm \in Armed' => Setting(e.alarm)' = Setting(e.alarm)
    BY <1>5 DEF Armed
  <2> QED BY <1>1, <2>1, <2>2, <2>3, <2>4 DEF DueKnown
<1> QED BY <1>3, <1>6, <1>10, <1>11

\* A setting that is called leaves the only list it is in.
LEMMA CallKeeps ==
  ASSUME IInv, NEW s \in Scheduler, Call(s)
  PROVE  IInv'
<1> USE DEF IInv
<1>1. PICK e \in due[s] :
        /\ due' = [due EXCEPT ![s] = @ \ {e}]
        /\ verdict' = [verdict EXCEPT ![e.alarm] = IF e.no = current[e.alarm] /\ @ = "open" THEN "called" ELSE @]
  BY DEF Call
<1>2. UNCHANGED <<left, interval, sets, current, at, nap, pc, life>>
  BY DEF Call
<1>3. e \in SettingType /\ e.alarm \in Alarm
  BY DEF TypeOK, SettingType
<1>4. /\ \A r \in Scheduler : due'[r] \subseteq due[r]
      /\ e \notin due'[s]
      /\ \A a \in Alarm : verdict'[a] # verdict[a] =>
            a = e.alarm /\ e.no = current[a] /\ verdict[a] = "open" /\ verdict'[a] = "called"
  BY <1>1, <1>3 DEF TypeOK
<1>5. TypeOK'
  <2>1. due' \in [Scheduler -> SUBSET SettingType]
    BY <1>1 DEF TypeOK
  <2>2. verdict' \in [Alarm -> {"open", "called", "withdrawn", "cancelled"}]
    BY <1>1, <1>3 DEF TypeOK
  <2> QED BY <1>2, <2>1, <2>2 DEF TypeOK, life
<1>6. Light'
  BY <1>2 DEF Light, Armed
<1>7. Armed' = Armed /\ \A a \in Alarm : Setting(a)' = Setting(a)
  BY <1>2 DEF Armed, Setting
<1>8. OneShotOnce'
  <2>1. (\A r, q \in Scheduler : \A f \in due[r] \cap due[q] : f.once => r = q)'
    BY <1>4 DEF OneShotOnce
  <2>2. (\A a \in Armed : interval[a] = 0 =>
           verdict[a] = "open" /\ \A r \in Scheduler : Setting(a) \notin due[r])'
    <3> SUFFICES ASSUME NEW a \in Armed, interval[a] = 0
                 PROVE  verdict'[a] = "open" /\ \A r \in Scheduler : Setting(a) \notin due'[r]
      BY <1>2, <1>7 DEF Armed
    <3>1. verdict[a] = "open" /\ \A r \in Scheduler : Setting(a) \notin due[r]
      BY DEF OneShotOnce
    <3>2. ~(a = e.alarm /\ e.no = current[a])
      BY <3>1 DEF DueKnown
    <3> QED BY <1>4, <3>1, <3>2 DEF Armed
  <2>3. (\A r \in Scheduler : \A f \in due[r] :
           f.once /\ f.no = current[f.alarm] => verdict[f.alarm] # "called")'
    <3> SUFFICES ASSUME NEW r \in Scheduler, NEW f \in due'[r], f.once, f.no = current[f.alarm]
                 PROVE  verdict'[f.alarm] # "called"
      BY <1>2
    <3>1. f \in due[r] /\ f.alarm \in Alarm /\ verdict[f.alarm] # "called"
      BY <1>4 DEF OneShotOnce, TypeOK, SettingType
    <3>2. CASE f.alarm = e.alarm /\ e.no = current[f.alarm]
      <4>1. f = e
        BY <3>1, <3>2 DEF DueKnown
      <4>2. r = s
        BY <3>1, <4>1 DEF OneShotOnce
      <4> QED BY <1>4, <4>1, <4>2
    <3> QED BY <1>4, <3>1, <3>2
  <2> QED BY <2>1, <2>2, <2>3 DEF OneShotOnce
<1>9. DueKnown'
  <2>1. (\A a \in Armed : current[a] > 0)'
    BY <1>2, <1>7 DEF DueKnown
  <2>2. \A f : f.alarm \in Armed => Setting(f.alarm)' = Setting(f.alarm)
    BY <1>7 DEF Armed
  <2> QED BY <1>2, <1>4, <1>7, <2>1, <2>2 DEF DueKnown
<1> QED BY <1>5, <1>6, <1>8, <1>9

\* A scheduler that goes to sleep looks at the alarms under the lock.
LEMMA SleepKeeps ==
  ASSUME IInv, NEW s \in Scheduler, Sleep(s)
  PROVE  IInv'
<1> USE DEF IInv
<1>1. UNCHANGED <<alarms, due>>
  BY DEF Sleep
<1>2. TypeOK' /\ Light'
  <2>1. CASE Armed = {}
    <3>1. at' = [at EXCEPT ![s] = "asleep"] /\ nap' = nap /\ Armed' = {}
      BY <2>1 DEF Sleep, Armed, alarms
    <3>2. TypeOK'
      BY <3>1 DEF TypeOK, Sleep, alarms, life
    <3> QED BY <3>1, <3>2 DEF Light
  <2>2. CASE Armed # {}
    <3>1. at' = [at EXCEPT ![s] = "napping"] /\ nap' = [nap EXCEPT ![s] = Nearest] /\ Armed' = Armed /\ left' = left
      BY <2>2 DEF Sleep, Armed, alarms
    <3>2. Nearest \in 0..MaxDelay /\ \A a \in Armed : Nearest <= left[a]
      BY <2>2, NearestIs
    <3> HIDE DEF Nearest
    <3>3. TypeOK'
      BY <3>1, <3>2 DEF TypeOK, Sleep, alarms, life
    <3>4. Light'
      BY <3>1, <3>2 DEF Light, TypeOK
    <3> QED BY <3>3, <3>4
  <2> QED BY <2>1, <2>2
<1> QED BY <1>1, <1>2, LoopKeeps

\* Naps and alarms run down together.
LEMMA TickKeeps ==
  ASSUME IInv, Tick
  PROVE  IInv'
<1> USE DEF IInv
<1>1. /\ \A a \in Alarm : left[a] \in 0..MaxDelay \cup {Off} /\ left'[a] = Less(left[a])
      /\ \A s \in Scheduler : nap[s] \in 0..MaxDelay /\ nap'[s] = Less(nap[s])
      /\ UNCHANGED <<interval, sets, current, verdict, at, due, pc, life>>
  BY DEF TypeOK, Tick
<1>2. TypeOK'
  <2>1. left' \in [Alarm -> 0..MaxDelay \cup {Off}]
    BY <1>1, AlarmAssumption DEF Tick, Less, Off
  <2>2. nap' \in [Scheduler -> 0..MaxDelay]
    BY <1>1, AlarmAssumption DEF Tick, Less
  <2> QED BY <1>1, <2>1, <2>2 DEF TypeOK, life
<1>3. Armed' = Armed
  BY <1>1, AlarmAssumption DEF Armed, Less, Off
<1>4. Light'
  BY <1>1, <1>3, AlarmAssumption DEF Light, Armed, Less, Off
<1>5. \A a \in Alarm : Setting(a)' = Setting(a)
  BY <1>1 DEF Setting
<1>6. OneShotOnce'
  BY <1>1, <1>3, <1>5 DEF OneShotOnce, Armed
<1>7. DueKnown'
  <2>1. \A f : f.alarm \in Armed => Setting(f.alarm)' = Setting(f.alarm)
    BY <1>5 DEF Armed
  <2> QED BY <1>1, <1>3, <2>1 DEF DueKnown
<1> QED BY <1>2, <1>4, <1>6, <1>7

\* The other steps of the loop move its place in it.
LEMMA PlaceKeeps ==
  ASSUME IInv, NEW s \in Scheduler, Exit(s) \/ CallsDone(s) \/ NapOver(s)
  PROVE  IInv'
<1> USE DEF IInv
<1>1. UNCHANGED <<alarms, due, nap, pc, life>> /\ \E p \in {"exited", "loop"} : at' = [at EXCEPT ![s] = p]
  BY DEF Exit, CallsDone, NapOver
<1>2. TypeOK'
  BY <1>1 DEF TypeOK, alarms, life
<1>3. Light'
  BY <1>1 DEF Light, alarms, Armed, TypeOK
<1> QED BY <1>1, <1>2, <1>3, LoopKeeps

\* ensureThread creates schedulers, and starts them in their loop.
LEMMA EnsureKeeps ==
  ASSUME IInv, NEW c \in Caller, EnsureThread(c)
  PROVE  IInv'
<1> USE DEF IInv
<1>1. UNCHANGED <<alarms, due, nap>>
  BY DEF EnsureThread, TestStarted, CreateThread, StartThread, SetStarted, loop
<1>2. CASE TestStarted(c) \/ SetStarted(c)
  BY <1>1, <1>2, LoopKeeps DEF TestStarted, SetStarted, TypeOK, Light, Armed, alarms, loop, life
<1>3. CASE CreateThread(c) \/ StartThread(c)
  <2>1. at' = at \/ \E s \in Scheduler \cup {NoHandle}, p \in {"created", "loop"} : at' = [at EXCEPT ![s] = p]
    BY <1>3 DEF CreateThread, StartThread, TypeOK
  <2>2. /\ {handle', awaited'} \subseteq Scheduler \cup {NoHandle}
        /\ pc' \in [Caller -> {"run", "test", "create", "start", "flag"}]
    BY <1>3 DEF CreateThread, StartThread, TypeOK, life
  <2>3. UNCHANGED <<started, stop, closing>>
    BY <1>3 DEF CreateThread, StartThread, life
  <2>4. TypeOK'
    BY <1>1, <2>1, <2>2, <2>3 DEF TypeOK, alarms
  <2>5. Light'
    BY <1>1, <2>1 DEF Light, TypeOK, Armed, alarms
  <2> QED BY <1>1, <2>4, <2>5, LoopKeeps
<1> QED BY <1>2, <1>3 DEF EnsureThread

\* Taking settings out of a list keeps what is known of the others.
LEMMA DroppedKeeps ==
  ASSUME OneShotOnce, DueKnown, UNCHANGED alarms, \A s \in Scheduler : due'[s] \subseteq due[s]
  PROVE  OneShotOnce' /\ DueKnown'
BY DEF OneShotOnce, DueKnown, alarms, Armed, Setting

\* The shutdown wakes whoever sleeps, waits for a scheduler and closes what is in g_thread.
LEMMA StopKeeps ==
  ASSUME IInv, RequestStop \/ Join \/ Waited \/ Close
  PROVE  IInv'
<1> USE DEF IInv
<1>1. UNCHANGED alarms
  BY DEF RequestStop, Join, Waited, Close
<1>2. CASE RequestStop
  <2>1. TypeOK'
    BY <1>2, WakeKeeps DEF RequestStop, TypeOK, alarms
  <2> QED BY <1>1, <1>2, <2>1, WakeKeeps, LoopKeeps DEF RequestStop
<1>3. CASE Join \/ Waited
  <2>1. UNCHANGED <<loop, pc, started, stop, handle>>
    BY <1>3 DEF Join, Waited
  <2>2. awaited' \in Scheduler \cup {NoHandle} /\ closing' \in {"no", "join", "wait", "close", "clear"}
    BY <1>3 DEF Join, Waited, TypeOK
  <2>3. TypeOK' /\ Light'
    BY <1>1, <2>1, <2>2 DEF TypeOK, Light, Armed, alarms, loop
  <2> QED BY <1>1, <2>1, <2>3, LoopKeeps DEF loop
<1>4. CASE Close
  <2>1. /\ at' = at \/ at' = [at EXCEPT ![handle] = "none"]
        /\ due' = due \/ due' = [due EXCEPT ![handle] = {}]
        /\ pc' = pc \/ pc' = [pc EXCEPT ![handle] = "run"]
        /\ started' = FALSE /\ closing' = "clear" /\ UNCHANGED <<nap, stop, handle, awaited>>
    BY <1>4 DEF Close
  <2>2. /\ due' \in [Scheduler -> SUBSET SettingType]
        /\ \A s \in Scheduler : due'[s] \subseteq due[s]
    BY <2>1 DEF TypeOK
  <2>3. TypeOK'
    BY <1>1, <2>1, <2>2 DEF TypeOK, alarms
  <2>4. Light'
    BY <1>1, <2>1 DEF Light, TypeOK, Armed, alarms
  <2> QED BY <1>1, <2>2, <2>3, <2>4, DroppedKeeps
<1> QED BY <1>2, <1>3, <1>4
------------------------------------------------------------------------------
\* Nothing is armed, and nobody is in the loop, before the first OSSetAlarm.
LEMMA InitIInv == Init => IInv
<1> SUFFICES ASSUME Init PROVE IInv
  OBVIOUS
<1> USE AlarmAssumption DEF Init
<1>1. TypeOK
  <2>1. current \in [Alarm -> 0..sets]
    BY SMTT(30)
  <2>2. left \in [Alarm -> 0..MaxDelay \cup {Off}] /\ interval \in [Alarm -> 0..MaxDelay]
    BY SMTT(30)
  <2>3. sets \in 0..MaxSets /\ nap \in [Scheduler -> 0..MaxDelay]
    BY SMTT(30)
  <2>4. due \in [Scheduler -> SUBSET SettingType]
    OBVIOUS
  <2> QED BY <2>1, <2>2, <2>3, <2>4 DEF TypeOK
<1>2. Armed = {}
  BY DEF Armed, Off
<1>3. Light /\ OneShotOnce /\ DueKnown
  BY <1>2 DEF Light, OneShotOnce, DueKnown
<1> QED BY <1>1, <1>3 DEF IInv

\* Every action keeps the inductive invariant.
LEMMA StepIInv == IInv /\ [Next]_vars => IInv'
<1> SUFFICES ASSUME IInv, [Next]_vars PROVE IInv'
  OBVIOUS
<1>1. ASSUME NEW c \in Caller, Guest(c) PROVE IInv'
  <2>1. ASSUME NEW a \in Alarm, NEW delay \in 0..MaxDelay, NEW period \in 0..MaxDelay, Set(c, a, delay, period)
        PROVE  IInv'
    BY <2>1, SetKeeps
  <2>2. ASSUME NEW a \in Alarm, Cancel(c, a) PROVE IInv'
    BY <2>2, CancelKeeps DEF Cancel
  <2>3. ASSUME NEW a \in Alarm, Create(c, a) PROVE IInv'
    BY <2>3, CreateKeeps
  <2>4. ASSUME NEW S \in SUBSET Alarm, CancelGroup(c, S) PROVE IInv'
    BY <2>4, CancelKeeps DEF CancelGroup
  <2> QED BY <1>1, <2>1, <2>2, <2>3, <2>4 DEF Guest
<1>2. ASSUME NEW c \in Caller, EnsureThread(c) PROVE IInv'
  BY <1>2, EnsureKeeps
<1>3. ASSUME NEW s \in Scheduler, Loop(s) PROVE IInv'
  BY <1>3, CollectKeeps, CallKeeps, SleepKeeps, PlaceKeeps DEF Loop
<1>4. CASE Shutdown
  BY <1>4, StopKeeps, ClearKeeps DEF Shutdown, Finish
<1>5. CASE Tick
  BY <1>5, TickKeeps
<1>6. CASE UNCHANGED vars
  <2>1. UNCHANGED <<alarms, due>> /\ TypeOK' /\ Light'
    BY <1>6 DEF vars, alarms, loop, life, IInv, TypeOK, Light, Armed
  <2> QED BY <2>1, LoopKeeps DEF IInv
<1> QED BY <1>1, <1>2, <1>3, <1>4, <1>5, <1>6 DEF Next

\* The inductive invariant holds throughout.
LEMMA Invariance == Spec => []IInv
BY InitIInv, StepIInv, PTL DEF Spec
------------------------------------------------------------------------------
\* schedulerLoop looks for due alarms and goes to sleep in one section under g_lock,
\* and whoever changes what is armed wakes it, or only disarms: no scheduler sleeps
\* past an alarm, in whatever order alarms are set, cancelled, created and collected.
THEOREM NeverSleepsPast == Spec => []SleepsLightly
<1>1. IInv => SleepsLightly
  BY DEF IInv, Light, SleepsLightly
<1> QED BY <1>1, Invariance, PTL

\* README: "one-shot alarms fire once".  schedulerLoop disarms a one-shot alarm in
\* the section that collects it, so that one setting is in one list and called once,
\* also with the second scheduler that ensureThread can start.
THEOREM OneShotCalledOnce == Spec => []OneShotOnce
<1>1. IInv => OneShotOnce
  BY DEF IInv
<1> QED BY <1>1, Invariance, PTL
===============================================================================
