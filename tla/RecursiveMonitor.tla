--------------------------- MODULE RecursiveMonitor ---------------------------
(***************************************************************************)
(* What OSMutex and OSCondition promise a guest: a recursive mutex is held *)
(* by one thread at a depth; waiting on a condition puts the whole depth   *)
(* aside and gives the mutex up in one step; a signal releases every       *)
(* thread parked at that moment, and each of them comes back holding the   *)
(* mutex at the depth it had.                                              *)
(***************************************************************************)
EXTENDS Naturals

CONSTANTS Thread, Mutex, Cond, NoThread, NoMutex, NoCond

VARIABLES holder,    \* holder[m]: the thread that holds m, or NoThread
          level,     \* level[m]: its recursion depth, 0 when m is free
          parkedOn,  \* parkedOn[t]: the mutex a waiting thread gave up
          parkedAt,  \* parkedAt[t]: the condition it waits for, until signalled
          kept       \* kept[t]: the depth put aside

vars == <<holder, level, parkedOn, parkedAt, kept>>

Init ==
  /\ holder = [m \in Mutex |-> NoThread]
  /\ level = [m \in Mutex |-> 0]
  /\ parkedOn = [t \in Thread |-> NoMutex]
  /\ parkedAt = [t \in Thread |-> NoCond]
  /\ kept = [t \in Thread |-> 0]

Acquire(t, m) ==
  /\ parkedOn[t] = NoMutex
  /\ holder[m] \in {NoThread, t}
  /\ holder' = [holder EXCEPT ![m] = t]
  /\ level' = [level EXCEPT ![m] = @ + 1]
  /\ UNCHANGED <<parkedOn, parkedAt, kept>>

Release(t, m) ==
  /\ parkedOn[t] = NoMutex
  /\ holder[m] = t
  /\ holder' = [holder EXCEPT ![m] = IF level[m] = 1 THEN NoThread ELSE t]
  /\ level' = [level EXCEPT ![m] = @ - 1]
  /\ UNCHANGED <<parkedOn, parkedAt, kept>>

Park(t, m, c) ==
  /\ parkedOn[t] = NoMutex
  /\ holder[m] = t
  /\ holder' = [holder EXCEPT ![m] = NoThread]
  /\ level' = [level EXCEPT ![m] = 0]
  /\ parkedOn' = [parkedOn EXCEPT ![t] = m]
  /\ parkedAt' = [parkedAt EXCEPT ![t] = c]
  /\ kept' = [kept EXCEPT ![t] = level[m]]

Signal(c) ==
  /\ parkedAt' = [t \in Thread |-> IF parkedAt[t] = c THEN NoCond ELSE parkedAt[t]]
  /\ UNCHANGED <<holder, level, parkedOn, kept>>

Resume(t, m) ==
  /\ parkedOn[t] = m /\ parkedAt[t] = NoCond
  /\ holder[m] = NoThread
  /\ holder' = [holder EXCEPT ![m] = t]
  /\ level' = [level EXCEPT ![m] = kept[t]]
  /\ parkedOn' = [parkedOn EXCEPT ![t] = NoMutex]
  /\ kept' = [kept EXCEPT ![t] = 0]
  /\ UNCHANGED parkedAt

Next == \/ \E t \in Thread, m \in Mutex :
             Acquire(t, m) \/ Release(t, m) \/ Resume(t, m) \/ \E c \in Cond : Park(t, m, c)
        \/ \E c \in Cond : Signal(c)

Spec == Init /\ [][Next]_vars
==============================================================================
