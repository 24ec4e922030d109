----------------------------- MODULE MessageQueue -----------------------------
(***************************************************************************)
(* OSMessageQueue (source/messagequeue.cpp): a ring of messages with one   *)
(* lock and two condition variables, each woken one waiter at a time.      *)
(*                                                                         *)
(* Every access to a HostQueue is inside its lock, so the code between     *)
(* taking the lock (or coming back from condvarWait) and releasing it (or  *)
(* sleeping in condvarWait) is one step.  What is left is the order of     *)
(* these sections and of the wake-ups: a woken thread gets the lock like   *)
(* any other, and may find the slot or the message it was woken for taken. *)
(*                                                                         *)
(* Non-blocking calls that return 0 change nothing and are no steps.       *)
(***************************************************************************)
EXTENDS Naturals, FiniteSets

CONSTANTS Thread, Msg, NoMsg,
          MaxSize   \* bound on the size a guest asks for

ASSUME MessageQueueAssumption ==
  /\ IsFiniteSet(Thread) /\ NoMsg \notin Msg
  /\ MaxSize \in Nat \ {0}

VARIABLES ring, head, count, capacity,   \* the HostQueue
          ready,      \* g_systemQueueReady, when this is the system queue
          pc,         \* where each thread is
          parcel,     \* the message and priority of the send a thread is in
          got,        \* the message that the latest receive or peek answered
          disturbed   \* has an initialisation run with a thread asleep?

vars == <<ring, head, count, capacity, ready, pc, parcel, got, disturbed>>

queue == <<ring, head, count, capacity>>

NoParcel == [msg |-> NoMsg, high |-> FALSE]

Init ==
  /\ ring = <<>> /\ head = 0 /\ count = 0 /\ capacity = 0
  /\ ready = FALSE
  /\ pc = [t \in Thread |-> "run"]
  /\ parcel = [t \in Thread |-> NoParcel]
  /\ got = NoMsg
  /\ disturbed = FALSE

At(place) == {t \in Thread : pc[t] = place}

\* Mutation of WakeOne: the wake-up is forgotten.
WakeNobody(t, place, woken) == pc' = [pc EXCEPT ![t] = "run"]

\* condvarWakeOne on the threads at `place`, with t back in the guest: any one
\* of them goes on, if there is one.
WakeOne(t, place, woken) ==
  IF At(place) = {} THEN pc' = [pc EXCEPT ![t] = "run"]
  ELSE \E w \in At(place) : pc' = [pc EXCEPT ![t] = "run", ![w] = woken]

\* OSInitMessageQueue: a new ring; nobody is woken.
Reset(n) ==
  /\ capacity' = n /\ ring' = [i \in 0..n - 1 |-> NoMsg]
  /\ head' = 0 /\ count' = 0
  /\ disturbed' = (disturbed \/ At("sending") \cup At("receiving") # {})

InitQueue(t, n) ==
  /\ pc[t] = "run"
  /\ Reset(n)
  /\ UNCHANGED <<ready, pc, parcel, got>>

\* OSGetSystemMessageQueue reads the flag and initialises the queue without a
\* lock: two first callers both initialise it.
GetSystemQueue(t) ==
  /\ pc[t] = "run" /\ ~ready
  /\ pc' = [pc EXCEPT ![t] = "getting"]
  /\ UNCHANGED <<queue, ready, parcel, got, disturbed>>

InitSystemQueue(t) ==
  /\ pc[t] = "getting"
  /\ Reset(MaxSize)
  /\ ready' = TRUE
  /\ pc' = [pc EXCEPT ![t] = "run"]
  /\ UNCHANGED <<parcel, got>>

\* Mutation of Put: a high-priority message goes one slot too far.
PutTooFar(p) ==
  IF p.high
  THEN LET first == (head + capacity - 1) % capacity IN
       head' = first /\ ring' = [ring EXCEPT ![(first + capacity - 1) % capacity] = p.msg]
  ELSE ring' = [ring EXCEPT ![(head + count) % capacity] = p.msg] /\ UNCHANGED head

\* A message goes into the ring: in front of the head, or behind the last.
Put(p) ==
  IF p.high
  THEN LET first == (head + capacity - 1) % capacity IN
       head' = first /\ ring' = [ring EXCEPT ![first] = p.msg]
  ELSE ring' = [ring EXCEPT ![(head + count) % capacity] = p.msg] /\ UNCHANGED head

\* The end of OSSendMessage, from the test that found room.
Deposit(t, p) ==
  /\ count < capacity
  /\ Put(p)
  /\ count' = count + 1
  /\ parcel' = [parcel EXCEPT ![t] = NoParcel]
  /\ WakeOne(t, "receiving", "recv")
  /\ UNCHANGED <<capacity, ready, got, disturbed>>

Send(t, p) == pc[t] = "run" /\ Deposit(t, p)

SendSleep(t, p) ==
  /\ pc[t] = "run" /\ count >= capacity
  /\ pc' = [pc EXCEPT ![t] = "sending"]
  /\ parcel' = [parcel EXCEPT ![t] = p]
  /\ UNCHANGED <<queue, ready, got, disturbed>>

\* condvarWait(&notFull) returned and the loop tests the queue again.
SendAgain(t) ==
  /\ pc[t] = "send"
  /\ \/ Deposit(t, parcel[t])
     \/ /\ count >= capacity
        /\ pc' = [pc EXCEPT ![t] = "sending"]
        /\ UNCHANGED <<queue, ready, parcel, got, disturbed>>

\* The end of OSReceiveMessage, from the test that found a message.
Withdraw(t) ==
  /\ count > 0
  /\ got' = ring[head]
  /\ head' = (head + 1) % capacity
  /\ count' = count - 1
  /\ WakeOne(t, "sending", "send")
  /\ UNCHANGED <<ring, capacity, ready, parcel, disturbed>>

Receive(t) == pc[t] = "run" /\ Withdraw(t)

ReceiveSleep(t) ==
  /\ pc[t] = "run" /\ count = 0
  /\ pc' = [pc EXCEPT ![t] = "receiving"]
  /\ UNCHANGED <<queue, ready, parcel, got, disturbed>>

\* Mutation of ReceiveAgain: an `if` where the code has a `while`.
ReceiveUntested(t) ==
  /\ pc[t] = "recv"
  /\ got' = ring[head]
  /\ head' = (head + 1) % capacity
  /\ count' = count - 1
  /\ WakeOne(t, "sending", "send")
  /\ UNCHANGED <<ring, capacity, ready, parcel, disturbed>>

\* condvarWait(&notEmpty) returned and the loop tests the queue again.
ReceiveAgain(t) ==
  /\ pc[t] = "recv"
  /\ \/ Withdraw(t)
     \/ /\ count = 0
        /\ pc' = [pc EXCEPT ![t] = "receiving"]
        /\ UNCHANGED <<queue, ready, parcel, got, disturbed>>

Peek(t) ==
  /\ pc[t] = "run" /\ count > 0
  /\ got' = ring[head]
  /\ UNCHANGED <<queue, ready, pc, parcel, disturbed>>

Parcels == [msg : Msg, high : BOOLEAN]

Next == \E t \in Thread :
  \/ \E n \in 1..MaxSize : InitQueue(t, n)
  \/ GetSystemQueue(t) \/ InitSystemQueue(t)
  \/ \E p \in Parcels : Send(t, p) \/ SendSleep(t, p)
  \/ SendAgain(t)
  \/ Receive(t) \/ ReceiveSleep(t) \/ ReceiveAgain(t) \/ Peek(t)

\* A thread that condvarWait has woken is scheduled: it gets the lock, which
\* nobody keeps, and goes round its loop.
Fairness == \A t \in Thread : WF_vars(SendAgain(t)) /\ WF_vars(ReceiveAgain(t))

Spec == Init /\ [][Next]_vars /\ Fairness
------------------------------------------------------------------------------
TypeOK ==
  /\ capacity \in 0..MaxSize
  /\ ring \in [0..capacity - 1 -> Msg \cup {NoMsg}]
  /\ head \in 0..MaxSize - 1
  /\ capacity > 0 => head < capacity
  /\ count \in 0..capacity
  /\ ready \in BOOLEAN /\ disturbed \in BOOLEAN
  /\ pc \in [Thread -> {"run", "getting", "sending", "send", "receiving", "recv"}]
  /\ parcel \in [Thread -> Parcels \cup {NoParcel}]
  /\ got \in Msg \cup {NoMsg}

\* One wake-up per message and per slot is enough, also when others take what
\* a woken thread was woken for: as long as a receiver sleeps, every message in
\* the ring has a receiver awake to take it, and likewise senders and free
\* slots.  Only an initialisation under sleeping threads breaks it.
WakeupsCover ==
  ~disturbed =>
    /\ At("receiving") # {} => count <= Cardinality(At("recv"))
    /\ At("sending") # {} => capacity - count <= Cardinality(At("send"))

\* The ring is the bounded sequence a guest expects.
Contents == [i \in 1..count |-> ring[(head + i - 1) % capacity]]

Abstract == INSTANCE BoundedQueue WITH items <- Contents, size <- capacity

ImplementsQueue == Abstract!Spec

\* No receiver sleeps on while messages stay in the queue, and no sender while
\* there is room.
NobodySleepsOn ==
  /\ At("receiving") # {} /\ count > 0 ~> At("receiving") = {} \/ count = 0 \/ disturbed
  /\ At("sending") # {} /\ count < capacity
       ~> At("sending") = {} \/ count = capacity \/ disturbed
==============================================================================
