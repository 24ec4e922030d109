-------------------------- MODULE MessageQueueProofs --------------------------
(***************************************************************************)
(* Proofs about MessageQueue, for any number of threads, any messages and  *)
(* rings of any size: the indices stay in the ring, one wake-up per        *)
(* message and per slot is enough, and the ring is a bounded sequence.     *)
(***************************************************************************)
EXTENDS MessageQueue, SequenceTheorems, FiniteSetTheorems, TLAPS

\* A thread that is inside a send has a message in hand.
ParcelsInHand == \A t \in Thread : pc[t] \in {"sending", "send"} => parcel[t] \in Parcels

IInv == TypeOK /\ ParcelsInHand /\ WakeupsCover
------------------------------------------------------------------------------
\* An index that runs over the end of the ring by less than its size.
LEMMA Wrap ==
  ASSUME NEW n \in Nat \ {0}, NEW x \in 0..2 * n - 1
  PROVE  x % n = IF x < n THEN x ELSE x - n
OBVIOUS

\* The slot before the head, and the one behind it.
LEMMA HeadMoves ==
  ASSUME TypeOK, capacity > 0
  PROVE  /\ (head + 1) % capacity = IF head + 1 = capacity THEN 0 ELSE head + 1
         /\ (head + capacity - 1) % capacity = IF head = 0 THEN capacity - 1 ELSE head - 1
         /\ \A i \in 0..capacity :
              (head + i) % capacity = IF head + i < capacity THEN head + i ELSE (head + i) - capacity
<1> USE MessageQueueAssumption DEF TypeOK
<1>1. capacity \in Nat \ {0} /\ head \in 0..capacity - 1
  OBVIOUS
<1>2. ASSUME NEW i \in 0..capacity
      PROVE  (head + i) % capacity = IF head + i < capacity THEN head + i ELSE (head + i) - capacity
  <2>1. head + i \in 0..2 * capacity - 1
    BY <1>1
  <2>2. \A x \in 0..2 * capacity - 1 : x % capacity = IF x < capacity THEN x ELSE x - capacity
    BY <1>1, Wrap
  <2> QED BY ONLY <2>1, <2>2
<1>3. (head + 1) % capacity = IF head + 1 < capacity THEN head + 1 ELSE (head + 1) - capacity
  BY <1>1, <1>2
<1>4. head + (capacity - 1) = head + capacity - 1 /\ capacity - 1 \in 0..capacity
  BY <1>1
<1>5. (head + capacity - 1) % capacity
      = IF head + capacity - 1 < capacity THEN head + capacity - 1 ELSE head + capacity - 1 - capacity
  BY <1>2, <1>4
<1> QED BY <1>1, <1>2, <1>3, <1>5

\* A woken thread goes on, and the thread that wakes it goes back to the guest.
LEMMA WakeOnePlaces ==
  ASSUME TypeOK, NEW t \in Thread, NEW place \in {"sending", "receiving"}, NEW woken \in {"send", "recv"},
         pc[t] \in {"run", "send", "recv"}, WakeOne(t, place, woken)
  PROVE  /\ pc' \in [Thread -> {"run", "getting", "sending", "send", "receiving", "recv"}]
         /\ \/ At(place) = {} /\ pc' = [pc EXCEPT ![t] = "run"]
            \/ \E w \in At(place) : w # t /\ pc' = [pc EXCEPT ![t] = "run", ![w] = woken]
BY DEF TypeOK, WakeOne, At

\* An initialisation leaves an empty ring.
LEMMA ResetTyped ==
  ASSUME TypeOK, NEW n \in 1..MaxSize, Reset(n)
  PROVE  /\ capacity' \in 0..MaxSize /\ capacity' > 0 /\ count' = 0 /\ head' = 0
         /\ ring' \in [0..capacity' - 1 -> Msg \cup {NoMsg}]
         /\ disturbed' \in BOOLEAN
BY MessageQueueAssumption DEF TypeOK, Reset

\* Put stays in the ring.
LEMMA PutTyped ==
  ASSUME TypeOK, NEW p \in Parcels, Put(p), capacity > 0
  PROVE  /\ ring' \in [0..capacity - 1 -> Msg \cup {NoMsg}]
         /\ head' \in 0..capacity - 1
<1>1. capacity \in Nat \ {0} /\ head \in 0..capacity - 1 /\ count \in 0..capacity
  BY MessageQueueAssumption DEF TypeOK
<1>2. (head + count) % capacity \in 0..capacity - 1
  BY <1>1, HeadMoves
<1>3. (head + capacity - 1) % capacity \in 0..capacity - 1
  BY <1>1, HeadMoves
<1>4. p.msg \in Msg \cup {NoMsg}
  BY DEF Parcels
<1>5. ring \in [0..capacity - 1 -> Msg \cup {NoMsg}]
  BY DEF TypeOK
<1>6. ASSUME NEW i \in 0..capacity - 1
      PROVE  [ring EXCEPT ![i] = p.msg] \in [0..capacity - 1 -> Msg \cup {NoMsg}]
  BY ONLY <1>4, <1>5
<1>7. CASE p.high
  <2>1. head' = (head + capacity - 1) % capacity
        /\ ring' = [ring EXCEPT ![(head + capacity - 1) % capacity] = p.msg]
    BY ONLY <1>7, Put(p) DEF Put
  <2> QED BY ONLY <1>3, <1>6, <2>1
<1>8. CASE ~p.high
  <2>1. head' = head /\ ring' = [ring EXCEPT ![(head + count) % capacity] = p.msg]
    BY ONLY <1>8, Put(p) DEF Put
  <2> QED BY ONLY <1>1, <1>2, <1>6, <2>1
<1> QED BY ONLY <1>7, <1>8

\* The threads at a place are finitely many, before a step and after it.
LEMMA AtFinite ==
  \A place : /\ IsFiniteSet(At(place)) /\ Cardinality(At(place)) \in Nat
             /\ IsFiniteSet(At(place)') /\ Cardinality(At(place)') \in Nat
<1> SUFFICES ASSUME NEW place
             PROVE  /\ IsFiniteSet(At(place)) /\ Cardinality(At(place)) \in Nat
                    /\ IsFiniteSet(At(place)') /\ Cardinality(At(place)') \in Nat
  OBVIOUS
<1>1. At(place) \in SUBSET Thread /\ At(place)' \in SUBSET Thread
  BY DEF At
<1> QED BY <1>1, FS_Subset, FS_CardinalityType, MessageQueueAssumption

\* What a wake-up makes of the numbers of threads asleep and awake: one more is
\* awake at `woken` unless nobody slept; the thread that wakes it leaves its place.
LEMMA WakeOneCounts ==
  ASSUME TypeOK, NEW t \in Thread, NEW place \in {"sending", "receiving"}, NEW woken \in {"send", "recv"},
         pc[t] \in {"run", "send", "recv"}, WakeOne(t, place, woken)
  PROVE  /\ pc[t] # woken /\ At(place) # {} => Cardinality(At(woken)') = Cardinality(At(woken)) + 1
         /\ At(place) = {} => At(place)' = {}
         /\ \A other \in {"sending", "receiving"} : other # place => At(other)' = At(other)
         /\ \A other \in {"send", "recv"} :
              other # woken => /\ At(other)' = At(other) \ {t}
                               /\ Cardinality(At(other)') >= Cardinality(At(other)) - 1
                               /\ pc[t] # other => Cardinality(At(other)') = Cardinality(At(other))
<1>1. ASSUME pc[t] # woken, NEW w \in At(place), w # t, pc' = [pc EXCEPT ![t] = "run", ![w] = woken]
      PROVE  Cardinality(At(woken)') = Cardinality(At(woken)) + 1
  <2>1. At(woken)' = At(woken) \cup {w} /\ w \notin At(woken)
    BY <1>1 DEF TypeOK, At
  <2>2. IsFiniteSet(At(woken))
    BY AtFinite
  <2> QED BY <2>1, <2>2, FS_AddElement
<1>2. At(place) = {} => At(place)' = {}
  BY WakeOnePlaces DEF TypeOK, At
<1>3. ASSUME NEW other \in {"sending", "receiving"}, other # place
      PROVE  At(other)' = At(other)
  BY <1>3, WakeOnePlaces DEF TypeOK, At
<1>4. ASSUME NEW other \in {"send", "recv"}, other # woken
      PROVE  /\ At(other)' = At(other) \ {t}
             /\ Cardinality(At(other)') >= Cardinality(At(other)) - 1
             /\ pc[t] # other => Cardinality(At(other)') = Cardinality(At(other))
  <2>1. At(other)' = At(other) \ {t}
    BY <1>4, WakeOnePlaces DEF TypeOK, At
  <2>2. t \in At(other) <=> pc[t] = other
    BY DEF At
  <2>3. IsFiniteSet(At(other)) /\ Cardinality(At(other)) \in Nat
    BY AtFinite
  <2>4. Cardinality(At(other) \ {t}) = IF t \in At(other) THEN Cardinality(At(other)) - 1
                                        ELSE Cardinality(At(other))
    BY <2>3, FS_RemoveElement
  <2> QED BY <2>1, <2>2, <2>3, <2>4
<1> QED BY <1>1, <1>2, <1>3, <1>4, WakeOnePlaces

\* An initialisation finds nobody asleep, or says so.
LEMMA InitKeeps ==
  ASSUME IInv, NEW t \in Thread, NEW n \in 1..MaxSize, InitQueue(t, n)
  PROVE  IInv'
<1> USE DEF IInv, InitQueue
<1>1. TypeOK'
  BY ResetTyped, MessageQueueAssumption DEF TypeOK
<1>2. ParcelsInHand'
  BY DEF ParcelsInHand
<1>3. WakeupsCover'
  BY DEF WakeupsCover, Reset, At
<1> QED BY <1>1, <1>2, <1>3

\* The first callers of OSGetSystemMessageQueue are outside the queue meanwhile.
LEMMA SystemKeeps ==
  ASSUME IInv, NEW t \in Thread, GetSystemQueue(t) \/ InitSystemQueue(t)
  PROVE  IInv'
<1> USE DEF IInv
<1>1. \A u \in Thread, place \in {"sending", "send", "receiving", "recv"} : pc'[u] = place <=> pc[u] = place
  BY DEF TypeOK, GetSystemQueue, InitSystemQueue
<1>2. \A place \in {"sending", "send", "receiving", "recv"} : At(place)' = At(place)
  BY <1>1 DEF At
<1>3. CASE GetSystemQueue(t)
  BY <1>1, <1>2, <1>3 DEF GetSystemQueue, queue, TypeOK, ParcelsInHand, WakeupsCover
<1>4. CASE InitSystemQueue(t)
  <2>1. TypeOK'
    BY <1>4, ResetTyped, MessageQueueAssumption DEF InitSystemQueue, TypeOK
  <2>2. ParcelsInHand'
    BY <1>1, <1>4 DEF InitSystemQueue, ParcelsInHand
  <2>3. WakeupsCover'
    BY <1>2, <1>4 DEF InitSystemQueue, Reset, WakeupsCover
  <2> QED BY <2>1, <2>2, <2>3
<1> QED BY <1>3, <1>4

\* A send takes a slot, and the receiver it wakes covers its message.
LEMMA DepositKeeps ==
  ASSUME IInv, NEW t \in Thread, NEW p \in Parcels, pc[t] \in {"run", "send"}, Deposit(t, p)
  PROVE  IInv'
<1> USE DEF IInv
<1>1. capacity > 0 /\ count + 1 <= capacity
  BY DEF TypeOK, Deposit
<1>2. TypeOK'
  BY <1>1, WakeOnePlaces, PutTyped, MessageQueueAssumption DEF TypeOK, Deposit, NoParcel
<1>3. ParcelsInHand'
  BY WakeOnePlaces DEF TypeOK, Deposit, ParcelsInHand, At
<1>4. WakeupsCover'
  <2> SUFFICES ASSUME ~disturbed
               PROVE  /\ At("receiving")' # {} => count + 1 <= Cardinality(At("recv")')
                      /\ At("sending")' # {} => capacity - (count + 1) <= Cardinality(At("send")')
    BY DEF WakeupsCover, Deposit
  <2>1. /\ At("receiving") # {} => count <= Cardinality(At("recv"))
        /\ At("sending") # {} => capacity - count <= Cardinality(At("send"))
    BY DEF WakeupsCover
  <2>2. /\ At("receiving") # {} => Cardinality(At("recv")') = Cardinality(At("recv")) + 1
        /\ At("receiving") = {} => At("receiving")' = {}
        /\ At("sending")' = At("sending")
        /\ Cardinality(At("send")') >= Cardinality(At("send")) - 1
    BY WakeOneCounts DEF Deposit
  <2>3. /\ count \in Nat /\ capacity \in Nat
        /\ Cardinality(At("send")) \in Nat /\ Cardinality(At("recv")) \in Nat
        /\ Cardinality(At("send")') \in Nat /\ Cardinality(At("recv")') \in Nat
    BY AtFinite DEF TypeOK
  <2> QED BY <2>1, <2>2, <2>3
<1> QED BY <1>2, <1>3, <1>4

\* A receive frees a slot, and the sender it wakes covers it.
LEMMA WithdrawKeeps ==
  ASSUME IInv, NEW t \in Thread, pc[t] \in {"run", "recv"}, Withdraw(t)
  PROVE  IInv'
<1> USE DEF IInv
<1>1. capacity > 0 /\ count - 1 \in 0..capacity
  BY DEF TypeOK, Withdraw
<1>2. TypeOK'
  <2>1. (head + 1) % capacity \in 0..capacity - 1
    BY <1>1, HeadMoves DEF TypeOK
  <2> QED BY <1>1, <2>1, WakeOnePlaces, MessageQueueAssumption DEF TypeOK, Withdraw
<1>3. ParcelsInHand'
  BY WakeOnePlaces DEF TypeOK, Withdraw, ParcelsInHand, At
<1>4. WakeupsCover'
  <2> SUFFICES ASSUME ~disturbed
               PROVE  /\ At("receiving")' # {} => count - 1 <= Cardinality(At("recv")')
                      /\ At("sending")' # {} => capacity - (count - 1) <= Cardinality(At("send")')
    BY DEF WakeupsCover, Withdraw
  <2>1. /\ At("receiving") # {} => count <= Cardinality(At("recv"))
        /\ At("sending") # {} => capacity - count <= Cardinality(At("send"))
    BY DEF WakeupsCover
  <2>2. /\ At("sending") # {} => Cardinality(At("send")') = Cardinality(At("send")) + 1
        /\ At("sending") = {} => At("sending")' = {}
        /\ At("receiving")' = At("receiving")
        /\ Cardinality(At("recv")') >= Cardinality(At("recv")) - 1
    BY WakeOneCounts DEF Withdraw
  <2>3. /\ count \in Nat /\ capacity \in Nat
        /\ Cardinality(At("send")) \in Nat /\ Cardinality(At("recv")) \in Nat
        /\ Cardinality(At("send")') \in Nat /\ Cardinality(At("recv")') \in Nat
    BY AtFinite DEF TypeOK
  <2> QED BY <2>1, <2>2, <2>3
<1> QED BY <1>2, <1>3, <1>4

\* Who goes to sleep finds the queue full, or empty.
LEMMA SleepKeeps ==
  ASSUME IInv, NEW t \in Thread, NEW place \in {"sending", "receiving"}, pc[t] \in {"run", "send", "recv"},
         pc[t] = "send" => place = "sending", pc[t] = "recv" => place = "receiving",
         IF place = "sending" THEN count >= capacity ELSE count = 0,
         pc' = [pc EXCEPT ![t] = place],
         \/ UNCHANGED parcel
         \/ \E p \in Parcels : parcel' = [parcel EXCEPT ![t] = p],
         place = "sending" => parcel'[t] \in Parcels,
         UNCHANGED <<queue, ready, got, disturbed>>
  PROVE  IInv'
<1> USE DEF IInv, queue
<1>1. TypeOK'
  BY DEF TypeOK
<1>2. ParcelsInHand'
  BY DEF TypeOK, ParcelsInHand
<1>3. WakeupsCover'
  <2>1. CASE place = "sending"
    <3>1. At("receiving")' = At("receiving") /\ At("recv")' = At("recv")
      BY <2>1 DEF TypeOK, At
    <3>2. capacity - count <= 0 /\ Cardinality(At("send")') \in Nat
      BY <2>1, AtFinite DEF TypeOK
    <3> QED BY <3>1, <3>2 DEF TypeOK, WakeupsCover
  <2>2. CASE place = "receiving"
    <3>1. At("sending")' = At("sending") /\ At("send")' = At("send")
      BY <2>2 DEF TypeOK, At
    <3>2. count = 0 /\ Cardinality(At("recv")') \in Nat
      BY <2>2, AtFinite
    <3> QED BY <3>1, <3>2 DEF TypeOK, WakeupsCover
  <2> QED BY <2>1, <2>2
<1> QED BY <1>1, <1>2, <1>3

\* A peek reads a slot of the ring.
LEMMA PeekKeeps ==
  ASSUME IInv, NEW t \in Thread, Peek(t)
  PROVE  IInv'
<1> USE DEF IInv, queue, Peek
<1>1. TypeOK'
  BY DEF TypeOK
<1> QED BY <1>1 DEF ParcelsInHand, WakeupsCover, At

\* Nobody is in the queue at first.
LEMMA InitIInv == Init => IInv
<1> SUFFICES ASSUME Init PROVE IInv
  OBVIOUS
<1>1. TypeOK
  <2>1. <<>> \in [{} -> Msg \cup {NoMsg}] /\ 0..capacity - 1 = {}
    BY DEF Init
  <2>2. ring \in [0..capacity - 1 -> Msg \cup {NoMsg}]
    BY <2>1 DEF Init
  <2>3. 0 \in 0..MaxSize /\ 0 \in 0..MaxSize - 1 /\ 0 \in 0..0
    BY MessageQueueAssumption
  <2>4. pc \in [Thread -> {"run", "getting", "sending", "send", "receiving", "recv"}]
    BY DEF Init
  <2>5. parcel \in [Thread -> Parcels \cup {NoParcel}]
    BY DEF Init
  <2> QED BY <2>2, <2>3, <2>4, <2>5, Zenon DEF Init, TypeOK
<1>2. At("receiving") = {} /\ At("sending") = {}
  BY DEF Init, At
<1>3. ParcelsInHand /\ WakeupsCover
  BY <1>2 DEF Init, ParcelsInHand, WakeupsCover
<1> QED BY <1>1, <1>3 DEF IInv

\* Every action of the queue keeps the inductive invariant.
LEMMA StepIInv == IInv /\ [Next]_vars => IInv'
<1> SUFFICES ASSUME IInv, [Next]_vars PROVE IInv'
  OBVIOUS
<1>1. ASSUME NEW t \in Thread, NEW n \in 1..MaxSize, InitQueue(t, n) PROVE IInv'
  BY <1>1, InitKeeps
<1>2. ASSUME NEW t \in Thread, GetSystemQueue(t) \/ InitSystemQueue(t) PROVE IInv'
  BY <1>2, SystemKeeps
<1>3. ASSUME NEW t \in Thread, NEW p \in Parcels, Send(t, p) PROVE IInv'
  BY <1>3, DepositKeeps DEF Send
<1>4. ASSUME NEW t \in Thread, NEW p \in Parcels, SendSleep(t, p) PROVE IInv'
  <2>1. parcel'[t] \in Parcels
    BY <1>4 DEF IInv, TypeOK, SendSleep
  <2> QED BY <1>4, <2>1, SleepKeeps DEF SendSleep
<1>5. ASSUME NEW t \in Thread, SendAgain(t) PROVE IInv'
  <2>1. parcel[t] \in Parcels
    BY <1>5 DEF IInv, ParcelsInHand, SendAgain
  <2>2. CASE Deposit(t, parcel[t])
    BY <1>5, <2>1, <2>2, DepositKeeps DEF SendAgain
  <2>3. CASE ~Deposit(t, parcel[t])
    BY <1>5, <2>1, <2>3, SleepKeeps DEF SendAgain
  <2> QED BY <2>2, <2>3
<1>6. ASSUME NEW t \in Thread, Receive(t) PROVE IInv'
  BY <1>6, WithdrawKeeps DEF Receive
<1>7. ASSUME NEW t \in Thread, ReceiveSleep(t) PROVE IInv'
  BY <1>7, SleepKeeps DEF ReceiveSleep
<1>8. ASSUME NEW t \in Thread, ReceiveAgain(t) PROVE IInv'
  <2>1. CASE Withdraw(t)
    BY <1>8, <2>1, WithdrawKeeps DEF ReceiveAgain
  <2>2. CASE ~Withdraw(t)
    BY <1>8, <2>2, SleepKeeps DEF ReceiveAgain
  <2> QED BY <2>1, <2>2
<1>9. ASSUME NEW t \in Thread, Peek(t) PROVE IInv'
  BY <1>9, PeekKeeps
<1>10. CASE UNCHANGED vars
  BY <1>10 DEF vars, IInv, TypeOK, ParcelsInHand, WakeupsCover, At
<1> QED BY <1>1, <1>2, <1>3, <1>4, <1>5, <1>6, <1>7, <1>8, <1>9, <1>10 DEF Next

\* The inductive invariant holds throughout.
LEMMA Invariance == Spec => []IInv
BY InitIInv, StepIInv, PTL DEF Spec
------------------------------------------------------------------------------
\* The indices of the ring stay inside it, in rings of every size (messagequeue.cpp).
THEOREM TypeCorrect == Spec => []TypeOK
<1>1. IInv => TypeOK
  BY DEF IInv
<1> QED BY <1>1, Invariance, PTL

\* OSSendMessage and OSReceiveMessage wake one waiter each, and that covers every
\* message and every free slot, unless OSInitMessageQueue ran under sleeping threads.
THEOREM WakeupsEnough == Spec => []WakeupsCover
<1>1. IInv => WakeupsCover
  BY DEF IInv
<1> QED BY <1>1, Invariance, PTL
------------------------------------------------------------------------------
\* What a guest reads off a ring r of c slots with n messages from slot h on.
Read(r, h, n, c) == [i \in 1..n |-> r[(h + i - 1) % c]]

\* The slot of the i-th of them, without the remainder.
Slot(h, i, c) == IF h + i <= c THEN h + i - 1 ELSE (h + i) - (c + 1)

\* The ring r2 is r with message m behind the last.
Appended(r, h, n, c, m, r2) == r2 = [r EXCEPT ![(h + n) % c] = m]

\* A ring that an OSMessageQueue can be in.
IsRing(r, h, n, c) ==
  /\ c \in Nat \ {0} /\ h \in 0..c - 1 /\ n \in 0..c
  /\ r \in [0..c - 1 -> Msg \cup {NoMsg}]

\* The slot of the i-th message, without the remainder.
LEMMA SlotOf ==
  ASSUME NEW c \in Nat \ {0}, NEW h \in 0..c - 1, NEW i \in 1..c
  PROVE  (h + i - 1) % c = Slot(h, i, c)
<1>1. h + i - 1 \in 0..2 * c - 1
  OBVIOUS
<1>2. \A x \in 0..2 * c - 1 : x % c = IF x < c THEN x ELSE x - c
  BY Wrap
<1>3. (h + i - 1) % c = IF h + i - 1 < c THEN h + i - 1 ELSE (h + i - 1) - c
  BY ONLY <1>1, <1>2
<1> QED BY <1>3 DEF Slot

\* The messages in a ring are a sequence, as long as the count says.
LEMMA ReadIsSequence ==
  ASSUME NEW r, NEW h, NEW n, NEW c, IsRing(r, h, n, c)
  PROVE  /\ Read(r, h, n, c) \in Seq(Msg \cup {NoMsg}) /\ Len(Read(r, h, n, c)) = n
         /\ \A i \in 1..n : Read(r, h, n, c)[i] = r[Slot(h, i, c)]
<1> USE DEF IsRing
<1>1. ASSUME NEW i \in 1..n
      PROVE  /\ r[(h + i - 1) % c] = r[Slot(h, i, c)]
             /\ r[(h + i - 1) % c] \in Msg \cup {NoMsg}
  <2>1. i \in 1..c
    OBVIOUS
  <2>2. (h + i - 1) % c = Slot(h, i, c)
    BY <2>1, SlotOf
  <2> QED BY <2>1, <2>2 DEF Slot
<1>2. \A i \in 1..n : Read(r, h, n, c)[i] = r[(h + i - 1) % c]
  BY DEF Read
<1>3. Read(r, h, n, c) \in [1..n -> Msg \cup {NoMsg}] /\ n \in Nat
  BY <1>1 DEF Read
<1>4. Read(r, h, n, c) \in Seq(Msg \cup {NoMsg}) /\ Len(Read(r, h, n, c)) = n
  BY ONLY <1>3
<1> QED BY ONLY <1>1, <1>2, <1>4

\* Behind the last message there is room for one more.
LEMMA ReadAppend ==
  ASSUME NEW r, NEW h, NEW n, NEW c, IsRing(r, h, n, c), n < c, NEW m \in Msg,
         NEW r2, Appended(r, h, n, c, m, r2)
  PROVE  Read(r2, h, n + 1, c) = Append(Read(r, h, n, c), m)
<1> DEFINE new == Read(r2, h, n + 1, c)
           old == Read(r, h, n, c)
<1>1. (h + n) % c = Slot(h, n + 1, c)
  <2>1. n + 1 \in 1..c /\ h + n = h + (n + 1) - 1
    BY DEF IsRing
  <2> QED BY <2>1, SlotOf DEF IsRing
<1>2. IsRing(r2, h, n + 1, c)
  BY <1>1 DEF IsRing, Slot, Appended
<1>3. /\ old \in Seq(Msg \cup {NoMsg}) /\ Len(old) = n
      /\ \A i \in 1..n : old[i] = r[Slot(h, i, c)]
  BY ReadIsSequence
<1>4. /\ new \in Seq(Msg \cup {NoMsg}) /\ Len(new) = n + 1
      /\ \A i \in 1..n + 1 : new[i] = r2[Slot(h, i, c)]
  BY <1>2, ReadIsSequence
<1>5. ASSUME NEW i \in 1..n PROVE new[i] = old[i]
  <2>1. Slot(h, i, c) # Slot(h, n + 1, c) /\ Slot(h, i, c) \in 0..c - 1
    BY DEF IsRing, Slot
  <2>2. r2[Slot(h, i, c)] = r[Slot(h, i, c)]
    BY <1>1, <2>1 DEF IsRing, Appended
  <2> QED BY <1>3, <1>4, <2>2 DEF IsRing
<1>6. new[n + 1] = m
  <2>1. Slot(h, n + 1, c) \in 0..c - 1
    BY DEF IsRing, Slot
  <2>2. r2[Slot(h, n + 1, c)] = m
    BY <1>1, <2>1 DEF IsRing, Appended
  <2>3. n + 1 \in 1..n + 1
    BY DEF IsRing
  <2> QED BY <1>4, <2>2, <2>3
<1> HIDE DEF new, old
<1>7. /\ Append(old, m) \in Seq(Msg \cup {NoMsg}) /\ Len(Append(old, m)) = n + 1
      /\ \A i \in 1..n : Append(old, m)[i] = old[i]
      /\ Append(old, m)[n + 1] = m
  BY <1>3, AppendProperties
<1>8. n \in Nat
  BY DEF IsRing
<1>9. \A i \in 1..n + 1 : new[i] = Append(old, m)[i]
  BY <1>5, <1>6, <1>7, <1>8
<1>10. new = Append(old, m)
  BY <1>4, <1>7, <1>9, SeqEqual
<1> QED BY <1>10 DEF new, old

\* The slot in front of the head is free as well.
LEMMA ReadPrepend ==
  ASSUME NEW r, NEW h, NEW n, NEW c, IsRing(r, h, n, c), n < c, NEW m \in Msg
  PROVE  LET first == (h + c - 1) % c IN
         Read([r EXCEPT ![first] = m], first, n + 1, c) = <<m>> \o Read(r, h, n, c)
<1> DEFINE first == (h + c - 1) % c
           r2 == [r EXCEPT ![first] = m]
           new == Read(r2, first, n + 1, c)
           old == Read(r, h, n, c)
<1>1. first = IF h = 0 THEN c - 1 ELSE h - 1
  <2>1. c \in 1..c
    BY DEF IsRing
  <2> QED BY <2>1, SlotOf DEF IsRing, Slot
<1> HIDE DEF first
<1>2. IsRing(r2, first, n + 1, c)
  BY <1>1 DEF IsRing, Slot
<1> HIDE DEF r2
<1>3. /\ old \in Seq(Msg \cup {NoMsg}) /\ Len(old) = n
      /\ \A i \in 1..n : old[i] = r[Slot(h, i, c)]
  BY ReadIsSequence
<1>4. /\ new \in Seq(Msg \cup {NoMsg}) /\ Len(new) = n + 1
      /\ \A i \in 1..n + 1 : new[i] = r2[Slot(first, i, c)]
  BY <1>2, ReadIsSequence
<1>5. ASSUME NEW i \in 1..n PROVE new[i + 1] = old[i]
  <2>1. Slot(first, i + 1, c) = Slot(h, i, c) /\ Slot(h, i, c) # first /\ Slot(h, i, c) \in 0..c - 1
    BY <1>1 DEF IsRing, Slot
  <2>2. r2[Slot(first, i + 1, c)] = r[Slot(h, i, c)]
    BY <2>1 DEF IsRing, r2
  <2>3. i + 1 \in 1..n + 1
    BY DEF IsRing
  <2> QED BY <1>3, <1>4, <2>2, <2>3
<1>6. new[1] = m
  <2>1. Slot(first, 1, c) = first /\ first \in 0..c - 1
    BY <1>1 DEF IsRing, Slot
  <2>2. r2[Slot(first, 1, c)] = m /\ 1 \in 1..n + 1
    BY <2>1 DEF IsRing, r2
  <2> QED BY <1>4, <2>2
<1> HIDE DEF new, old
<1>7. /\ <<m>> \o old \in Seq(Msg \cup {NoMsg}) /\ Len(<<m>> \o old) = n + 1
      /\ \A i \in 1..n + 1 : (<<m>> \o old)[i] = IF i <= 1 THEN m ELSE old[i - 1]
  <2>1. <<m>> \in Seq(Msg \cup {NoMsg}) /\ Len(<<m>>) = 1 /\ <<m>>[1] = m /\ n \in Nat
    BY DEF IsRing
  <2> QED BY <1>3, <2>1, ConcatProperties
<1>8. \A i \in 1..n + 1 : new[i] = (<<m>> \o old)[i]
  <2> SUFFICES ASSUME NEW i \in 1..n + 1 PROVE new[i] = (<<m>> \o old)[i]
    OBVIOUS
  <2>1. CASE i = 1
    BY <1>6, <1>7, <2>1
  <2>2. CASE i # 1
    <3>1. i - 1 \in 1..n /\ (i - 1) + 1 = i
      BY <2>2 DEF IsRing
    <3>2. new[i] = old[i - 1]
      BY <1>5, <3>1
    <3> QED BY <1>7, <2>2, <3>2
  <2> QED BY <2>1, <2>2
<1>9. new = <<m>> \o old
  BY <1>4, <1>7, <1>8, SeqEqual
<1> QED BY <1>9 DEF new, old, r2, first

\* Moving the head leaves the rest of the messages.
LEMMA ReadTail ==
  ASSUME NEW r, NEW h, NEW n, NEW c, IsRing(r, h, n, c), n > 0
  PROVE  /\ Read(r, h, n, c) # <<>> /\ Head(Read(r, h, n, c)) = r[h]
         /\ Read(r, (h + 1) % c, n - 1, c) = Tail(Read(r, h, n, c))
<1> DEFINE next == (h + 1) % c
           new == Read(r, next, n - 1, c)
           old == Read(r, h, n, c)
<1>1. next = IF h + 1 = c THEN 0 ELSE h + 1
  <2>1. h + 1 \in 0..2 * c - 1 /\ c \in Nat \ {0}
    BY DEF IsRing
  <2>2. (h + 1) % c = IF h + 1 < c THEN h + 1 ELSE (h + 1) - c
    BY <2>1, Wrap
  <2> QED BY <2>2 DEF IsRing
<1> HIDE DEF next
<1>2. IsRing(r, next, n - 1, c)
  BY <1>1 DEF IsRing
<1>3. /\ old \in Seq(Msg \cup {NoMsg}) /\ Len(old) = n
      /\ \A i \in 1..n : old[i] = r[Slot(h, i, c)]
  BY ReadIsSequence
<1>4. /\ new \in Seq(Msg \cup {NoMsg}) /\ Len(new) = n - 1
      /\ \A i \in 1..n - 1 : new[i] = r[Slot(next, i, c)]
  BY <1>2, ReadIsSequence
<1>5. ASSUME NEW i \in 1..n - 1 PROVE new[i] = old[i + 1]
  <2>1. Slot(next, i, c) = Slot(h, i + 1, c) /\ i + 1 \in 1..n
    BY <1>1 DEF IsRing, Slot
  <2> QED BY <1>3, <1>4, <2>1
<1>6. old[1] = r[h]
  <2>1. Slot(h, 1, c) = h /\ 1 \in 1..n
    BY DEF IsRing, Slot
  <2> QED BY <1>3, <2>1
<1> HIDE DEF new, old
<1>7. n \in Nat /\ old # <<>>
  BY <1>3 DEF IsRing
<1>8. /\ Head(old) = old[1] /\ Tail(old) \in Seq(Msg \cup {NoMsg}) /\ Len(Tail(old)) = n - 1
      /\ \A i \in 1..n - 1 : Tail(old)[i] = old[i + 1]
  BY <1>3, <1>7, HeadTailProperties
<1>9. new = Tail(old)
  BY <1>4, <1>5, <1>8, SeqEqual
<1> QED BY <1>6, <1>7, <1>8, <1>9 DEF new, old, next

\* Deposit is the queue's PushBack or PushFront.
LEMMA DepositMaps ==
  ASSUME IInv, NEW t \in Thread, NEW p \in Parcels, Deposit(t, p)
  PROVE  Abstract!PushBack(p.msg) \/ Abstract!PushFront(p.msg)
<1>1. IsRing(ring, head, count, capacity) /\ count < capacity /\ p.msg \in Msg
  BY DEF IInv, TypeOK, Deposit, IsRing, Parcels
<1>2. Len(Contents) < capacity
  <2>1. Len(Read(ring, head, count, capacity)) = count
    BY <1>1, ReadIsSequence
  <2> QED BY <1>1, <2>1 DEF Contents, Read
<1>3. CASE p.high
  <2>1. Read(ring', head', count + 1, capacity) = <<p.msg>> \o Read(ring, head, count, capacity)
    BY <1>1, <1>3, ReadPrepend, SMTT(60) DEF Deposit, Put
  <2>2. Contents' = <<p.msg>> \o Contents
    BY <2>1 DEF Contents, Read, Deposit
  <2> QED BY <1>2, <2>2 DEF Abstract!PushFront, Deposit
<1>4. CASE ~p.high
  <2>1. Read(ring', head', count + 1, capacity) = Append(Read(ring, head, count, capacity), p.msg)
    <3>1. Appended(ring, head, count, capacity, p.msg, ring') /\ head' = head
      BY <1>4 DEF Deposit, Put, Appended
    <3> QED BY <1>1, <3>1, ReadAppend
  <2>2. Contents' = Append(Contents, p.msg)
    BY <2>1 DEF Contents, Read, Deposit
  <2> QED BY <1>2, <2>2 DEF Abstract!PushBack, Deposit
<1> QED BY <1>3, <1>4

\* Withdraw is the queue's Take.
LEMMA WithdrawMaps ==
  ASSUME IInv, NEW t \in Thread, Withdraw(t)
  PROVE  Abstract!Take
<1>1. IsRing(ring, head, count, capacity) /\ count > 0
  BY DEF IInv, TypeOK, Withdraw, IsRing
<1>2. /\ Read(ring, head, count, capacity) # <<>>
      /\ Head(Read(ring, head, count, capacity)) = ring[head]
      /\ Read(ring, (head + 1) % capacity, count - 1, capacity) = Tail(Read(ring, head, count, capacity))
  BY <1>1, ReadTail
<1>3. Contents # <<>> /\ Head(Contents) = ring[head] /\ Contents' = Tail(Contents)
  BY <1>2 DEF Contents, Read, Withdraw
<1> QED BY <1>3 DEF Abstract!Take, Withdraw

\* Peek is the queue's Look.
LEMMA PeekMaps ==
  ASSUME IInv, NEW t \in Thread, Peek(t)
  PROVE  Abstract!Look
<1>1. IsRing(ring, head, count, capacity) /\ count > 0
  BY DEF IInv, TypeOK, Peek, IsRing
<1>2. /\ Read(ring, head, count, capacity) # <<>>
      /\ Head(Read(ring, head, count, capacity)) = ring[head]
  BY <1>1, ReadTail
<1>3. Contents # <<>> /\ Head(Contents) = ring[head] /\ Contents' = Contents
  BY <1>2 DEF Contents, Read, Peek, queue
<1> QED BY <1>3 DEF Abstract!Look, Peek, queue

\* An initialisation empties the queue.
LEMMA ResetMaps ==
  ASSUME NEW n \in 1..MaxSize, Reset(n), UNCHANGED got
  PROVE  Abstract!Reset(n)
BY DEF Reset, Contents, Abstract!Reset

\* What leaves the ring alone leaves the queue alone.
LEMMA QuietMaps ==
  ASSUME UNCHANGED <<queue, got>>
  PROVE  UNCHANGED Abstract!vars
BY DEF queue, Contents, Abstract!vars

\* Every step of the ring is a step of the bounded queue, or leaves it alone.
LEMMA StepMaps == IInv /\ [Next]_vars => [Abstract!Next]_Abstract!vars
<1> DEFINE Goal == Abstract!Next \/ UNCHANGED Abstract!vars
<1> SUFFICES ASSUME IInv, [Next]_vars PROVE Goal
  OBVIOUS
<1> HIDE DEF Goal
<1>a. ASSUME UNCHANGED <<queue, got>> PROVE Goal
  BY <1>a, QuietMaps DEF Goal
<1>b. ASSUME NEW n \in 1..MaxSize, Reset(n), UNCHANGED got PROVE Goal
  BY <1>b, ResetMaps DEF Goal, Abstract!Next
<1>c. ASSUME NEW t \in Thread, NEW p \in Parcels, Deposit(t, p) PROVE Goal
  <2>1. p.msg \in Msg
    BY DEF Parcels
  <2> QED BY <1>c, <2>1, DepositMaps DEF Goal, Abstract!Next
<1>d. ASSUME NEW t \in Thread, Withdraw(t) PROVE Goal
  BY <1>d, WithdrawMaps DEF Goal, Abstract!Next
<1>1. ASSUME NEW t \in Thread, NEW n \in 1..MaxSize, InitQueue(t, n) PROVE Goal
  BY <1>1, <1>b DEF InitQueue
<1>2. ASSUME NEW t \in Thread, GetSystemQueue(t) PROVE Goal
  BY <1>2, <1>a DEF GetSystemQueue
<1>3. ASSUME NEW t \in Thread, InitSystemQueue(t) PROVE Goal
  BY <1>3, <1>b, MessageQueueAssumption DEF InitSystemQueue
<1>4. ASSUME NEW t \in Thread, NEW p \in Parcels, Send(t, p) \/ SendSleep(t, p) PROVE Goal
  BY <1>4, <1>a, <1>c DEF Send, SendSleep
<1>5. ASSUME NEW t \in Thread, SendAgain(t) PROVE Goal
  <2>1. parcel[t] \in Parcels
    BY <1>5 DEF IInv, ParcelsInHand, SendAgain
  <2> QED BY <1>5, <1>a, <1>c, <2>1 DEF SendAgain
<1>6. ASSUME NEW t \in Thread, Receive(t) \/ ReceiveSleep(t) \/ ReceiveAgain(t) PROVE Goal
  BY <1>6, <1>a, <1>d DEF Receive, ReceiveSleep, ReceiveAgain
<1>7. ASSUME NEW t \in Thread, Peek(t) PROVE Goal
  BY <1>7, PeekMaps DEF Goal, Abstract!Next
<1>8. CASE UNCHANGED vars
  BY <1>8, <1>a DEF vars, queue
<1> QED BY <1>1, <1>2, <1>3, <1>4, <1>5, <1>6, <1>7, <1>8 DEF Next

\* Before the first OSInitMessageQueue the queue is empty.
LEMMA InitMaps == Init => Abstract!Init
BY DEF Init, Contents, Abstract!Init

\* Whatever the order of senders, receivers and initialisers, the ring under its
\* lock is a bounded first-in first-out queue with a priority door at the front:
\* OSSendMessage, OSReceiveMessage and OSPeekMessage.
THEOREM RingIsQueue == Spec => ImplementsQueue
BY InitMaps, StepMaps, Invariance, PTL DEF Spec, ImplementsQueue, Abstract!Spec
===============================================================================
