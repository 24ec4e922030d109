----------------------------- MODULE ServicesProofs -----------------------------
(***************************************************************************)
(* Proofs about Services, part by part, for any number of threads, and for *)
(* tables, pools, files and budgets of any size.  Each part has inductive  *)
(* invariants of its own, which the steps of the others leave alone.  The  *)
(* calendar is proved for every day and for clocks of any rate.            *)
(***************************************************************************)
EXTENDS Services, FiniteSetTheorems, SequenceTheorems, WellFoundedInduction,
        NaturalsInduction, TLAPS

\* A nonempty set of natural numbers has a least one, which is what Min answers.
LEMMA MinIs ==
  ASSUME NEW X \in SUBSET Nat, X # {}
  PROVE  F!Min(X) \in X /\ \A k \in X : F!Min(X) <= k
<1> DEFINE Below == {p \in Nat \X Nat : p[1] < p[2]}
<1>1. OpToRel(<, Nat) = Below
  BY DEF OpToRel
<1>2. IsWellFoundedOn(Below, Nat)
  BY NatLessThanWellFounded, <1>1
<1>3. \E n \in X : \A k \in X : <<k, n>> \notin Below
  BY <1>2, WFMin
<1>4. \A k, n \in Nat : <<k, n>> \in Below <=> k < n
  OBVIOUS
<1> HIDE DEF Below
<1>5. PICK n \in X : \A k \in X : <<k, n>> \notin Below
  BY <1>3
<1>6. \A k \in X : k \in Nat /\ n \in Nat /\ ~(k < n)
  BY <1>4, <1>5
<1>7. \E x \in X : \A k \in X : x <= k
  BY <1>6
<1> QED BY <1>7 DEF F!Min
------------------------------------------------------------------------------
\* The flocks.  The pool's mutex is held from the first look for an index to the
\* hint of the next; an index that a creator has found free stays so, and a flock
\* that a thread has is in use.
FlockTypeOK ==
  /\ inUse \in [G!Flock -> BOOLEAN] /\ freeIdx \in 0..FlockMax
  /\ pool \in Thread \cup {NoThread}
  /\ at \in [Thread -> {"run", "try", "scan", "take", "advance", "hint"}]
  /\ idx \in [Thread -> 0..FlockMax]
  /\ flocks \in [Thread -> SUBSET G!Flock]

InPool == {"try", "scan", "take", "advance"}

FlockInv ==
  /\ FlockTypeOK
  /\ \A t \in Thread :
       /\ at[t] \in InPool <=> pool = t
       /\ at[t] \in {"try", "take", "advance", "hint"} => idx[t] < FlockMax
       /\ at[t] = "take" => ~inUse[idx[t]]
       /\ \A i \in flocks[t] : inUse[i]
  /\ \A t, u \in Thread : t # u => flocks[t] \cap flocks[u] = {}

\* A creator works on the pool alone.
LEMMA CreateKeeps ==
  ASSUME FlockInv, NEW t \in Thread,
         G!BeginCreate(t) \/ G!Try(t) \/ G!Scan(t) \/ G!Panic(t) \/ G!Take(t) \/ G!Advance(t)
  PROVE  FlockInv'
<1> USE ServicesAssumption DEF FlockInv, FlockTypeOK, InPool, G!Flock, G!Go
<1>1. CASE G!BeginCreate(t)
  BY <1>1, SMTT(60) DEF G!BeginCreate
<1>2. CASE G!Try(t)
  BY <1>2, SMTT(60) DEF G!Try
<1>3. CASE G!Scan(t)
  BY <1>3, SMTT(60) DEF G!Scan
<1>4. CASE G!Panic(t)
  BY <1>4, SMTT(60) DEF G!Panic
<1>5. CASE G!Take(t)
  BY <1>5, SMTT(60) DEF G!Take
<1>6. CASE G!Advance(t)
  BY <1>6, SMTT(60) DEF G!Advance
<1> QED BY <1>1, <1>2, <1>3, <1>4, <1>5, <1>6, ZenonT(60)

\* A destroy frees a flock that nobody else has, and takes no lock for it.
LEMMA DestroyKeeps ==
  ASSUME FlockInv, NEW t \in Thread, G!Hint(t) \/ \E i \in G!Flock : G!Destroy(t, i)
  PROVE  FlockInv'
<1> USE ServicesAssumption DEF FlockInv, FlockTypeOK, InPool, G!Flock, G!Go
<1>1. CASE G!Hint(t)
  BY <1>1, ZenonT(60) DEF G!Hint
<1>2. ASSUME NEW i \in G!Flock, G!Destroy(t, i) PROVE FlockInv'
  BY <1>2, SMTT(60) DEF G!Destroy
<1> QED BY <1>1, <1>2

\* At the start no flock is in use.
LEMMA FlocksStart ==
  ASSUME G!FlockInit
  PROVE  FlockInv
<1> USE ServicesAssumption DEF G!FlockInit, G!Flock
<1>1. FlockTypeOK
  BY DEF FlockTypeOK
<1>2. \A t \in Thread : at[t] = "run" /\ pool # t /\ flocks[t] = {}
  OBVIOUS
<1> QED BY <1>1, <1>2 DEF FlockInv, InPool

\* Every access to the pool keeps it.
LEMMA FlocksKeep ==
  ASSUME FlockInv, G!FlockNext \/ UNCHANGED flockVars
  PROVE  FlockInv'
<1>1. CASE G!FlockNext
  BY <1>1, CreateKeeps, DestroyKeeps DEF G!FlockNext
<1>2. CASE UNCHANGED flockVars
  BY <1>2 DEF flockVars, FlockInv, FlockTypeOK
<1> QED BY <1>1, <1>2

\* A flock that a creator is about to take is in use by nobody.
LEMMA FlocksAreApart ==
  ASSUME FlockInv
  PROVE  G!FlocksApart
BY DEF FlockInv, G!FlocksApart
------------------------------------------------------------------------------
\* The drivers.  A registration is in one slot, or about to be told by the shutdown,
\* or has been told that it is over; what the shutdown has passed is newer than it.
AnyDriverId == DriverId \cup {D!NoDriver.id}
Number == 0..MaxRegistrations
Saved == Datum \cup {Blank}
DriverType == [used : BOOLEAN, id : AnyDriverId, no : Number, save : Saved]

DriverTypeOK ==
  /\ drivers \in [D!Slot -> DriverType]
  /\ latest \in 0..MaxRegistrations /\ standing \in 0..latest
  /\ ends \in [1..MaxRegistrations -> 0..1] /\ saved \in [1..MaxRegistrations -> Saved]
  /\ sweep \in 0..MaxDrivers + 1

Calling == calling # D!NoDriver

\* What a slot in use holds is a registration that is not over, and the slots that
\* the shutdown has passed hold later ones than it found.
InSlots ==
  \A i \in D!Slot : drivers[i].used =>
    /\ drivers[i].no \in 1..latest /\ ends[drivers[i].no] = 0
    /\ drivers[i].save = saved[drivers[i].no]
    /\ Calling => drivers[i].no # calling.no

SlotsApart ==
  \A i, j \in D!Slot : drivers[i].used /\ drivers[j].used /\ i # j => drivers[i].no # drivers[j].no

Passed ==
  \A i \in D!Slot : drivers[i].used /\ (i < sweep \/ (i = sweep /\ Calling)) => drivers[i].no > standing

CallIsOne ==
  Calling => sweep \in D!Slot /\ calling.no \in 1..latest /\ ends[calling.no] = 0

NoneLost ==
  \A n \in 1..latest :
    \/ ends[n] = 1
    \/ \E i \in D!Slot : drivers[i].used /\ drivers[i].no = n
    \/ Calling /\ calling.no = n

Unnumbered == \A n \in 1..MaxRegistrations : n > latest => ends[n] = 0 /\ saved[n] = Blank

DriverInv == DriverTypeOK /\ InSlots /\ SlotsApart /\ Passed /\ CallIsOne /\ NoneLost /\ Unnumbered

\* A driver with another save area, or out of use, is a driver.
LEMMA StillDriver ==
  ASSUME NEW r \in DriverType, NEW datum \in Saved
  PROVE  [r EXCEPT !.save = datum] \in DriverType /\ [r EXCEPT !.used = FALSE] \in DriverType
<1>1. [r EXCEPT !.save = datum] \in DriverType
  BY DEF DriverType
<1>2. [r EXCEPT !.used = FALSE] \in DriverType
  BY DEF DriverType
<1> QED BY <1>1, <1>2

\* A registration takes an unused slot, and a number that nobody had.
LEMMA RegisterKeeps ==
  ASSUME DriverInv, NEW d \in DriverId, D!Register(d)
  PROVE  DriverInv'
<1> USE ServicesAssumption DEF DriverInv
<1> DEFINE unused == {i \in D!Slot : ~drivers[i].used}
           slot == D!Min(unused)
           new == [used |-> TRUE, id |-> d, no |-> latest + 1, save |-> Blank]
<1>1. slot \in D!Slot /\ ~drivers[slot].used
  <2>1. unused \in SUBSET Nat /\ unused # {}
    BY DEF D!Register, D!Slot
  <2>2. F!Min(unused) \in unused
    BY <2>1, MinIs
  <2> QED BY <2>2 DEF D!Min, F!Min
<1>2. drivers' = [drivers EXCEPT ![slot] = new] /\ latest' = latest + 1 /\ latest < MaxRegistrations
      /\ UNCHANGED <<ends, sweep, calling, standing, saved>>
  BY DEF D!Register
<1> HIDE DEF unused, slot
<1>3. latest \in Nat /\ latest + 1 \in 1..MaxRegistrations /\ standing \in 0..latest
  BY <1>2 DEF DriverTypeOK
<1>4. new \in DriverType
  <2>1. d \in AnyDriverId /\ latest + 1 \in Number /\ Blank \in Saved
    BY <1>3 DEF AnyDriverId, Number, Saved
  <2> QED BY <2>1 DEF DriverType
<1>5. new.used /\ new.no = latest + 1 /\ new.save = Blank
  OBVIOUS
<1> HIDE DEF new
<1>6. drivers' \in [D!Slot -> DriverType] /\ drivers'[slot] = new
      /\ \A i \in D!Slot \ {slot} : drivers'[i] = drivers[i]
  BY <1>1, <1>2, <1>4 DEF DriverTypeOK
<1>7. DriverTypeOK'
  BY <1>2, <1>3, <1>6 DEF DriverTypeOK
<1>8. Calling' = Calling /\ ends[latest + 1] = 0 /\ saved[latest + 1] = Blank
  BY <1>2, <1>3, SMTT(60) DEF Calling, Unnumbered
<1>9. Calling => calling.no # latest + 1 /\ calling.no \in 1..latest + 1
  BY <1>3, SMTT(60) DEF CallIsOne
<1>10. InSlots'
  <2> SUFFICES ASSUME NEW i \in D!Slot, drivers'[i].used
               PROVE  /\ drivers'[i].no \in 1..latest + 1 /\ ends[drivers'[i].no] = 0
                      /\ drivers'[i].save = saved[drivers'[i].no]
                      /\ Calling => drivers'[i].no # calling.no
    BY <1>2, <1>8 DEF InSlots
  <2>1. CASE i = slot
    BY <1>3, <1>5, <1>6, <1>8, <1>9, <2>1, SMTT(60)
  <2>2. CASE i # slot
    BY <1>3, <1>6, <2>2, SMTT(60) DEF InSlots
  <2> QED BY <2>1, <2>2
<1>11. SlotsApart'
  BY <1>3, <1>5, <1>6, SMTT(60) DEF SlotsApart, InSlots
<1>12. Passed'
  <2> SUFFICES ASSUME NEW i \in D!Slot, drivers'[i].used, i < sweep \/ (i = sweep /\ Calling)
               PROVE  drivers'[i].no > standing
    BY <1>2, <1>8 DEF Passed
  <2>1. CASE i = slot
    BY <1>3, <1>5, <1>6, <2>1
  <2>2. CASE i # slot
    BY <1>6, <2>2 DEF Passed
  <2> QED BY <2>1, <2>2
<1>13. CallIsOne'
  BY <1>2, <1>8, <1>9 DEF CallIsOne
<1>14. NoneLost'
  <2> SUFFICES ASSUME NEW n \in 1..latest + 1
               PROVE  \/ ends[n] = 1
                      \/ \E i \in D!Slot : drivers'[i].used /\ drivers'[i].no = n
                      \/ Calling /\ calling.no = n
    BY <1>2, <1>8 DEF NoneLost
  <2>1. CASE n = latest + 1
    BY <1>1, <1>5, <1>6, <2>1
  <2>2. CASE n # latest + 1
    <3>1. n \in 1..latest
      BY <1>3, <2>2
    <3> QED BY <1>1, <1>6, <3>1 DEF NoneLost
  <2> QED BY <2>1, <2>2
<1>15. Unnumbered'
  BY <1>2, <1>3, SMTT(60) DEF Unnumbered
<1> QED BY <1>7, <1>10, <1>11, <1>12, <1>13, <1>14, <1>15

\* The driver that a call finds is registered.
LEMMA FoundIs ==
  ASSUME NEW d \in DriverId, D!Found(d) # {}
  PROVE  D!Min(D!Found(d)) \in D!Slot /\ drivers[D!Min(D!Found(d))].used
<1>1. D!Found(d) \in SUBSET Nat
  BY DEF D!Found, D!Slot
<1>2. F!Min(D!Found(d)) \in D!Found(d)
  BY <1>1, MinIs
<1> QED BY <1>2 DEF D!Min, F!Min, D!Found

\* A copy goes to the save area of one registration.
LEMMA CopyKeeps ==
  ASSUME DriverInv, NEW d \in DriverId, NEW datum \in Datum, D!CopyToSaveArea(d, datum)
  PROVE  DriverInv'
<1> USE ServicesAssumption DEF DriverInv
<1> DEFINE i == D!Min(D!Found(d))
           new == [drivers[i] EXCEPT !.save = datum]
<1>1. i \in D!Slot /\ drivers[i].used /\ drivers[i] \in DriverType /\ datum \in Saved
  BY FoundIs DEF D!CopyToSaveArea, DriverTypeOK, Saved
<1>2. /\ drivers' = [drivers EXCEPT ![i] = new] /\ saved' = [saved EXCEPT ![drivers[i].no] = datum]
      /\ UNCHANGED <<latest, ends, sweep, calling, standing>>
  BY DEF D!CopyToSaveArea
<1> HIDE DEF i
<1>3. new \in DriverType /\ new.used = drivers[i].used /\ new.no = drivers[i].no /\ new.save = datum
  <2>1. new \in DriverType
    BY <1>1, StillDriver
  <2>2. new.used = drivers[i].used /\ new.no = drivers[i].no /\ new.save = datum
    BY <1>1 DEF DriverType
  <2> QED BY <2>1, <2>2
<1> HIDE DEF new
<1>4. drivers' \in [D!Slot -> DriverType] /\ drivers'[i] = new
      /\ \A j \in D!Slot \ {i} : drivers'[j] = drivers[j]
  BY <1>1, <1>2, <1>3 DEF DriverTypeOK
<1>5. latest \in 0..MaxRegistrations /\ drivers[i].no \in 1..latest /\ drivers[i].no \in 1..MaxRegistrations
  BY <1>1 DEF DriverTypeOK, InSlots
<1>6. saved' \in [1..MaxRegistrations -> Saved] /\ saved'[drivers[i].no] = datum
      /\ \A n \in 1..MaxRegistrations : n # drivers[i].no => saved'[n] = saved[n]
  BY <1>1, <1>2, <1>5 DEF DriverTypeOK
<1>7. DriverTypeOK' /\ Calling' = Calling
  BY <1>2, <1>4, <1>6 DEF DriverTypeOK, Calling
<1>8. InSlots'
  <2> SUFFICES ASSUME NEW j \in D!Slot, drivers'[j].used
               PROVE  /\ drivers'[j].no \in 1..latest /\ ends[drivers'[j].no] = 0
                      /\ drivers'[j].save = saved'[drivers'[j].no]
                      /\ Calling => drivers'[j].no # calling.no
    BY <1>2, <1>7 DEF InSlots
  <2>1. CASE j = i
    BY <1>1, <1>3, <1>4, <1>6, <2>1 DEF InSlots
  <2>2. CASE j # i
    <3>1. drivers'[j] = drivers[j] /\ drivers[j].no # drivers[i].no
      BY <1>1, <1>4, <2>2 DEF SlotsApart
    <3>2. drivers[j].no \in 1..latest /\ drivers[j].no \in 1..MaxRegistrations
      BY <1>5, <3>1, SMTT(60) DEF InSlots
    <3> QED BY <1>6, <3>1, <3>2, SMTT(60) DEF InSlots
  <2> QED BY <2>1, <2>2
<1>9. \A j \in D!Slot : drivers'[j].used = drivers[j].used /\ drivers'[j].no = drivers[j].no
  BY <1>3, <1>4
<1>10. SlotsApart' /\ Passed' /\ CallIsOne' /\ NoneLost'
  BY <1>2, <1>7, <1>9 DEF SlotsApart, Passed, CallIsOne, NoneLost
<1>11. Unnumbered'
  BY <1>2, <1>5, <1>6 DEF Unnumbered
<1> QED BY <1>7, <1>8, <1>10, <1>11

\* A driver that is deregistered has been told.
LEMMA DeregisterKeeps ==
  ASSUME DriverInv, NEW d \in DriverId, D!Deregister(d)
  PROVE  DriverInv'
<1> USE ServicesAssumption DEF DriverInv
<1> DEFINE i == D!Min(D!Found(d))
           new == [drivers[i] EXCEPT !.used = FALSE]
<1>1. i \in D!Slot /\ drivers[i].used /\ drivers[i] \in DriverType /\ Blank \in Saved
  BY FoundIs DEF D!Deregister, DriverTypeOK, Saved
<1>2. /\ drivers' = [drivers EXCEPT ![i] = new] /\ ends' = [ends EXCEPT ![drivers[i].no] = @ + 1]
      /\ UNCHANGED <<latest, sweep, calling, standing, saved>>
  BY DEF D!Deregister
<1> HIDE DEF i
<1>3. new \in DriverType /\ ~new.used
  <2>1. new \in DriverType
    BY <1>1, StillDriver
  <2>2. ~new.used
    BY <1>1 DEF DriverType
  <2> QED BY <2>1, <2>2
<1> HIDE DEF new
<1>4. drivers' \in [D!Slot -> DriverType] /\ ~drivers'[i].used
      /\ \A j \in D!Slot \ {i} : drivers'[j] = drivers[j]
  BY <1>1, <1>2, <1>3 DEF DriverTypeOK
<1>5. latest \in 0..MaxRegistrations /\ drivers[i].no \in 1..latest /\ drivers[i].no \in 1..MaxRegistrations
      /\ ends[drivers[i].no] = 0
  BY <1>1 DEF DriverTypeOK, InSlots
<1>6. ends' \in [1..MaxRegistrations -> 0..1] /\ ends'[drivers[i].no] = 1
      /\ \A n \in 1..MaxRegistrations : n # drivers[i].no => ends'[n] = ends[n]
  BY <1>2, <1>5 DEF DriverTypeOK
<1>7. DriverTypeOK' /\ Calling' = Calling
  BY <1>2, <1>4, <1>6 DEF DriverTypeOK, Calling
<1>8. ASSUME NEW j \in D!Slot, drivers'[j].used
      PROVE  drivers'[j] = drivers[j] /\ drivers[j].used /\ drivers[j].no # drivers[i].no
             /\ drivers[j].no \in 1..MaxRegistrations
  <2>1. drivers'[j] = drivers[j] /\ drivers[j].used
    BY <1>4, <1>8
  <2>2. drivers[j].no # drivers[i].no
    BY <1>1, <1>4, <1>8 DEF SlotsApart
  <2> QED BY <1>5, <2>1, <2>2, SMTT(60) DEF InSlots
<1>9. InSlots'
  <2> SUFFICES ASSUME NEW j \in D!Slot, drivers'[j].used
               PROVE  /\ drivers'[j].no \in 1..latest /\ ends'[drivers'[j].no] = 0
                      /\ drivers'[j].save = saved[drivers'[j].no]
                      /\ Calling => drivers'[j].no # calling.no
    BY <1>2, <1>7 DEF InSlots
  <2>1. drivers'[j] = drivers[j] /\ drivers[j].used
    BY <1>8
  <2>2. /\ drivers[j].no \in 1..latest /\ ends[drivers[j].no] = 0
        /\ drivers[j].save = saved[drivers[j].no]
        /\ Calling => drivers[j].no # calling.no
    BY <2>1 DEF InSlots
  <2>3. ends'[drivers[j].no] = ends[drivers[j].no]
    BY <1>6, <1>8
  <2> QED BY <1>2, <1>7, <2>1, <2>2, <2>3
<1>10. SlotsApart' /\ Passed'
  BY <1>2, <1>7, <1>8 DEF SlotsApart, Passed
<1>11. CallIsOne'
  <2> SUFFICES ASSUME Calling PROVE sweep \in D!Slot /\ calling.no \in 1..latest /\ ends'[calling.no] = 0
    BY <1>2, <1>7 DEF CallIsOne
  <2>1. calling.no # drivers[i].no
    BY <1>1 DEF InSlots
  <2>2. sweep \in D!Slot /\ calling.no \in 1..latest /\ calling.no \in 1..MaxRegistrations /\ ends[calling.no] = 0
    BY <1>5 DEF CallIsOne
  <2> QED BY <1>6, <2>1, <2>2
<1>12. NoneLost'
  <2> SUFFICES ASSUME NEW n \in 1..latest, ends'[n] # 1
               PROVE  \/ \E j \in D!Slot : drivers'[j].used /\ drivers'[j].no = n
                      \/ Calling /\ calling.no = n
    BY <1>2, <1>7 DEF NoneLost
  <2>1. n \in 1..MaxRegistrations /\ n # drivers[i].no /\ ends[n] # 1
    BY <1>5, <1>6, SMTT(60)
  <2> QED BY <1>4, <2>1 DEF NoneLost
<1>13. Unnumbered'
  BY <1>2, <1>5, <1>6, SMTT(60) DEF Unnumbered
<1> QED BY <1>7, <1>9, <1>10, <1>11, <1>12, <1>13

\* When a shutdown begins, the sweep has passed no slot, nor has it when it is over.
LEMMA BeginKeeps ==
  ASSUME DriverInv, D!BeginShutdown \/ D!EndShutdown
  PROVE  DriverInv'
<1> USE ServicesAssumption DEF DriverInv
<1>1. ~Calling
  BY SMTT(60) DEF D!BeginShutdown, D!EndShutdown, D!Slot, CallIsOne
<1>2. Calling' = Calling /\ UNCHANGED <<drivers, latest, ends, calling, saved>>
  BY DEF D!BeginShutdown, D!EndShutdown, Calling
<1>3. DriverTypeOK' /\ \A i \in D!Slot : ~(i < sweep')
  <2>1. sweep' \in {0, 1} /\ standing' \in {standing, latest}
    BY SMTT(60) DEF D!BeginShutdown, D!EndShutdown
  <2>2. sweep' \in 0..MaxDrivers + 1 /\ \A i \in D!Slot : ~(i < sweep')
    BY <2>1, SMTT(60) DEF D!Slot
  <2>3. standing' \in 0..latest
    BY <2>1 DEF DriverTypeOK
  <2> QED BY <1>2, <2>2, <2>3 DEF DriverTypeOK
<1>4. InSlots' /\ SlotsApart' /\ NoneLost' /\ Unnumbered'
  BY <1>2 DEF InSlots, SlotsApart, NoneLost, Unnumbered
<1>5. Passed' /\ CallIsOne'
  BY <1>1, <1>2, <1>3 DEF Passed, CallIsOne
<1> QED BY <1>3, <1>4, <1>5

\* The shutdown takes a driver out of its slot before it calls it.
LEMMA SweepKeeps ==
  ASSUME DriverInv, D!SweepSlot
  PROVE  DriverInv'
<1> USE ServicesAssumption DEF DriverInv
<1> DEFINE new == [drivers[sweep] EXCEPT !.used = FALSE]
<1>1. sweep \in D!Slot /\ sweep \in Nat /\ ~Calling /\ UNCHANGED <<latest, ends, standing, saved>>
      /\ drivers[sweep] \in DriverType /\ Blank \in Saved
  BY DEF D!SweepSlot, D!Slot, Calling, DriverTypeOK, Saved
<1>2. drivers' = [drivers EXCEPT ![sweep] = new]
  BY DEF D!SweepSlot
<1>3. new \in DriverType /\ ~new.used
  <2>1. new \in DriverType
    BY <1>1, StillDriver
  <2>2. ~new.used
    BY <1>1 DEF DriverType
  <2> QED BY <2>1, <2>2
<1> HIDE DEF new
<1>4. drivers' \in [D!Slot -> DriverType] /\ ~drivers'[sweep].used
      /\ \A j \in D!Slot \ {sweep} : drivers'[j] = drivers[j]
  BY <1>1, <1>2, <1>3 DEF DriverTypeOK
<1>5. ASSUME NEW j \in D!Slot, drivers'[j].used
      PROVE  drivers'[j] = drivers[j] /\ drivers[j].used /\ j # sweep
  BY <1>4, <1>5
<1>6. SlotsApart' /\ Unnumbered'
  BY <1>1, <1>5, SMTT(60) DEF SlotsApart, Unnumbered
<1>7. CASE drivers[sweep].used
  <2>1. calling' = drivers[sweep] /\ sweep' = sweep
    BY <1>7 DEF D!SweepSlot
  <2>2. Calling'
    BY <1>7, <2>1 DEF Calling, D!NoDriver
  <2>3. DriverTypeOK'
    BY <1>1, <1>4, <2>1 DEF DriverTypeOK
  <2>4. InSlots'
    BY <1>1, <1>5, <1>7, <2>1, SMTT(60) DEF InSlots, SlotsApart
  <2>5. Passed'
    <3> SUFFICES ASSUME NEW i \in D!Slot, drivers'[i].used, i < sweep \/ i = sweep
                 PROVE  drivers'[i].no > standing
      BY <1>1, <2>1, SMTT(60) DEF Passed
    <3> QED BY <1>5 DEF Passed
  <2>6. CallIsOne' /\ NoneLost'
    BY <1>1, <1>4, <1>7, <2>1, <2>2, SMTT(60) DEF CallIsOne, NoneLost, InSlots
  <2> QED BY <1>6, <2>3, <2>4, <2>5, <2>6
<1>8. CASE ~drivers[sweep].used
  <2>1. calling' = D!NoDriver /\ sweep' = sweep + 1
    BY <1>8 DEF D!SweepSlot
  <2>2. ~Calling'
    BY <2>1 DEF Calling
  <2>3. DriverTypeOK'
    BY <1>1, <1>4, <2>1 DEF DriverTypeOK, D!Slot
  <2>4. InSlots'
    BY <1>1, <1>5, <2>2, SMTT(60) DEF InSlots
  <2>5. Passed'
    <3> SUFFICES ASSUME NEW i \in D!Slot, drivers'[i].used, i < sweep + 1
                 PROVE  drivers'[i].no > standing
      BY <1>1, <2>1, <2>2 DEF Passed
    <3>1. i < sweep /\ drivers[i].used /\ drivers'[i] = drivers[i]
      BY <1>1, <1>5 DEF D!Slot
    <3> QED BY <3>1 DEF Passed
  <2>6. CallIsOne' /\ NoneLost'
    <3> SUFFICES ASSUME NEW n \in 1..latest, ends[n] # 1
                 PROVE  \E i \in D!Slot : drivers'[i].used /\ drivers'[i].no = n
      BY <1>1, <2>2 DEF CallIsOne, NoneLost
    <3>1. PICK i \in D!Slot : drivers[i].used /\ drivers[i].no = n
      BY <1>1 DEF NoneLost
    <3> QED BY <1>4, <1>8, <3>1
  <2> QED BY <1>6, <2>3, <2>4, <2>5, <2>6
<1> QED BY <1>7, <1>8

\* onDone tells the driver that was taken out.
LEMMA CallOnDoneKeeps ==
  ASSUME DriverInv, D!CallOnDone
  PROVE  DriverInv'
<1> USE ServicesAssumption DEF DriverInv
<1>1. Calling /\ calling' = D!NoDriver /\ sweep' = sweep + 1 /\ UNCHANGED <<drivers, latest, standing, saved>>
      /\ ends' = [ends EXCEPT ![calling.no] = @ + 1]
  BY DEF D!CallOnDone, Calling
<1>2. ~Calling'
  BY <1>1 DEF Calling
<1>3. latest \in 0..MaxRegistrations /\ calling.no \in 1..latest /\ calling.no \in 1..MaxRegistrations
      /\ ends[calling.no] = 0 /\ sweep \in D!Slot /\ sweep \in 1..MaxDrivers
  BY <1>1 DEF DriverTypeOK, CallIsOne, D!Slot
<1>4. ends' \in [1..MaxRegistrations -> 0..1] /\ ends'[calling.no] = 1
      /\ \A n \in 1..MaxRegistrations : n # calling.no => ends'[n] = ends[n]
  BY <1>1, <1>3 DEF DriverTypeOK
<1>5. DriverTypeOK'
  BY <1>1, <1>3, <1>4 DEF DriverTypeOK
<1>6. InSlots'
  <2> SUFFICES ASSUME NEW i \in D!Slot, drivers[i].used
               PROVE  drivers[i].no \in 1..latest /\ ends'[drivers[i].no] = 0 /\ drivers[i].save = saved[drivers[i].no]
    BY <1>1, <1>2 DEF InSlots
  <2>1. drivers[i].no \in 1..latest /\ drivers[i].no # calling.no /\ ends[drivers[i].no] = 0
        /\ drivers[i].save = saved[drivers[i].no]
    BY <1>1 DEF InSlots
  <2>2. drivers[i].no \in 1..MaxRegistrations
    BY <1>3, <2>1, SMTT(60)
  <2> QED BY <1>4, <2>1, <2>2
<1>7. SlotsApart'
  BY <1>1 DEF SlotsApart
<1>8. Passed'
  <2> SUFFICES ASSUME NEW i \in D!Slot, drivers[i].used, i < sweep + 1 PROVE drivers[i].no > standing
    BY <1>1, <1>2 DEF Passed
  <2>1. i < sweep \/ i = sweep
    BY <1>3 DEF D!Slot
  <2> QED BY <1>1, <2>1 DEF Passed
<1>9. CallIsOne'
  BY <1>2 DEF CallIsOne
<1>10. NoneLost'
  <2> SUFFICES ASSUME NEW n \in 1..latest, ends'[n] # 1
               PROVE  \E i \in D!Slot : drivers[i].used /\ drivers[i].no = n
    BY <1>1 DEF NoneLost
  <2>1. n \in 1..MaxRegistrations /\ n # calling.no /\ ends[n] # 1
    BY <1>3, <1>4
  <2> QED BY <2>1 DEF NoneLost
<1>11. Unnumbered'
  BY <1>1, <1>3, <1>4, SMTT(60) DEF Unnumbered
<1> QED BY <1>5, <1>6, <1>7, <1>8, <1>9, <1>10, <1>11

\* A shutdown that is at its end has passed every slot, so that a driver which stood
\* when it began has been told.
LEMMA DriversTold ==
  ASSUME DriverInv
  PROVE  D!SavesKept /\ D!EndsOnce
<1> USE ServicesAssumption DEF DriverInv
<1>1. D!SavesKept
  BY DEF D!SavesKept, InSlots
<1>2. latest \in 0..MaxRegistrations /\ standing \in 0..latest
  BY DEF DriverTypeOK
<1>3. \A n \in 1..latest : ends[n] <= 1
  BY <1>2 DEF DriverTypeOK
<1>4. ASSUME sweep = MaxDrivers + 1, NEW n \in 1..standing PROVE ends[n] = 1
  <2>1. n \in 1..latest /\ ~(n > standing)
    BY <1>2
  <2>2. ~Calling
    BY <1>4 DEF CallIsOne, D!Slot
  <2>3. \A i \in D!Slot : i < sweep
    BY <1>4 DEF D!Slot
  <2> QED BY <2>1, <2>2, <2>3 DEF NoneLost, Passed
<1> QED BY <1>1, <1>3, <1>4 DEF D!EndsOnce

\* No driver is registered at the start.
LEMMA DriversStart ==
  ASSUME D!DriverInit
  PROVE  DriverInv
<1> USE ServicesAssumption DEF D!DriverInit
<1>1. D!NoDriver \in DriverType /\ ~D!NoDriver.used /\ ~Calling
  <2>1. D!NoDriver.id \in AnyDriverId /\ 0 \in Number /\ Blank \in Saved
    BY DEF AnyDriverId, Number, Saved
  <2>2. D!NoDriver \in DriverType
    BY <2>1 DEF DriverType, D!NoDriver
  <2> QED BY <2>2 DEF D!NoDriver, Calling
<1>2. drivers \in [D!Slot -> DriverType] /\ \A i \in D!Slot : ~drivers[i].used
  BY <1>1
<1>3. DriverTypeOK
  BY <1>2 DEF DriverTypeOK, Saved
<1>4. InSlots /\ SlotsApart /\ Passed /\ CallIsOne /\ NoneLost /\ Unnumbered
  BY <1>1, <1>2 DEF InSlots, SlotsApart, Passed, CallIsOne, NoneLost, Unnumbered
<1> QED BY <1>3, <1>4 DEF DriverInv

\* Every call and every turn of a shutdown keeps the invariant.
LEMMA DriversKeep ==
  ASSUME DriverInv, D!DriverNext \/ UNCHANGED driverVars
  PROVE  DriverInv'
<1>1. CASE D!DriverNext
  BY <1>1, RegisterKeeps, CopyKeeps, DeregisterKeeps, BeginKeeps, SweepKeeps, CallOnDoneKeeps DEF D!DriverNext
<1>2. CASE UNCHANGED driverVars
  BY <1>2 DEF driverVars, DriverInv, DriverTypeOK, InSlots, SlotsApart, Passed, CallIsOne, NoneLost, Unnumbered, Calling
<1> QED BY <1>1, <1>2
------------------------------------------------------------------------------
\* The locked cache.  As the first call is made before the guest has threads, the
\* lock is initialised while nobody holds it.  From the test of the budget on, its
\* holder is alone with the budget; every call for a block has one of its own.
RequestStage == {"idle", "init", "lock", "test", "allot", "free", "leave"}
RequestSize == 0..Word - 1
RequestAddr == Address \cup {NoThread}
RequestType == [stage : RequestStage, size : RequestSize, addr : RequestAddr]
InLock == {"test", "allot", "free", "leave"}

CacheTypeOK ==
  /\ request \in [Thread -> RequestType] /\ holder \in Thread \cup {NoThread} /\ inited \in BOOLEAN
  /\ allocated \in Nat /\ DOMAIN allotted \subseteq Address
  /\ \A p \in DOMAIN allotted : allotted[p] \in Nat

OneHolder == \A t \in Thread : request[t].stage \in InLock <=> holder = t

FirstAlone ==
  \A t \in Thread :
    /\ request[t].stage = "init" => ~inited /\ \A u \in Thread \ {t} : request[u].stage = "idle"
    /\ ~inited => request[t].stage \in {"idle", "init"}

Fits == \A t \in Thread : request[t].stage = "allot" => allocated + request[t].size <= CacheSize

OwnBlock ==
  \A t \in Thread :
    /\ request[t].stage = "free" => request[t].addr # NoThread
    /\ request[t].addr # NoThread =>
         request[t].addr \in DOMAIN allotted /\ \A u \in Thread \ {t} : request[u].addr # request[t].addr

CacheInv ==
  /\ CacheTypeOK /\ OneHolder /\ FirstAlone /\ Fits /\ OwnBlock
  /\ IsFiniteSet(L!Bytes) /\ allocated = Cardinality(L!Bytes) /\ allocated <= CacheSize

BytesOf(p, n) == {p} \X (1..n)

\* A block has as many bytes as its size.
LEMMA BytesOfCount ==
  ASSUME NEW p, NEW n \in Nat
  PROVE  IsFiniteSet(BytesOf(p, n)) /\ Cardinality(BytesOf(p, n)) = n
<1>1. IsFiniteSet({p}) /\ Cardinality({p}) = 1
  BY FS_Singleton
<1>2. IsFiniteSet(1..n) /\ Cardinality(1..n) = n
  BY FS_Interval
<1>3. IsFiniteSet({p} \X (1..n)) /\ Cardinality({p} \X (1..n)) = Cardinality({p}) * Cardinality(1..n)
  BY <1>1, <1>2, FS_Product
<1>4. Cardinality({p} \X (1..n)) = n
  BY <1>1, <1>2, <1>3
<1> QED BY <1>3, <1>4 DEF BytesOf

\* Bytes that none of a set's are add their number to it.
LEMMA MoreBytes ==
  ASSUME NEW B, IsFiniteSet(B), NEW p, NEW n \in Nat, B \cap BytesOf(p, n) = {}
  PROVE  /\ IsFiniteSet(B \cup BytesOf(p, n))
         /\ Cardinality(B \cup BytesOf(p, n)) = Cardinality(B) + n
         /\ Cardinality(B) \in Nat
<1>1. IsFiniteSet(BytesOf(p, n)) /\ Cardinality(BytesOf(p, n)) = n
  BY BytesOfCount
<1>2. Cardinality(B \cap BytesOf(p, n)) = 0
  BY FS_EmptySet
<1>3. IsFiniteSet(B \cup BytesOf(p, n))
      /\ Cardinality(B \cup BytesOf(p, n)) = Cardinality(B) + Cardinality(BytesOf(p, n)) - Cardinality(B \cap BytesOf(p, n))
  BY <1>1, FS_Union
<1>4. Cardinality(B) \in Nat
  BY FS_CardinalityType
<1> QED BY <1>1, <1>2, <1>3, <1>4

BytesIn(blocks) == UNION {BytesOf(q, blocks[q]) : q \in DOMAIN blocks}

\* One block more has its own bytes.
LEMMA OneBlockMore ==
  ASSUME NEW more, NEW fewer, NEW p, p \notin DOMAIN fewer, DOMAIN more = DOMAIN fewer \cup {p},
         \A q \in DOMAIN fewer : more[q] = fewer[q]
  PROVE  /\ BytesIn(more) = BytesIn(fewer) \cup BytesOf(p, more[p])
         /\ BytesIn(fewer) \cap BytesOf(p, more[p]) = {}
<1>1. BytesIn(more) = BytesIn(fewer) \cup BytesOf(p, more[p])
  BY DEF BytesIn
<1>2. \A q \in DOMAIN fewer : BytesOf(q, fewer[q]) \cap BytesOf(p, more[p]) = {}
  BY DEF BytesOf
<1>3. BytesIn(fewer) \cap BytesOf(p, more[p]) = {}
  BY <1>2 DEF BytesIn
<1> QED BY <1>1, <1>3

\* A number below the word's size does not wrap.
LEMMA NoWrap ==
  ASSUME NEW w \in Nat \ {0}, NEW x \in 0..w - 1
  PROVE  x % w = x
OBVIOUS

\* A call that goes on to a stage asks for what it asked for.
LEMMA Staged ==
  ASSUME NEW t \in Thread, NEW stage \in RequestStage, request \in [Thread -> RequestType], L!To(t, stage)
  PROVE  /\ request' \in [Thread -> RequestType]
         /\ request'[t].stage = stage /\ request'[t].size = request[t].size /\ request'[t].addr = request[t].addr
         /\ \A u \in Thread \ {t} : request'[u] = request[u]
<1> DEFINE new == [request[t] EXCEPT !.stage = stage]
<1>1. new \in RequestType /\ new.stage = stage /\ new.size = request[t].size /\ new.addr = request[t].addr
  BY DEF RequestType
<1>2. request' = [request EXCEPT ![t] = new]
  BY DEF L!To
<1> HIDE DEF new
<1> QED BY <1>1, <1>2

\* A call begins, and tests whether the lock has been initialised.
LEMMA EnterKeeps ==
  ASSUME CacheInv, NEW t \in Thread, NEW size \in 0..Word - 1, NEW addr \in RequestAddr, L!Enter(t, size, addr)
  PROVE  CacheInv'
<1> USE ServicesAssumption DEF CacheInv
<1> DEFINE new == [stage |-> IF inited THEN "lock" ELSE "init", size |-> size, addr |-> addr]
<1>1. request' = [request EXCEPT ![t] = new] /\ UNCHANGED <<allotted, allocated, inited, holder>>
      /\ request[t].stage = "idle"
  BY DEF L!Enter, L!In
<1>2. new \in RequestType /\ new.addr = addr /\ new.stage = IF inited THEN "lock" ELSE "init"
  <2>1. (IF inited THEN "lock" ELSE "init") \in RequestStage
    BY DEF RequestStage
  <2> QED BY <2>1 DEF RequestType, RequestSize
<1>3. ~inited => \A u \in Thread : request[u].stage = "idle"
  BY DEF L!Enter, L!In
<1>4. addr # NoThread => addr \in DOMAIN allotted /\ \A u \in Thread : request[u].addr # addr
  BY DEF L!Enter
<1> HIDE DEF new
<1>5. request' \in [Thread -> RequestType] /\ request'[t] = new /\ \A u \in Thread \ {t} : request'[u] = request[u]
  BY <1>1, <1>2 DEF CacheTypeOK
<1>6. CacheTypeOK'
  BY <1>1, <1>5 DEF CacheTypeOK
<1>7. OneHolder' /\ Fits'
  BY <1>1, <1>2, <1>5 DEF OneHolder, Fits, InLock
<1>8. FirstAlone'
  BY <1>1, <1>2, <1>3, <1>5 DEF FirstAlone
<1>9. OwnBlock'
  BY <1>1, <1>2, <1>4, <1>5 DEF OwnBlock
<1>10. L!Bytes' = L!Bytes
  BY <1>1 DEF L!Bytes
<1> QED BY <1>1, <1>6, <1>7, <1>8, <1>9, <1>10

\* The lock is initialised, taken, and the budget is tested by the one that has it.
LEMMA AdmitKeeps ==
  ASSUME CacheInv, NEW t \in Thread, L!InitLock(t) \/ L!Lock(t) \/ L!TestBudget(t)
  PROVE  CacheInv'
<1> USE ServicesAssumption DEF CacheInv
<1>1. UNCHANGED <<allotted, allocated>> /\ L!Bytes' = L!Bytes
  BY SMTT(60) DEF L!InitLock, L!Lock, L!TestBudget, L!Bytes
<1>2. CASE L!InitLock(t)
  <2>1. L!To(t, "lock") /\ request[t].stage = "init" /\ holder' = NoThread /\ inited' = TRUE
    BY <1>2 DEF L!InitLock, L!In
  <2>2. /\ request' \in [Thread -> RequestType]
        /\ request'[t].stage = "lock" /\ request'[t].addr = request[t].addr
        /\ \A u \in Thread \ {t} : request'[u] = request[u]
    BY <2>1, Staged DEF CacheTypeOK, RequestStage
  <2>3. \A u \in Thread \ {t} : request[u].stage = "idle"
    BY <2>1 DEF FirstAlone
  <2>4. CacheTypeOK'
    BY <1>1, <2>1, <2>2 DEF CacheTypeOK
  <2>5. OneHolder' /\ FirstAlone' /\ Fits'
    BY <2>1, <2>2, <2>3, SMTT(60) DEF OneHolder, FirstAlone, Fits, InLock
  <2>6. OwnBlock'
    BY <1>1, <2>1, <2>2, SMTT(60) DEF OwnBlock
  <2> QED BY <1>1, <2>4, <2>5, <2>6
<1>3. CASE L!Lock(t)
  <2> DEFINE stage == IF request[t].addr = NoThread THEN "test" ELSE "free"
  <2>1. L!To(t, stage) /\ request[t].stage = "lock" /\ holder = NoThread /\ holder' = t /\ UNCHANGED inited
    BY <1>3 DEF L!Lock, L!In
  <2>2. stage \in RequestStage /\ stage \in InLock /\ stage # "allot" /\ stage # "init"
        /\ (stage = "free" => request[t].addr # NoThread)
    BY DEF RequestStage, InLock
  <2> HIDE DEF stage
  <2>3. /\ request' \in [Thread -> RequestType]
        /\ request'[t].stage = stage /\ request'[t].addr = request[t].addr
        /\ \A u \in Thread \ {t} : request'[u] = request[u]
    BY <2>1, <2>2, Staged DEF CacheTypeOK
  <2>4. CacheTypeOK'
    BY <1>1, <2>1, <2>3 DEF CacheTypeOK
  <2>5. OneHolder'
    BY <2>1, <2>2, <2>3 DEF OneHolder
  <2>6. FirstAlone' /\ Fits'
    BY <1>1, <2>1, <2>2, <2>3 DEF FirstAlone, Fits
  <2>7. OwnBlock'
    BY <1>1, <2>1, <2>2, <2>3, ZenonT(60) DEF OwnBlock
  <2> QED BY <1>1, <2>4, <2>5, <2>6, <2>7
<1>4. CASE L!TestBudget(t)
  <2> DEFINE stage == IF (allocated + request[t].size) % Word <= CacheSize /\ request[t].size <= HostMemory
                      THEN "allot" ELSE "leave"
  <2>1. L!To(t, stage) /\ request[t].stage = "test" /\ UNCHANGED <<holder, inited>>
    BY <1>4 DEF L!TestBudget, L!In
  <2>2. stage \in RequestStage /\ stage \in InLock /\ stage \notin {"free", "init"}
    BY DEF RequestStage, InLock
  <2>3. stage = "allot" => allocated + request[t].size <= CacheSize
    <3>1. request[t].size \in Nat
      BY DEF CacheTypeOK, RequestType, RequestSize
    <3>2. CASE request[t].size <= HostMemory
      <4>1. allocated + request[t].size \in 0..Word - 1
        BY <3>1, <3>2, SMTT(60) DEF CacheTypeOK
      <4>2. (allocated + request[t].size) % Word = allocated + request[t].size
        BY <4>1, NoWrap
      <4> QED BY <4>2
    <3>3. CASE ~(request[t].size <= HostMemory)
      BY <3>3
    <3> QED BY <3>2, <3>3
  <2> HIDE DEF stage
  <2>4. /\ request' \in [Thread -> RequestType]
        /\ request'[t].stage = stage /\ request'[t].addr = request[t].addr /\ request'[t].size = request[t].size
        /\ \A u \in Thread \ {t} : request'[u] = request[u]
    BY <2>1, <2>2, Staged DEF CacheTypeOK
  <2>5. CacheTypeOK'
    BY <1>1, <2>1, <2>4 DEF CacheTypeOK
  <2>6. OneHolder'
    BY <2>1, <2>2, <2>4, SMTT(60) DEF OneHolder, InLock
  <2>7. FirstAlone'
    BY <2>1, <2>2, <2>4 DEF FirstAlone
  <2>8. Fits'
    BY <1>1, <2>3, <2>4 DEF Fits
  <2>9. OwnBlock'
    BY <1>1, <2>1, <2>2, <2>4, SMTT(60) DEF OwnBlock
  <2> QED BY <1>1, <2>5, <2>6, <2>7, <2>8, <2>9
<1> QED BY <1>2, <1>3, <1>4

\* A call that is over holds no lock, has no block to free and waits for nothing.
LEMMA LeaveKeeps ==
  ASSUME CacheTypeOK, OneHolder, FirstAlone, NEW t \in Thread, holder = t, L!Leave(t), inited' = inited
  PROVE  /\ request' \in [Thread -> RequestType] /\ holder' \in Thread \cup {NoThread}
         /\ request'[t].stage = "idle" /\ request'[t].addr = NoThread
         /\ \A u \in Thread \ {t} : request'[u] = request[u] /\ request[u].stage \notin InLock
         /\ OneHolder' /\ FirstAlone'
<1> USE ServicesAssumption
<1>1. holder' = NoThread /\ request' = [request EXCEPT ![t] = L!NoRequest]
  BY DEF L!Leave
<1>2. L!NoRequest \in RequestType /\ L!NoRequest.stage = "idle" /\ L!NoRequest.addr = NoThread
  BY DEF L!NoRequest, RequestType, RequestStage, RequestSize, RequestAddr
<1>3. request' \in [Thread -> RequestType] /\ request'[t] = L!NoRequest /\ \A u \in Thread \ {t} : request'[u] = request[u]
  BY <1>1, <1>2 DEF CacheTypeOK
<1>4. \A u \in Thread \ {t} : request[u].stage \notin InLock
  BY DEF OneHolder
<1>5. OneHolder' /\ FirstAlone'
  BY <1>1, <1>2, <1>3, <1>4 DEF OneHolder, FirstAlone, InLock
<1> QED BY <1>1, <1>2, <1>3, <1>4, <1>5

\* An allocation that was admitted stays within the budget.
LEMMA AllocKeeps ==
  ASSUME CacheInv, NEW t \in Thread, NEW p \in Address, L!LCAlloc(t, p)
  PROVE  CacheInv'
<1> USE ServicesAssumption DEF CacheInv
<1> DEFINE n == request[t].size
           bytes == L!Bytes
<1>1. /\ request[t].stage = "allot" /\ p \notin DOMAIN allotted /\ L!Leave(t) /\ inited' = inited
      /\ allotted' = [q \in DOMAIN allotted \cup {p} |-> IF q = p THEN n ELSE allotted[q]]
      /\ allocated' = (allocated + n) % Word
  BY DEF L!LCAlloc, L!In
<1>2. holder = t /\ n \in Nat /\ allocated + n <= CacheSize /\ allocated \in Nat
  BY <1>1, SMTT(60) DEF OneHolder, InLock, Fits, CacheTypeOK, RequestType, RequestSize
<1>3. p \notin DOMAIN allotted /\ DOMAIN allotted' = DOMAIN allotted \cup {p} /\ allotted'[p] = n
      /\ \A q \in DOMAIN allotted : allotted'[q] = allotted[q]
  BY <1>1
<1>4. L!Bytes' = bytes \cup BytesOf(p, n) /\ bytes \cap BytesOf(p, n) = {}
  BY <1>3, OneBlockMore DEF L!Bytes, BytesIn, BytesOf
<1> HIDE DEF bytes, n
<1>5. allocated' = allocated + n /\ allocated' \in Nat
  <2>1. allocated + n \in 0..Word - 1
    BY <1>2, SMTT(60)
  <2>2. (allocated + n) % Word = allocated + n
    BY <2>1, NoWrap, SMTT(60)
  <2> QED BY <1>1, <2>1, <2>2
<1>6. IsFiniteSet(bytes) /\ Cardinality(bytes) = allocated
  BY DEF bytes
<1>7. IsFiniteSet(bytes \cup BytesOf(p, n)) /\ Cardinality(bytes \cup BytesOf(p, n)) = allocated + n
  BY <1>2, <1>4, <1>6, MoreBytes, ZenonT(60)
<1>8. /\ request' \in [Thread -> RequestType] /\ holder' \in Thread \cup {NoThread}
      /\ request'[t].stage = "idle" /\ request'[t].addr = NoThread
      /\ \A u \in Thread \ {t} : request'[u] = request[u] /\ request[u].stage \notin InLock
      /\ OneHolder' /\ FirstAlone'
  BY <1>1, <1>2, LeaveKeeps
<1>9. \A q \in DOMAIN allotted' : allotted'[q] \in Nat
  BY <1>2, <1>3 DEF CacheTypeOK
<1>10. CacheTypeOK'
  BY <1>1, <1>3, <1>5, <1>8, <1>9 DEF CacheTypeOK
<1>11. Fits'
  BY <1>8 DEF Fits, InLock
<1>12. OwnBlock'
  BY <1>3, <1>8 DEF OwnBlock, InLock
<1> QED BY <1>2, <1>4, <1>5, <1>7, <1>8, <1>10, <1>11, <1>12

\* A block that is freed gives back what it took, and nobody else's call has it.
LEMMA DeallocKeeps ==
  ASSUME CacheInv, NEW t \in Thread, L!LCDealloc(t)
  PROVE  CacheInv'
<1> USE ServicesAssumption DEF CacheInv
<1> DEFINE p == request[t].addr
           n == allotted[p]
           rest == L!Bytes'
<1>1. /\ request[t].stage = "free" /\ L!Leave(t) /\ inited' = inited
      /\ allotted' = [q \in DOMAIN allotted \ {p} |-> allotted[q]]
      /\ allocated' = (allocated - n) % Word
  BY DEF L!LCDealloc, L!In
<1>2. holder = t /\ p \in DOMAIN allotted /\ n \in Nat /\ allocated \in Nat
      /\ \A u \in Thread \ {t} : request[u].addr # p
  BY <1>1 DEF OneHolder, InLock, OwnBlock, CacheTypeOK
<1>3. p \notin DOMAIN allotted' /\ DOMAIN allotted = DOMAIN allotted' \cup {p}
      /\ \A q \in DOMAIN allotted' : allotted[q] = allotted'[q]
  BY <1>1, <1>2
<1>4. L!Bytes = rest \cup BytesOf(p, n) /\ rest \cap BytesOf(p, n) = {}
  BY <1>3, OneBlockMore DEF L!Bytes, BytesIn, BytesOf
<1> HIDE DEF rest
<1>5. IsFiniteSet(rest)
  <2>1. rest \in SUBSET L!Bytes
    BY <1>4
  <2> QED BY <2>1, FS_Subset
<1>6. allocated = Cardinality(rest) + n /\ Cardinality(rest) \in Nat
  BY <1>2, <1>4, <1>5, MoreBytes
<1> HIDE DEF n
<1>7. allocated' = Cardinality(rest) /\ Cardinality(rest) <= CacheSize
  <2>1. allocated - n = Cardinality(rest) /\ Cardinality(rest) <= CacheSize
    BY <1>2, <1>6, SMTT(60)
  <2>2. Cardinality(rest) \in 0..Word - 1
    BY <1>6, <2>1
  <2>3. Cardinality(rest) % Word = Cardinality(rest)
    BY <2>2, NoWrap
  <2> QED BY <1>1, <2>1, <2>3
<1>8. /\ request' \in [Thread -> RequestType] /\ holder' \in Thread \cup {NoThread}
      /\ request'[t].stage = "idle" /\ request'[t].addr = NoThread
      /\ \A u \in Thread \ {t} : request'[u] = request[u] /\ request[u].stage \notin InLock
      /\ OneHolder' /\ FirstAlone'
  BY <1>1, <1>2, LeaveKeeps
<1> HIDE DEF p
<1>9. DOMAIN allotted' = DOMAIN allotted \ {p} /\ \A q \in DOMAIN allotted' : allotted'[q] \in Nat
  BY <1>1 DEF CacheTypeOK
<1>10. CacheTypeOK'
  BY <1>1, <1>6, <1>7, <1>8, <1>9 DEF CacheTypeOK
<1>11. Fits'
  BY <1>8, SMTT(60) DEF Fits, InLock
<1>12. OwnBlock'
  BY <1>2, <1>8, <1>9, SMTT(60) DEF OwnBlock, InLock
<1> QED BY <1>5, <1>7, <1>8, <1>10, <1>11, <1>12 DEF rest

\* A refused allocation changes nothing.
LEMMA RefuseKeeps ==
  ASSUME CacheInv, NEW t \in Thread, L!Refuse(t)
  PROVE  CacheInv'
<1> USE ServicesAssumption DEF CacheInv
<1>1. request[t].stage = "leave" /\ L!Leave(t) /\ UNCHANGED <<allotted, allocated, inited>>
  BY DEF L!Refuse, L!In
<1>2. holder = t
  BY <1>1 DEF OneHolder, InLock
<1>3. /\ request' \in [Thread -> RequestType] /\ holder' \in Thread \cup {NoThread}
      /\ request'[t].stage = "idle" /\ request'[t].addr = NoThread
      /\ \A u \in Thread \ {t} : request'[u] = request[u] /\ request[u].stage \notin InLock
      /\ OneHolder' /\ FirstAlone'
  BY <1>1, <1>2, LeaveKeeps
<1>4. CacheTypeOK' /\ L!Bytes' = L!Bytes
  BY <1>1, <1>3 DEF CacheTypeOK, L!Bytes
<1>5. Fits'
  BY <1>3 DEF Fits, InLock
<1>6. OwnBlock'
  BY <1>1, <1>3 DEF OwnBlock, InLock
<1> QED BY <1>1, <1>3, <1>4, <1>5, <1>6

\* Nothing is handed out at the start.
LEMMA CacheStart ==
  ASSUME L!CacheInit
  PROVE  CacheInv
<1> USE ServicesAssumption DEF L!CacheInit
<1>1. L!NoRequest \in RequestType /\ L!NoRequest.stage = "idle" /\ L!NoRequest.addr = NoThread
  BY DEF L!NoRequest, RequestType, RequestStage, RequestSize, RequestAddr
<1>2. \A t \in Thread : request[t] = L!NoRequest
  OBVIOUS
<1>3. DOMAIN allotted = {}
  OBVIOUS
<1>4. CacheTypeOK
  BY <1>1, <1>3 DEF CacheTypeOK
<1>5. OneHolder /\ FirstAlone /\ Fits /\ OwnBlock
  BY <1>1, <1>2 DEF OneHolder, FirstAlone, Fits, OwnBlock, InLock
<1>6. L!Bytes = {}
  BY <1>3 DEF L!Bytes
<1> QED BY <1>4, <1>5, <1>6, FS_EmptySet DEF CacheInv

\* Every step of a call keeps the budget.
LEMMA CacheKeeps ==
  ASSUME CacheInv, L!CacheNext \/ UNCHANGED cacheVars
  PROVE  CacheInv'
<1>1. CASE L!CacheNext
  <2>1. PICK t \in Thread :
          \/ \E size \in Sizes : L!Enter(t, size, NoThread)
          \/ \E p \in Address : L!Enter(t, 0, p)
          \/ L!InitLock(t) \/ L!Lock(t) \/ L!TestBudget(t) \/ L!Refuse(t) \/ L!LCDealloc(t)
          \/ \E p \in Address : L!LCAlloc(t, p)
    BY <1>1 DEF L!CacheNext
  <2>2. Sizes \subseteq 0..Word - 1 /\ 0 \in 0..Word - 1 /\ NoThread \in RequestAddr /\ Address \subseteq RequestAddr
    BY ServicesAssumption DEF RequestAddr
  <2>3. (\E size \in Sizes : L!Enter(t, size, NoThread)) => CacheInv'
    BY <2>2, EnterKeeps
  <2>4. (\E p \in Address : L!Enter(t, 0, p)) => CacheInv'
    BY <2>2, EnterKeeps
  <2> QED BY <2>1, <2>3, <2>4, AdmitKeeps, RefuseKeeps, DeallocKeeps, AllocKeeps
<1>2. CASE UNCHANGED cacheVars
  BY <1>2 DEF cacheVars, CacheInv, CacheTypeOK, OneHolder, FirstAlone, Fits, OwnBlock, L!Bytes
<1> QED BY <1>1, <1>2
------------------------------------------------------------------------------
\* The default heap.  A block that the guest has, or that a call is about to free, is
\* in use in a heap that exists, and nobody else has it.
GuestBlock == [heap : H!Heap, block : Block]
Built == claimed \cup {GuestHeap}
VisitType == [stage : {"none", "build", "use"}, heap : H!Heap \cup {NoRegion}, free : SUBSET GuestBlock]

HeapTypeOK ==
  /\ claimed \subseteq Region /\ baseHeap \in Built \cup {NoRegion}
  /\ taken \in [H!Heap -> SUBSET Block] /\ owned \subseteq GuestBlock
  /\ visit \in [Pair -> VisitType]

InUse(x) == x.heap \in Built /\ x.block \in taken[x.heap]

HeapInv ==
  /\ HeapTypeOK
  /\ \A x \in owned : InUse(x)
  /\ \A t \in Pair :
       /\ visit[t].stage = "use" => visit[t].heap \in Built
       /\ \A x \in visit[t].free : InUse(x) /\ x \notin owned
  /\ \A t, u \in Pair : t # u => visit[t].free \cap visit[u].free = {}

\* A call that asks for the base heap takes the block it is to free out of use.
LEMMA CallKeeps ==
  ASSUME HeapInv, NEW t \in Pair, NEW free \in SUBSET owned, H!Call(t, free)
  PROVE  HeapInv'
<1> USE ServicesAssumption DEF HeapInv
<1> DEFINE new == [stage |-> IF baseHeap = NoRegion THEN "build" ELSE "use", heap |-> baseHeap, free |-> free]
<1>1. visit' = [visit EXCEPT ![t] = new] /\ owned' = owned \ free /\ UNCHANGED <<baseHeap, claimed, taken>>
  BY DEF H!Call, H!Goes
<1>2. new \in VisitType /\ new.free = free /\ new.heap = baseHeap /\ (new.stage = "use" => baseHeap \in Built)
  <2>1. baseHeap \in H!Heap \cup {NoRegion} /\ free \in SUBSET GuestBlock
    BY DEF HeapTypeOK, Built, H!Heap
  <2>2. baseHeap # NoRegion => baseHeap \in Built
    BY DEF HeapTypeOK
  <2> QED BY <2>1, <2>2 DEF VisitType
<1> HIDE DEF new
<1>3. visit' \in [Pair -> VisitType] /\ visit'[t] = new /\ \A u \in Pair \ {t} : visit'[u] = visit[u]
  BY <1>1, <1>2 DEF HeapTypeOK
<1>4. Built' = Built /\ \A x : InUse(x)' <=> InUse(x)
  BY <1>1 DEF Built, InUse
<1>5. HeapTypeOK'
  BY <1>1, <1>3, <1>4 DEF HeapTypeOK
<1>6. \A x \in owned' : InUse(x)'
  BY <1>1, <1>4
<1>7. ASSUME NEW u \in Pair
      PROVE  /\ visit'[u].stage = "use" => visit'[u].heap \in Built
             /\ \A x \in visit'[u].free : InUse(x) /\ x \notin owned'
  <2>1. CASE u = t
    BY <1>1, <1>2, <1>3, <2>1
  <2>2. CASE u # t
    BY <1>1, <1>3, <2>2
  <2> QED BY <2>1, <2>2
<1>8. \A u, v \in Pair : u # v => visit'[u].free \cap visit'[v].free = {}
  BY <1>2, <1>3
<1> QED BY <1>4, <1>5, <1>6, <1>7, <1>8

\* A call that is over holds no block, and nothing else changes for the others.
LEMMA Returned ==
  ASSUME HeapTypeOK, NEW t \in Pair, visit' = [visit EXCEPT ![t] = H!NoVisit]
  PROVE  /\ visit' \in [Pair -> VisitType] /\ visit'[t].stage = "none" /\ visit'[t].free = {}
         /\ \A u \in Pair \ {t} : visit'[u] = visit[u]
<1>1. H!NoVisit \in VisitType /\ H!NoVisit.stage = "none" /\ H!NoVisit.free = {}
  BY DEF H!NoVisit, VisitType
<1> QED BY <1>1 DEF HeapTypeOK

\* The heap is built in memory that no heap has.
LEMMA BuildKeeps ==
  ASSUME HeapInv, NEW t \in Pair, H!Build(t)
  PROVE  HeapInv'
<1> USE ServicesAssumption DEF HeapInv
<1>1. PICK r \in Region \ claimed :
        /\ claimed' = claimed \cup {r} /\ baseHeap' = r /\ taken' = [taken EXCEPT ![r] = {}] /\ owned' = owned
        /\ visit' = [visit EXCEPT ![t] = [stage |-> "use", heap |-> r, free |-> visit[t].free]]
  BY DEF H!Build, H!Goes
<1> DEFINE new == [stage |-> "use", heap |-> r, free |-> visit[t].free]
<1>2. new \in VisitType /\ new.heap = r /\ new.free = visit[t].free
  BY DEF HeapTypeOK, VisitType, H!Heap
<1> HIDE DEF new
<1>3. visit' \in [Pair -> VisitType] /\ visit'[t] = new /\ \A u \in Pair \ {t} : visit'[u] = visit[u]
  BY <1>1, <1>2 DEF HeapTypeOK, new
<1>4. r \notin Built /\ Built' = Built \cup {r} /\ r \in H!Heap
  BY <1>1 DEF Built, H!Heap
<1>5. taken' \in [H!Heap -> SUBSET Block] /\ \A h \in H!Heap \ {r} : taken'[h] = taken[h]
  BY <1>1, <1>4 DEF HeapTypeOK
<1>6. ASSUME NEW x, InUse(x) PROVE InUse(x)'
  <2>1. x.heap \in Built /\ x.heap # r /\ x.heap \in H!Heap
    BY <1>4, <1>6 DEF InUse, Built, HeapTypeOK, H!Heap
  <2>2. x.heap \in Built' /\ taken'[x.heap] = taken[x.heap]
    BY <1>4, <1>5, <2>1
  <2> QED BY <1>6, <2>2 DEF InUse
<1>7. HeapTypeOK'
  BY <1>1, <1>3, <1>4, <1>5 DEF HeapTypeOK
<1>8. \A u \in Pair : visit'[u].free = visit[u].free /\ (visit'[u].stage = "use" => visit'[u].heap \in Built')
  BY <1>2, <1>3, <1>4
<1> QED BY <1>1, <1>6, <1>7, <1>8

\* An allocation hands out a block that was not in use.
LEMMA AllocBlockKeeps ==
  ASSUME HeapInv, NEW t \in Pair, NEW b \in Block, H!Alloc(t, b)
  PROVE  HeapInv'
<1> USE ServicesAssumption DEF HeapInv
<1> DEFINE h == visit[t].heap
           new == [heap |-> h, block |-> b]
<1>1. /\ visit[t].stage = "use" /\ b \notin taken[h] /\ taken' = [taken EXCEPT ![h] = @ \cup {b}]
      /\ owned' = owned \cup {new} /\ visit' = [visit EXCEPT ![t] = H!NoVisit] /\ UNCHANGED <<baseHeap, claimed>>
  BY DEF H!Alloc
<1>2. h \in Built /\ h \in H!Heap
  BY <1>1 DEF Built, HeapTypeOK, H!Heap
<1>3. new \in GuestBlock /\ new.heap = h /\ new.block = b
  BY <1>2 DEF GuestBlock
<1>4. /\ visit' \in [Pair -> VisitType] /\ visit'[t].stage = "none" /\ visit'[t].free = {}
      /\ \A u \in Pair \ {t} : visit'[u] = visit[u]
  BY <1>1, Returned
<1> HIDE DEF h, new
<1>5. taken' \in [H!Heap -> SUBSET Block] /\ taken'[h] = taken[h] \cup {b}
      /\ \A k \in H!Heap \ {h} : taken'[k] = taken[k]
  BY <1>1, <1>2 DEF HeapTypeOK
<1>6. Built' = Built /\ Built \subseteq H!Heap
  BY <1>1 DEF Built, HeapTypeOK, H!Heap
<1>7. ASSUME NEW x, InUse(x) PROVE InUse(x)' /\ x # new
  <2>1. x.heap \in Built /\ x.heap \in H!Heap /\ x.block \in taken[x.heap]
    BY <1>6, <1>7 DEF InUse
  <2>2. x.block \in taken'[x.heap]
    BY <1>5, <2>1
  <2> QED BY <1>1, <1>3, <1>6, <2>1, <2>2 DEF InUse
<1>8. HeapTypeOK'
  BY <1>1, <1>3, <1>4, <1>5, <1>6 DEF HeapTypeOK
<1>9. ASSUME NEW x, x = new PROVE InUse(x)'
  BY <1>2, <1>3, <1>5, <1>6, <1>9 DEF InUse
<1>10. \A x \in owned' : InUse(x)'
  BY <1>1, <1>7, <1>9
<1>11. ASSUME NEW u \in Pair
       PROVE  /\ visit'[u].stage = "use" => visit'[u].heap \in Built'
              /\ \A x \in visit'[u].free : InUse(x)' /\ x \notin owned'
  BY <1>1, <1>4, <1>6, <1>7
<1>12. \A u, v \in Pair : u # v => visit'[u].free \cap visit'[v].free = {}
  BY <1>4
<1> QED BY <1>8, <1>10, <1>11, <1>12

\* A block that is freed is its last owner's alone.
LEMMA FreeBlockKeeps ==
  ASSUME HeapInv, NEW t \in Pair, H!Free(t)
  PROVE  HeapInv'
<1> USE ServicesAssumption DEF HeapInv
<1> DEFINE h == visit[t].heap
           free == visit[t].free
           gone == {x.block : x \in {y \in free : y.heap = h}}
<1>1. /\ visit[t].stage = "use" /\ taken' = [taken EXCEPT ![h] = @ \ gone]
      /\ visit' = [visit EXCEPT ![t] = H!NoVisit] /\ UNCHANGED <<baseHeap, claimed, owned>>
  BY DEF H!Free
<1>2. h \in H!Heap /\ Built' = Built /\ Built \subseteq H!Heap
  BY <1>1 DEF Built, HeapTypeOK, H!Heap
<1>3. /\ visit' \in [Pair -> VisitType] /\ visit'[t].stage = "none" /\ visit'[t].free = {}
      /\ \A u \in Pair \ {t} : visit'[u] = visit[u]
  BY <1>1, Returned
<1>4. free \in SUBSET GuestBlock
  BY DEF HeapTypeOK, VisitType
<1>5. \A b \in gone : \E y \in free : y.heap = h /\ y.block = b
  OBVIOUS
<1> HIDE DEF h, gone
<1>6. taken' \in [H!Heap -> SUBSET Block] /\ taken'[h] = taken[h] \ gone
      /\ \A k \in H!Heap \ {h} : taken'[k] = taken[k]
  BY <1>1, <1>2 DEF HeapTypeOK
<1>7. ASSUME NEW x \in GuestBlock, InUse(x), x \notin free PROVE InUse(x)'
  <2>1. x.heap \in Built /\ x.heap \in H!Heap /\ x.block \in taken[x.heap]
    BY <1>2, <1>7 DEF InUse
  <2>2. x.heap = h => x.block \notin gone
    <3> SUFFICES ASSUME x.heap = h, x.block \in gone PROVE FALSE
      OBVIOUS
    <3>1. PICK y \in free : y.heap = h /\ y.block = x.block
      BY <1>5
    <3>2. y = x
      BY <1>4, <3>1 DEF GuestBlock
    <3> QED BY <1>7, <3>2
  <2>3. x.block \in taken'[x.heap]
    BY <1>6, <2>1, <2>2
  <2> QED BY <1>2, <2>1, <2>3 DEF InUse
<1>8. HeapTypeOK'
  BY <1>1, <1>2, <1>3, <1>6 DEF HeapTypeOK
<1>9. \A x \in owned' : InUse(x)'
  BY <1>1, <1>7 DEF HeapTypeOK
<1>10. ASSUME NEW u \in Pair
       PROVE  /\ visit'[u].stage = "use" => visit'[u].heap \in Built'
              /\ \A x \in visit'[u].free : InUse(x)' /\ x \notin owned'
  <2>1. CASE u = t
    BY <1>3, <2>1
  <2>2. CASE u # t
    <3>1. visit'[u] = visit[u] /\ visit[u].free \cap free = {} /\ visit[u].free \in SUBSET GuestBlock
      BY <1>3, <2>2 DEF HeapTypeOK, VisitType
    <3> QED BY <1>1, <1>2, <1>7, <3>1
  <2> QED BY <2>1, <2>2
<1>11. \A u, v \in Pair : u # v => visit'[u].free \cap visit'[v].free = {}
  BY <1>3
<1> QED BY <1>8, <1>9, <1>10, <1>11

\* A call that fails, or another base heap, leaves the blocks as they are.
LEMMA NoBlockKeeps ==
  ASSUME HeapInv, NEW t \in Pair,
         \/ H!OutOfMemory(t) \/ H!AllocFails(t)
         \/ \E h \in claimed \cup {GuestHeap, NoRegion} : H!SetBase(t, h)
  PROVE  HeapInv'
<1> USE ServicesAssumption DEF HeapInv
<1>1. UNCHANGED <<claimed, taken, owned>> /\ baseHeap' \in Built \cup {NoRegion}
  BY DEF H!OutOfMemory, H!AllocFails, H!SetBase, HeapTypeOK, Built
<1>2. Built' = Built /\ \A x : InUse(x)' <=> InUse(x)
  BY <1>1 DEF Built, InUse
<1>3. CASE visit' = visit
  BY <1>1, <1>2, <1>3 DEF HeapTypeOK
<1>4. CASE visit' = [visit EXCEPT ![t] = H!NoVisit]
  <2>1. /\ visit' \in [Pair -> VisitType] /\ visit'[t].stage = "none" /\ visit'[t].free = {}
        /\ \A u \in Pair \ {t} : visit'[u] = visit[u]
    BY <1>4, Returned
  <2>2. HeapTypeOK'
    BY <1>1, <1>2, <2>1 DEF HeapTypeOK
  <2> QED BY <1>1, <1>2, <2>1, <2>2, SMTT(60)
<1>5. visit' = visit \/ visit' = [visit EXCEPT ![t] = H!NoVisit]
  BY DEF H!OutOfMemory, H!AllocFails, H!SetBase
<1> QED BY <1>3, <1>4, <1>5

\* There is no heap at the start, and the guest has no block.
LEMMA HeapsStart ==
  ASSUME H!BaseInit
  PROVE  HeapInv
<1> USE DEF H!BaseInit
<1>1. H!NoVisit \in VisitType /\ H!NoVisit.stage = "none" /\ H!NoVisit.free = {}
  BY DEF H!NoVisit, VisitType
<1>2. \A t \in Pair : visit[t] = H!NoVisit
  OBVIOUS
<1>3. HeapTypeOK
  BY <1>1 DEF HeapTypeOK
<1> QED BY <1>1, <1>2, <1>3 DEF HeapInv

\* Every call keeps the blocks that are handed out.
LEMMA HeapsKeep ==
  ASSUME HeapInv, H!BaseNext \/ UNCHANGED heapVars
  PROVE  HeapInv'
<1>1. CASE H!BaseNext
  <2>1. PICK t \in Pair :
          \/ H!Call(t, {}) \/ \E x \in owned : H!Call(t, {x})
          \/ H!Build(t) \/ H!OutOfMemory(t) \/ H!AllocFails(t) \/ H!Free(t)
          \/ \E b \in Block : H!Alloc(t, b)
          \/ \E h \in claimed \cup {GuestHeap, NoRegion} : H!SetBase(t, h)
    BY <1>1 DEF H!BaseNext
  <2>2. H!Call(t, {}) => HeapInv'
    BY CallKeeps
  <2>3. (\E x \in owned : H!Call(t, {x})) => HeapInv'
    BY CallKeeps
  <2> QED BY <2>1, <2>2, <2>3, BuildKeeps, AllocBlockKeeps, FreeBlockKeeps, NoBlockKeeps
<1>2. CASE UNCHANGED heapVars
  BY <1>2 DEF heapVars, HeapInv, HeapTypeOK, Built, InUse
<1> QED BY <1>1, <1>2
------------------------------------------------------------------------------
\* The loader.  A slot in use counts the references to its library, and is the one
\* that the library's handle names; a library that is held has such a slot.
ModuleName == Library \cup {NoLibrary}
ModuleType == [name : ModuleName, refCount : Nat]
HeldCount == 0..MaxHeld

LoadTypeOK ==
  /\ modules \in [M!Module -> ModuleType] /\ held \in [Pair -> [Library -> HeldCount]]
  /\ handle \in [Library -> 0..MaxModules] /\ finding \in [Pair -> ModuleName]

Counted ==
  \A i \in M!Module : modules[i].refCount > 0 =>
    /\ modules[i].name \in Library /\ handle[modules[i].name] = i
    /\ modules[i].refCount = Cardinality(M!References(modules[i].name))

HeldLoaded ==
  \A t \in Pair, l \in Library : held[t][l] > 0 =>
    /\ handle[l] \in M!Module
    /\ modules[handle[l]].name = l /\ modules[handle[l]].refCount > 0

FindingHeld == \A t \in Pair : finding[t] # NoLibrary => held[t][finding[t]] > 0

LoadInv == LoadTypeOK /\ Counted /\ HeldLoaded /\ FindingHeld

RefsOf(h) == {r \in Pair \X (1..MaxHeld) : r[2] <= h[r[1]]}

\* The references that a guest can hold are finitely many.
LEMMA RefsFinite ==
  ASSUME NEW h
  PROVE  IsFiniteSet(RefsOf(h))
<1>1. IsFiniteSet(Pair)
  BY ServicesAssumption, FS_Subset
<1>2. IsFiniteSet(1..MaxHeld)
  BY ServicesAssumption, FS_Interval
<1>3. IsFiniteSet(Pair \X (1..MaxHeld))
  BY <1>1, <1>2, FS_Product
<1> QED BY <1>3, FS_Subset DEF RefsOf

\* One thread's reference more is one more.
LEMMA OneReferenceMore ==
  ASSUME NEW h \in [Pair -> HeldCount], NEW k \in [Pair -> HeldCount], NEW t \in Pair,
         k[t] = h[t] + 1, \A u \in Pair \ {t} : k[u] = h[u]
  PROVE  Cardinality(RefsOf(k)) = Cardinality(RefsOf(h)) + 1 /\ Cardinality(RefsOf(h)) \in Nat
<1> DEFINE r == <<t, k[t]>>
<1>1. h[t] \in 0..MaxHeld /\ k[t] \in 1..MaxHeld
  BY ServicesAssumption DEF HeldCount
<1>2. r \notin RefsOf(h)
  BY <1>1 DEF RefsOf
<1>3. ASSUME NEW x \in Pair \X (1..MaxHeld) PROVE x \in RefsOf(k) <=> x \in RefsOf(h) \cup {r}
  <2>1. x[1] \in Pair /\ x[2] \in 1..MaxHeld /\ x = <<x[1], x[2]>>
    OBVIOUS
  <2>2. CASE x[1] = t
    <3>1. x[2] <= k[t] <=> x[2] <= h[t] \/ x[2] = k[t]
      BY <1>1, <2>1
    <3>2. x = r <=> x[2] = k[t]
      BY <2>1, <2>2
    <3> QED BY <2>1, <2>2, <3>1, <3>2 DEF RefsOf
  <2>3. CASE x[1] # t
    <3>1. x # r /\ k[x[1]] = h[x[1]]
      BY <2>1, <2>3
    <3> QED BY <2>1, <3>1 DEF RefsOf
  <2> QED BY <2>2, <2>3
<1>4. RefsOf(k) = RefsOf(h) \cup {r}
  <2>1. r \in Pair \X (1..MaxHeld)
    BY <1>1
  <2>2. RefsOf(k) \subseteq Pair \X (1..MaxHeld) /\ RefsOf(h) \subseteq Pair \X (1..MaxHeld)
    BY DEF RefsOf
  <2> QED BY <1>3, <2>1, <2>2
<1> HIDE DEF r
<1>5. IsFiniteSet(RefsOf(h)) /\ Cardinality(RefsOf(h)) \in Nat
  BY RefsFinite, FS_CardinalityType
<1>6. Cardinality(RefsOf(h) \cup {r}) = Cardinality(RefsOf(h)) + 1
  BY <1>2, <1>5, FS_AddElement
<1> QED BY <1>4, <1>5, <1>6

HeldOf(l) == [t \in Pair |-> held[t][l]]

\* References are counted thread by thread.
LEMMA ReferencesAre ==
  ASSUME NEW l
  PROVE  M!References(l) = RefsOf(HeldOf(l))
BY DEF M!References, RefsOf, HeldOf

\* The same of the next state.
LEMMA ReferencesNext ==
  ASSUME NEW l
  PROVE  M!References(l)' = RefsOf(HeldOf(l)')
BY DEF M!References, RefsOf, HeldOf

\* A module with another count is a module.
LEMMA StillModule ==
  ASSUME NEW r \in ModuleType, NEW n \in Nat
  PROVE  [r EXCEPT !.refCount = n] \in ModuleType
         /\ [r EXCEPT !.refCount = n].name = r.name /\ [r EXCEPT !.refCount = n].refCount = n
BY DEF ModuleType

\* A reference to a library is counted in its slot, or in a free one.
LEMMA AcquireKeeps ==
  ASSUME LoadInv, NEW t \in Pair, NEW l \in Library, M!Acquire(t, l)
  PROVE  LoadInv'
<1> USE ServicesAssumption DEF LoadInv
<1> DEFINE used == M!SlotsOf(l)
           free == M!FreeSlots
           i == IF used # {} THEN M!Min(used) ELSE M!Min(free)
           new == [name |-> l, refCount |-> modules[i].refCount + 1]
<1>1. /\ held[t][l] < MaxHeld /\ (used # {} \/ free # {}) /\ finding' = finding
      /\ modules' = [modules EXCEPT ![i] = new] /\ handle' = [handle EXCEPT ![l] = i]
      /\ held' = [held EXCEPT ![t] = [held[t] EXCEPT ![l] = held[t][l] + 1]]
  BY DEF M!Acquire
<1>2. i \in used \/ (used = {} /\ i \in free)
  <2>1. used \in SUBSET Nat /\ free \in SUBSET Nat
    BY SMTT(60) DEF M!SlotsOf, M!FreeSlots, M!Module
  <2>2. used # {} => F!Min(used) \in used
    BY <2>1, MinIs
  <2>3. free # {} => F!Min(free) \in free
    BY <2>1, MinIs
  <2> QED BY <1>1, <2>2, <2>3 DEF M!Min, F!Min
<1> HIDE DEF i
<1>3. i \in M!Module /\ modules[i] \in ModuleType /\ modules[i].refCount \in Nat
  BY <1>2 DEF M!SlotsOf, M!FreeSlots, LoadTypeOK, ModuleType
<1>4. new \in ModuleType /\ new.name = l /\ new.refCount = modules[i].refCount + 1 /\ new.refCount > 0
  BY <1>3, SMTT(60) DEF ModuleType, ModuleName
<1> HIDE DEF new
<1>5. modules' \in [M!Module -> ModuleType] /\ modules'[i] = new /\ \A j \in M!Module \ {i} : modules'[j] = modules[j]
  BY <1>1, <1>3, <1>4 DEF LoadTypeOK
<1>6. handle' \in [Library -> 0..MaxModules] /\ handle'[l] = i /\ \A k \in Library \ {l} : handle'[k] = handle[k]
  BY <1>1, <1>3 DEF LoadTypeOK, M!Module
<1>7. held[t] \in [Library -> HeldCount] /\ held[t][l] + 1 \in HeldCount
  BY <1>1 DEF LoadTypeOK, HeldCount
<1>8. /\ held' \in [Pair -> [Library -> HeldCount]] /\ held'[t][l] = held[t][l] + 1
      /\ \A u \in Pair, k \in Library : u # t \/ k # l => held'[u][k] = held[u][k]
  BY <1>1, <1>7 DEF LoadTypeOK
<1>9. Cardinality(M!References(l)') = Cardinality(M!References(l)) + 1 /\ Cardinality(M!References(l)) \in Nat
  <2>1. HeldOf(l) \in [Pair -> HeldCount] /\ HeldOf(l)' \in [Pair -> HeldCount]
    BY <1>8 DEF HeldOf, LoadTypeOK
  <2>2. HeldOf(l)'[t] = HeldOf(l)[t] + 1 /\ \A u \in Pair \ {t} : HeldOf(l)'[u] = HeldOf(l)[u]
    BY <1>8 DEF HeldOf
  <2>3. Cardinality(RefsOf(HeldOf(l)')) = Cardinality(RefsOf(HeldOf(l))) + 1 /\ Cardinality(RefsOf(HeldOf(l))) \in Nat
    BY <2>1, <2>2, OneReferenceMore
  <2> QED BY <2>3, ReferencesAre, ReferencesNext
<1>10. ASSUME NEW k \in Library, k # l PROVE M!References(k)' = M!References(k)
  <2>1. HeldOf(k)' = HeldOf(k)
    BY <1>8, <1>10 DEF HeldOf, LoadTypeOK
  <2> QED BY <2>1, ReferencesAre, ReferencesNext
<1>11. used = {} => Cardinality(M!References(l)) = 0
  <2> SUFFICES ASSUME used = {} PROVE M!References(l) = {}
    BY FS_EmptySet
  <2>1. ASSUME NEW u \in Pair PROVE held[u][l] = 0
    <3>1. ~(held[u][l] > 0)
      BY DEF HeldLoaded, M!SlotsOf
    <3> QED BY <3>1 DEF LoadTypeOK, HeldCount
  <2> QED BY <2>1, SMTT(60) DEF M!References
<1>12. new.refCount = Cardinality(M!References(l)')
  <2>1. CASE i \in used
    BY <1>3, <1>4, <1>9, <2>1 DEF Counted, M!SlotsOf
  <2>2. CASE used = {} /\ i \in free
    BY <1>4, <1>9, <1>11, <2>2 DEF M!FreeSlots
  <2> QED BY <1>2, <2>1, <2>2
<1>13. ASSUME NEW j \in M!Module \ {i}, modules[j].refCount > 0 PROVE modules[j].name # l
  <2> SUFFICES ASSUME modules[j].name = l PROVE FALSE
    OBVIOUS
  <2>1. j \in used
    BY <1>13 DEF M!SlotsOf
  <2>2. i \in used
    BY <1>2, <2>1
  <2> QED BY <1>13, <2>1, <2>2 DEF Counted, M!SlotsOf
<1> HIDE DEF used, free
<1>14. LoadTypeOK'
  BY <1>1, <1>5, <1>6, <1>8 DEF LoadTypeOK
<1>15. Counted'
  <2> SUFFICES ASSUME NEW j \in M!Module, modules'[j].refCount > 0
               PROVE  /\ modules'[j].name \in Library /\ handle'[modules'[j].name] = j
                      /\ modules'[j].refCount = Cardinality(M!References(modules[j].name)')
    BY DEF Counted
  <2>3. PICK k : k = modules'[j].name
    OBVIOUS
  <2>4. M!References(modules[j].name)' = M!References(k)'
    BY <2>3 DEF M!References
  <2> SUFFICES k \in Library /\ handle'[k] = j /\ modules'[j].refCount = Cardinality(M!References(k)')
    BY <2>3, <2>4
  <2>1. CASE j = i
    BY <1>4, <1>5, <1>6, <1>12, <2>1, <2>3
  <2>2. CASE j # i
    <3>1. modules'[j] = modules[j] /\ modules[j].name = k /\ k # l
      BY <1>5, <1>13, <2>2, <2>3
    <3>2. k \in Library /\ handle[k] = j /\ modules[j].refCount = Cardinality(M!References(k))
      BY <3>1 DEF Counted
    <3> QED BY <1>6, <1>10, <3>1, <3>2
  <2> QED BY <2>1, <2>2
<1>16. HeldLoaded'
  <2> SUFFICES ASSUME NEW u \in Pair, NEW k \in Library, held'[u][k] > 0
               PROVE  handle'[k] \in M!Module /\ modules'[handle'[k]].name = k /\ modules'[handle'[k]].refCount > 0
    BY DEF HeldLoaded
  <2>1. CASE k = l
    BY <1>3, <1>4, <1>5, <1>6, <2>1
  <2>2. CASE k # l
    <3>1. held[u][k] > 0 /\ handle'[k] = handle[k]
      BY <1>6, <1>8, <2>2
    <3>2. handle[k] \in M!Module /\ modules[handle[k]].name = k /\ modules[handle[k]].refCount > 0
      BY <3>1 DEF HeldLoaded
    <3>3. handle[k] # i
      BY <1>2, <2>2, <3>2 DEF used, free, M!SlotsOf, M!FreeSlots
    <3> QED BY <1>5, <3>1, <3>2, <3>3
  <2> QED BY <2>1, <2>2
<1>17. FindingHeld'
  <2> SUFFICES ASSUME NEW u \in Pair, finding[u] # NoLibrary PROVE held'[u][finding[u]] > 0
    BY <1>1 DEF FindingHeld
  <2>1. finding[u] \in Library /\ held[u][finding[u]] > 0
    BY DEF FindingHeld, LoadTypeOK, ModuleName
  <2>2. held[t][l] \in Nat
    BY <1>7 DEF HeldCount
  <2> QED BY <1>8, <2>1, <2>2
<1> QED BY <1>14, <1>15, <1>16, <1>17

\* A reference that is given back is counted no more, and the slot is free when it
\* was the last.
LEMMA ReleaseKeeps ==
  ASSUME LoadInv, NEW t \in Pair, NEW l \in Library, M!Release(t, l)
  PROVE  LoadInv'
<1> USE ServicesAssumption DEF LoadInv
<1> DEFINE i == handle[l]
           n == modules[i].refCount - 1
           new == [modules[i] EXCEPT !.refCount = n]
<1>1. /\ finding[t] = NoLibrary /\ held[t][l] > 0 /\ UNCHANGED <<handle, finding>>
      /\ modules' = [modules EXCEPT ![i] = new]
      /\ held' = [held EXCEPT ![t] = [held[t] EXCEPT ![l] = held[t][l] - 1]]
  BY DEF M!Release
<1>2. i \in M!Module /\ modules[i].name = l /\ modules[i].refCount > 0 /\ modules[i] \in ModuleType
      /\ n \in Nat
  BY <1>1, SMTT(60) DEF HeldLoaded, LoadTypeOK, ModuleType
<1>3. new \in ModuleType /\ new.name = l /\ new.refCount = n
  BY <1>2, StillModule
<1>4. modules[i].refCount = Cardinality(M!References(l))
  BY <1>2 DEF Counted
<1> HIDE DEF new, i
<1>5. modules' \in [M!Module -> ModuleType] /\ modules'[i] = new /\ \A j \in M!Module \ {i} : modules'[j] = modules[j]
  BY <1>1, <1>2, <1>3 DEF LoadTypeOK
<1>6. held[t] \in [Library -> HeldCount] /\ held[t][l] - 1 \in HeldCount
  BY <1>1 DEF LoadTypeOK, HeldCount
<1>7. /\ held' \in [Pair -> [Library -> HeldCount]] /\ held'[t][l] = held[t][l] - 1
      /\ \A u \in Pair, k \in Library : u # t \/ k # l => held'[u][k] = held[u][k]
  BY <1>1, <1>6 DEF LoadTypeOK
<1>8. HeldOf(l) \in [Pair -> HeldCount] /\ HeldOf(l)' \in [Pair -> HeldCount]
  BY <1>7 DEF HeldOf, LoadTypeOK
<1>9. n = Cardinality(M!References(l)')
  <2>1. HeldOf(l)[t] = HeldOf(l)'[t] + 1 /\ \A u \in Pair \ {t} : HeldOf(l)[u] = HeldOf(l)'[u]
    BY <1>6, <1>7 DEF HeldOf, HeldCount
  <2>2. Cardinality(RefsOf(HeldOf(l))) = Cardinality(RefsOf(HeldOf(l)')) + 1 /\ Cardinality(RefsOf(HeldOf(l)')) \in Nat
    BY <1>8, <2>1, OneReferenceMore
  <2> QED BY <1>4, <2>2, ReferencesAre, ReferencesNext
<1> HIDE DEF n
<1>10. ASSUME NEW k \in Library, k # l PROVE M!References(k)' = M!References(k)
  <2>1. HeldOf(k)' = HeldOf(k)
    BY <1>7, <1>10 DEF HeldOf, LoadTypeOK
  <2> QED BY <2>1, ReferencesAre, ReferencesNext
<1>11. ASSUME NEW u \in Pair, held'[u][l] > 0 PROVE n > 0
  <2>1. held'[u][l] \in 1..MaxHeld
    BY <1>7, <1>11 DEF HeldCount
  <2>2. <<u, held'[u][l]>> \in M!References(l)'
    BY <2>1 DEF M!References
  <2>3. IsFiniteSet(M!References(l)')
    BY RefsFinite, ReferencesNext
  <2>4. Cardinality(M!References(l)') # 0
    BY <2>2, <2>3, FS_EmptySet
  <2> QED BY <1>2, <1>9, <2>4
<1>12. LoadTypeOK'
  BY <1>1, <1>5, <1>7 DEF LoadTypeOK
<1>13. Counted'
  <2> SUFFICES ASSUME NEW j \in M!Module, modules'[j].refCount > 0
               PROVE  /\ modules'[j].name \in Library /\ handle'[modules'[j].name] = j
                      /\ modules'[j].refCount = Cardinality(M!References(modules[j].name)')
    BY DEF Counted
  <2>3. PICK k : k = modules'[j].name
    OBVIOUS
  <2>4. M!References(modules[j].name)' = M!References(k)'
    BY <2>3 DEF M!References
  <2> SUFFICES k \in Library /\ handle'[k] = j /\ modules'[j].refCount = Cardinality(M!References(k)')
    BY <2>3, <2>4
  <2>1. CASE j = i
    BY <1>1, <1>3, <1>5, <1>9, <2>1, <2>3 DEF i
  <2>2. CASE j # i
    <3>1. modules'[j] = modules[j] /\ modules[j].name = k
      BY <1>5, <2>2, <2>3
    <3>2. k \in Library /\ handle[k] = j /\ modules[j].refCount = Cardinality(M!References(k))
      BY <3>1 DEF Counted
    <3>3. k # l
      BY <2>2, <3>2 DEF i
    <3> QED BY <1>1, <1>10, <3>1, <3>2, <3>3
  <2> QED BY <2>1, <2>2
<1>14. HeldLoaded'
  <2> SUFFICES ASSUME NEW u \in Pair, NEW k \in Library, held'[u][k] > 0
               PROVE  handle[k] \in M!Module /\ modules'[handle[k]].name = k /\ modules'[handle[k]].refCount > 0
    BY <1>1 DEF HeldLoaded
  <2>1. CASE k = l
    BY <1>2, <1>3, <1>5, <1>11, <2>1 DEF i
  <2>2. CASE k # l
    <3>1. held[u][k] > 0
      BY <1>7, <2>2
    <3>2. handle[k] \in M!Module /\ modules[handle[k]].name = k /\ modules[handle[k]].refCount > 0
      BY <3>1 DEF HeldLoaded
    <3> QED BY <1>2, <1>5, <2>2, <3>2
  <2> QED BY <2>1, <2>2
<1>15. FindingHeld'
  <2> SUFFICES ASSUME NEW u \in Pair, finding[u] # NoLibrary PROVE held'[u][finding[u]] > 0
    BY <1>1 DEF FindingHeld
  <2>1. finding[u] \in Library /\ held[u][finding[u]] > 0 /\ u # t
    BY <1>1 DEF FindingHeld, LoadTypeOK, ModuleName
  <2> QED BY <1>7, <2>1
<1> QED BY <1>12, <1>13, <1>14, <1>15

\* The count is of the references alone.
LEMMA SameCount ==
  ASSUME Counted, UNCHANGED <<modules, held, handle>>
  PROVE  Counted'
BY DEF Counted, M!References

\* A search is of a library that the thread holds.
LEMMA FindKeeps ==
  ASSUME LoadInv, NEW t \in Pair, M!FindExportOfKind(t) \/ \E l \in Library : M!FindExport(t, l)
  PROVE  LoadInv'
<1> USE ServicesAssumption DEF LoadInv
<1>1. UNCHANGED <<modules, held, handle>>
  BY DEF M!FindExportOfKind, M!FindExport
<1>2. PICK l \in ModuleName : finding' = [finding EXCEPT ![t] = l] /\ (l # NoLibrary => held[t][l] > 0)
  BY DEF M!FindExportOfKind, M!FindExport, ModuleName
<1>3. finding' \in [Pair -> ModuleName] /\ finding'[t] = l /\ \A u \in Pair \ {t} : finding'[u] = finding[u]
  BY <1>2 DEF LoadTypeOK
<1>4. LoadTypeOK' /\ HeldLoaded'
  BY <1>1, <1>3 DEF LoadTypeOK, HeldLoaded
<1>5. FindingHeld'
  BY <1>1, <1>2, <1>3 DEF FindingHeld
<1>6. Counted'
  BY <1>1, SameCount
<1> QED BY <1>4, <1>5, <1>6

\* No library is held at the start.
LEMMA LoaderStarts ==
  ASSUME M!LoadInit
  PROVE  LoadInv
<1> USE ServicesAssumption DEF M!LoadInit
<1>1. M!FreeModule \in ModuleType /\ M!FreeModule.refCount = 0
  BY DEF M!FreeModule, ModuleType, ModuleName
<1>2. LoadTypeOK
  BY <1>1 DEF LoadTypeOK, HeldCount, ModuleName
<1>3. (\A i \in M!Module : ~(modules[i].refCount > 0)) /\ \A t \in Pair, l \in Library : ~(held[t][l] > 0)
  BY <1>1
<1>4. \A t \in Pair : finding[t] = NoLibrary
  OBVIOUS
<1> QED BY <1>2, <1>3, <1>4 DEF LoadInv, Counted, HeldLoaded, FindingHeld

\* Every call keeps the table.
LEMMA LoaderKeeps ==
  ASSUME LoadInv, M!LoadNext \/ UNCHANGED loadVars
  PROVE  LoadInv'
<1>1. CASE M!LoadNext
  BY <1>1, AcquireKeeps, ReleaseKeeps, FindKeeps DEF M!LoadNext
<1>2. CASE UNCHANGED loadVars
  <2>1. UNCHANGED <<modules, held, handle, finding>>
    BY <1>2 DEF loadVars
  <2>2. Counted'
    BY <2>1, SameCount DEF LoadInv
  <2> QED BY <2>1, <2>2 DEF LoadInv, LoadTypeOK, HeldLoaded, FindingHeld
<1> QED BY <1>1, <1>2

\* What is held or searched is loaded, and what is loaded is counted.
LEMMA LoaderIsKept ==
  ASSUME LoadInv
  PROVE  M!ModulesKept
<1> USE DEF LoadInv
<1>1. ASSUME NEW t \in Pair, NEW l \in Library, held[t][l] > 0 \/ finding[t] = l
      PROVE  modules[handle[l]].name = l /\ modules[handle[l]].refCount > 0
  <2>1. held[t][l] > 0
    BY <1>1, ServicesAssumption DEF FindingHeld
  <2> QED BY <2>1 DEF HeldLoaded
<1>2. \A i \in M!Module : modules[i].refCount > 0
        => modules[i].refCount = Cardinality(M!References(modules[i].name))
  BY DEF Counted
<1>3. \A X : M!Cardinality(X) = Cardinality(X)
  BY DEF M!Cardinality, Cardinality
<1> QED BY <1>1, <1>2, <1>3 DEF M!ModulesKept
------------------------------------------------------------------------------
\* The open files.  A grant's slot holds its stream, every open stream has one grant,
\* and a call in progress has a grant; where the call will leave the stream is where
\* its cursor is.
FileSlot == Stream \cup {NoStream}
Item == 0..FileSize
Grant == [kind : F!Kind, handle : Nat, stream : Stream]

\* What may be left of a call, by what it has yet to do with the position.
Moving == {<<"find", "move">>, <<"move">>}
MovingTo == {<<"find", "seek", "find", "move">>, <<"seek", "find", "move">>}
Seeking == {<<"find", "seek">>, <<"seek">>}
Telling == {<<"find", "tell">>, <<"tell">>,
            <<"find", "tell", "end", "size", "back">>, <<"tell", "end", "size", "back">>}
Sizing == {<<"end", "size", "back">>, <<"size", "back">>, <<"back">>}
Plan == Moving \cup MovingTo \cup Seeking \cup Telling \cup Sizing

CallType == [todo : Plan, grant : Grant, to : Item, here : Item, stale : BOOLEAN]

\* A call that finds the stream at p, and is alone with it, leaves it at q.
Lands(c, p, q) ==
  \/ c.todo \in Moving /\ q = F!Moved(p)
  \/ c.todo \in MovingTo /\ q = F!Moved(c.to)
  \/ c.todo \in Seeking /\ q = c.to
  \/ c.todo \in Telling /\ q = p
  \/ c.todo \in Sizing /\ q = c.here

FileTypeOK ==
  /\ table \in [F!Kind -> Seq(FileSlot)] /\ grants \subseteq Grant
  /\ position \in [Stream -> Item] /\ cursor \in [Stream -> 0..FileSize + 1]
  /\ calls \in [Pair -> CallType \cup {F!NoCall}]

GrantInv ==
  /\ \A g \in grants : g.handle \in DOMAIN table[g.kind] /\ table[g.kind][g.handle] = g.stream
  /\ streams = {g.stream : g \in grants}
  /\ \A g, h \in grants : g # h => g.stream # h.stream
  /\ \A t \in Pair : calls[t] # F!NoCall => calls[t].grant \in grants

CursorInv ==
  \A g \in grants : cursor[g.stream] # F!Unknown =>
    /\ \A t, u \in F!InCall(g) : t = u
    /\ F!InCall(g) = {} => position[g.stream] = cursor[g.stream]
    /\ \A t \in F!InCall(g) : Lands(calls[t], position[g.stream], cursor[g.stream])

FileInv == FileTypeOK /\ GrantInv /\ CursorInv

\* A call in progress is not the absence of one, and stays a call when the rest of
\* its plan, or what it was told, is another, or when its slot is freed.
LEMMA CallIs ==
  ASSUME NEW c \in CallType, NEW todo \in Plan, NEW here \in Item
  PROVE  /\ c # F!NoCall
         /\ [c EXCEPT !.todo = todo] \in CallType /\ [c EXCEPT !.here = here] \in CallType
         /\ [c EXCEPT !.stale = TRUE] \in CallType /\ [c EXCEPT !.stale = FALSE] \in CallType
<1>1. c # F!NoCall
  BY DEF CallType, F!NoCall
<1>2. [c EXCEPT !.todo = todo] \in CallType /\ [c EXCEPT !.here = here] \in CallType
  BY DEF CallType
<1>3. [c EXCEPT !.stale = TRUE] \in CallType
  BY DEF CallType
<1>4. [c EXCEPT !.stale = FALSE] \in CallType
  BY DEF CallType
<1> QED BY <1>1, <1>2, <1>3, <1>4

\* What is left of a plan after its first act is a plan.
LEMMA PlanGoesOn ==
  ASSUME NEW todo \in Plan, Len(todo) # 1
  PROVE  Tail(todo) \in Plan
<1>1. CASE todo \in Moving
  <2>1. todo = <<"find", "move">> => Tail(todo) \in Moving
    BY DEF Moving
  <2>2. todo # <<"move">>
    OBVIOUS
  <2> QED BY <1>1, <2>1, <2>2 DEF Moving, Plan
<1>2. CASE todo \in MovingTo
  <2>1. todo = <<"find", "seek", "find", "move">> => Tail(todo) \in MovingTo
    BY DEF MovingTo
  <2>2. todo = <<"seek", "find", "move">> => Tail(todo) \in Moving
    BY DEF Moving
  <2> QED BY <1>2, <2>1, <2>2 DEF MovingTo, Plan
<1>3. CASE todo \in Seeking
  <2>1. todo = <<"find", "seek">> => Tail(todo) \in Seeking
    BY DEF Seeking
  <2>2. todo # <<"seek">>
    OBVIOUS
  <2> QED BY <1>3, <2>1, <2>2 DEF Seeking, Plan
<1>4. CASE todo \in Telling
  <2>1. todo = <<"find", "tell">> => Tail(todo) \in Telling
    BY DEF Telling
  <2>2. todo = <<"find", "tell", "end", "size", "back">> => Tail(todo) \in Telling
    BY DEF Telling
  <2>3. todo = <<"tell", "end", "size", "back">> => Tail(todo) \in Sizing
    BY DEF Sizing
  <2>4. todo # <<"tell">>
    OBVIOUS
  <2> QED BY <1>4, <2>1, <2>2, <2>3, <2>4 DEF Telling, Plan
<1>5. CASE todo \in Sizing
  <2>1. todo = <<"end", "size", "back">> => Tail(todo) \in Sizing
    BY DEF Sizing
  <2>2. todo = <<"size", "back">> => Tail(todo) \in Sizing
    BY DEF Sizing
  <2>3. todo # <<"back">>
    OBVIOUS
  <2> QED BY <1>5, <2>1, <2>2, <2>3 DEF Sizing, Plan
<1> QED BY <1>1, <1>2, <1>3, <1>4, <1>5 DEF Plan

\* A move is within the file.
LEMMA MovedIs ==
  ASSUME NEW p \in Item
  PROVE  F!Moved(p) \in Item
<1> USE ServicesAssumption DEF Item
<1>1. {p + 1, FileSize} \in SUBSET Nat /\ FileSize \in {p + 1, FileSize}
  OBVIOUS
<1>2. F!Min({p + 1, FileSize}) \in {p + 1, FileSize} /\ F!Min({p + 1, FileSize}) <= FileSize
  BY <1>1, MinIs
<1> QED BY <1>1, <1>2, SMTT(60) DEF F!Moved

\* Where an access leaves a stream at p.
After(c, p) ==
  CASE Head(c.todo) = "move" -> F!Moved(p) [] Head(c.todo) = "seek" -> c.to [] Head(c.todo) = "end" -> FileSize
    [] Head(c.todo) = "back" -> c.here [] Head(c.todo) \in {"tell", "size"} -> p

\* What a call has been told after an access.
Told(c, p) == IF Head(c.todo) = "tell" THEN [c EXCEPT !.here = p] ELSE c

\* Finding the slot brings a call no nearer its end.
LEMMA FindLands ==
  ASSUME NEW c, NEW p, NEW q, Lands(c, p, q), Head(c.todo) = "find"
  PROVE  /\ Len(c.todo) # 1
         /\ \A d : d.todo = Tail(c.todo) /\ d.to = c.to /\ d.here = c.here => Lands(d, p, q)
<1>1. CASE c.todo \in Moving /\ q = F!Moved(p)
  <2>1. c.todo = <<"find", "move">>
    BY <1>1 DEF Moving
  <2>2. Len(c.todo) # 1 /\ Tail(c.todo) = <<"move">>
    BY <2>1
  <2> QED BY <1>1, <2>2 DEF Lands, Moving
<1>2. CASE c.todo \in MovingTo /\ q = F!Moved(c.to)
  <2>1. c.todo = <<"find", "seek", "find", "move">>
    BY <1>2 DEF MovingTo
  <2>2. Len(c.todo) # 1 /\ Tail(c.todo) = <<"seek", "find", "move">>
    BY <2>1
  <2> QED BY <1>2, <2>2 DEF Lands, MovingTo
<1>3. CASE c.todo \in Seeking /\ q = c.to
  <2>1. c.todo = <<"find", "seek">>
    BY <1>3 DEF Seeking
  <2>2. Len(c.todo) # 1 /\ Tail(c.todo) = <<"seek">>
    BY <2>1
  <2> QED BY <1>3, <2>2 DEF Lands, Seeking
<1>4. CASE c.todo \in Telling /\ q = p
  <2>1. c.todo = <<"find", "tell">> \/ c.todo = <<"find", "tell", "end", "size", "back">>
    BY <1>4 DEF Telling
  <2>2. c.todo = <<"find", "tell">> => Len(c.todo) # 1 /\ Tail(c.todo) = <<"tell">>
    OBVIOUS
  <2>3. c.todo = <<"find", "tell", "end", "size", "back">>
          => Len(c.todo) # 1 /\ Tail(c.todo) = <<"tell", "end", "size", "back">>
    OBVIOUS
  <2>4. Len(c.todo) # 1 /\ Tail(c.todo) \in Telling
    BY <2>1, <2>2, <2>3 DEF Telling
  <2> QED BY <1>4, <2>4 DEF Lands
<1>5. CASE c.todo \in Sizing /\ q = c.here
  BY <1>5 DEF Sizing
<1> QED BY <1>1, <1>2, <1>3, <1>4, <1>5 DEF Lands

\* An access brings a call nearer its end, and the stream where the call is to leave
\* it when it was the last.
LEMMA UseLands ==
  ASSUME NEW c, NEW p, NEW q, Lands(c, p, q), Head(c.todo) # "find"
  PROVE  /\ Len(c.todo) = 1 => After(c, p) = q
         /\ Len(c.todo) # 1 =>
              \A d : /\ d.todo = Tail(c.todo) /\ d.to = c.to
                     /\ d.here = IF Head(c.todo) = "tell" THEN p ELSE c.here
                     => Lands(d, After(c, p), q)
<1>1. CASE c.todo \in Moving /\ q = F!Moved(p)
  <2>1. c.todo = <<"move">>
    BY <1>1 DEF Moving
  <2>2. Len(c.todo) = 1 /\ Head(c.todo) = "move"
    BY <2>1
  <2> QED BY <1>1, <2>2 DEF After
<1>2. CASE c.todo \in MovingTo /\ q = F!Moved(c.to)
  <2>1. c.todo = <<"seek", "find", "move">>
    BY <1>2 DEF MovingTo
  <2>2. Len(c.todo) # 1 /\ Head(c.todo) = "seek" /\ Tail(c.todo) = <<"find", "move">>
    BY <2>1
  <2>3. After(c, p) = c.to
    BY <2>2 DEF After
  <2> QED BY <1>2, <2>2, <2>3 DEF Lands, Moving
<1>3. CASE c.todo \in Seeking /\ q = c.to
  <2>1. c.todo = <<"seek">>
    BY <1>3 DEF Seeking
  <2>2. Len(c.todo) = 1 /\ Head(c.todo) = "seek"
    BY <2>1
  <2> QED BY <1>3, <2>2 DEF After
<1>4. CASE c.todo \in Telling /\ q = p
  <2>1. c.todo = <<"tell">> \/ c.todo = <<"tell", "end", "size", "back">>
    BY <1>4 DEF Telling
  <2>2. CASE c.todo = <<"tell">>
    <3>1. Len(c.todo) = 1 /\ Head(c.todo) = "tell"
      BY <2>2
    <3> QED BY <1>4, <3>1 DEF After
  <2>3. CASE c.todo = <<"tell", "end", "size", "back">>
    <3>1. Len(c.todo) # 1 /\ Head(c.todo) = "tell" /\ Tail(c.todo) = <<"end", "size", "back">>
      BY <2>3
    <3> QED BY <1>4, <3>1 DEF Lands, Sizing
  <2> QED BY <2>1, <2>2, <2>3
<1>5. CASE c.todo \in Sizing /\ q = c.here
  <2>1. CASE c.todo = <<"back">>
    <3>1. Len(c.todo) = 1 /\ Head(c.todo) = "back"
      BY <2>1
    <3> QED BY <1>5, <3>1 DEF After
  <2>2. CASE c.todo = <<"size", "back">>
    <3>1. Len(c.todo) # 1 /\ Head(c.todo) = "size" /\ Tail(c.todo) = <<"back">>
      BY <2>2
    <3> QED BY <1>5, <3>1 DEF Lands, Sizing
  <2>3. CASE c.todo = <<"end", "size", "back">>
    <3>1. Len(c.todo) # 1 /\ Head(c.todo) = "end" /\ Tail(c.todo) = <<"size", "back">>
      BY <2>3
    <3> QED BY <1>5, <3>1 DEF Lands, Sizing
  <2> QED BY <1>5, <2>1, <2>2, <2>3 DEF Sizing
<1> QED BY <1>1, <1>2, <1>3, <1>4, <1>5 DEF Lands

\* An access leaves the stream in the file, and only a seek has a position to go to.
LEMMA AfterIs ==
  ASSUME NEW c \in CallType, NEW p \in Item, Head(c.todo) # "find"
  PROVE  After(c, p) \in Item /\ Told(c, p) \in CallType
<1>1. c.to \in Item /\ c.here \in Item /\ c.todo \in Plan /\ F!Moved(p) \in Item /\ FileSize \in Item
  BY MovedIs, ServicesAssumption DEF CallType, Item
<1>2. Head(c.todo) \in {"move", "seek", "tell", "end", "size", "back"}
  BY <1>1 DEF Plan, Moving, MovingTo, Seeking, Telling, Sizing
<1>3. After(c, p) \in Item
  BY <1>1, <1>2 DEF After
<1>4. Told(c, p) \in CallType
  BY <1>1, CallIs DEF Told
<1> QED BY <1>3, <1>4

\* A call whose plan goes on is the same call.
LEMMA GoesOn ==
  ASSUME NEW c \in CallType
  PROVE  /\ Len(c.todo) = 1 \/ [c EXCEPT !.todo = Tail(c.todo)] \in CallType
         /\ [c EXCEPT !.todo = Tail(c.todo)].todo = Tail(c.todo)
         /\ [c EXCEPT !.todo = Tail(c.todo)].grant = c.grant
         /\ [c EXCEPT !.todo = Tail(c.todo)].to = c.to
         /\ [c EXCEPT !.todo = Tail(c.todo)].here = c.here
<1>1. Len(c.todo) = 1 \/ Tail(c.todo) \in Plan
  BY PlanGoesOn DEF CallType
<1>2. Len(c.todo) = 1 \/ [c EXCEPT !.todo = Tail(c.todo)] \in CallType
  BY <1>1 DEF CallType
<1>3. /\ [c EXCEPT !.todo = Tail(c.todo)].todo = Tail(c.todo)
      /\ [c EXCEPT !.todo = Tail(c.todo)].grant = c.grant
      /\ [c EXCEPT !.todo = Tail(c.todo)].to = c.to
      /\ [c EXCEPT !.todo = Tail(c.todo)].here = c.here
  BY DEF CallType
<1> QED BY <1>2, <1>3

\* Call t is on the stream of grant g, goes on as `new`, and moves that stream alone,
\* which it leaves on the way to where the call is meant to end.
StepsAlone(t, g, new) ==
  /\ calls[t] # F!NoCall /\ g = calls[t].grant
  /\ new = F!NoCall \/ (new \in CallType /\ new.grant = g)
  /\ calls' = [calls EXCEPT ![t] = new] /\ UNCHANGED <<table, streams, grants, cursor>>
  /\ position' \in [Stream -> Item] /\ \A s \in Stream \ {g.stream} : position'[s] = position[s]
  /\ Lands(calls[t], position[g.stream], cursor[g.stream])
       => IF new = F!NoCall THEN position'[g.stream] = cursor[g.stream]
          ELSE Lands(new, position'[g.stream], cursor[g.stream])

\* A step of one call concerns its own stream.
LEMMA StepKeeps ==
  ASSUME FileInv, NEW t \in Pair, NEW g, NEW new, StepsAlone(t, g, new)
  PROVE  FileInv'
<1> USE DEF FileInv, StepsAlone
<1>1. g \in grants /\ g.stream \in Stream /\ t \in F!InCall(g)
  BY DEF GrantInv, FileTypeOK, F!InCall, Grant
<1>2. calls' \in [Pair -> CallType \cup {F!NoCall}] /\ calls'[t] = new /\ \A u \in Pair \ {t} : calls'[u] = calls[u]
  BY DEF FileTypeOK
<1>3. FileTypeOK'
  BY <1>2 DEF FileTypeOK
<1>4. GrantInv'
  BY <1>1, <1>2 DEF GrantInv
<1>5. ASSUME NEW h \in grants, cursor[h.stream] # F!Unknown
      PROVE  /\ \A u, v \in F!InCall(h)' : u = v
             /\ F!InCall(h)' = {} => position'[h.stream] = cursor[h.stream]
             /\ \A u \in F!InCall(h)' : Lands(calls'[u], position'[h.stream], cursor[h.stream])
  <2>1. CASE h = g
    <3>1. F!InCall(g) = {t} /\ Lands(calls[t], position[g.stream], cursor[g.stream])
      BY <1>1, <1>5, <2>1 DEF CursorInv
    <3>2. \A u \in F!InCall(g)' : u = t /\ new # F!NoCall
      BY <1>2, <3>1 DEF F!InCall
    <3>3. CASE new = F!NoCall
      BY <2>1, <3>1, <3>2, <3>3
    <3>4. CASE new # F!NoCall
      <4>1. t \in F!InCall(g)'
        BY <1>2, <3>4 DEF F!InCall
      <4> QED BY <1>2, <2>1, <3>1, <3>2, <3>4, <4>1
    <3> QED BY <3>3, <3>4
  <2>2. CASE h # g
    <3>1. h.stream # g.stream /\ h.stream \in Stream
      BY <1>1, <2>2 DEF GrantInv, FileTypeOK, Grant
    <3>2. F!InCall(h)' = F!InCall(h) /\ t \notin F!InCall(h)
      BY <1>2, <2>2 DEF F!InCall
    <3>3. \A u \in F!InCall(h) : calls'[u] = calls[u]
      BY <1>2, <3>2 DEF F!InCall
    <3>4. position'[h.stream] = position[h.stream]
      BY <3>1
    <3> QED BY <1>5, <3>2, <3>3, <3>4 DEF CursorInv
  <2> QED BY <2>1, <2>2
<1>6. CursorInv'
  BY <1>5 DEF CursorInv, F!InCall
<1> QED BY <1>3, <1>4, <1>6

Rest(c) == IF Len(c.todo) = 1 THEN F!NoCall ELSE [c EXCEPT !.todo = Tail(c.todo)]

\* A call that found its slot goes on to use it.
LEMMA FindSlotKeeps ==
  ASSUME FileInv, NEW t \in Pair, F!Find(t)
  PROVE  FileInv'
<1> DEFINE c == calls[t]
           g == c.grant
           d == [c EXCEPT !.stale = FALSE]
<1>1. c # F!NoCall /\ Head(c.todo) = "find" /\ UNCHANGED <<table, streams, grants, position, cursor>>
      /\ calls' = [calls EXCEPT ![t] = Rest(d)]
  BY DEF F!Find, F!Advanced, Rest
<1>2. c \in CallType /\ position \in [Stream -> Item]
  BY <1>1 DEF FileInv, FileTypeOK
<1>3. d \in CallType /\ d.todo = c.todo /\ d.grant = g /\ d.to = c.to /\ d.here = c.here
  <2>1. c.here \in Item /\ c.todo \in Plan
    BY <1>2 DEF CallType
  <2>2. d \in CallType
    BY <1>2, <2>1, CallIs
  <2>3. d.todo = c.todo /\ d.grant = g /\ d.to = c.to /\ d.here = c.here
    BY <1>2 DEF CallType
  <2> QED BY <2>2, <2>3
<1> HIDE DEF d
<1>4. Rest(d) = F!NoCall
      \/ (/\ Rest(d) \in CallType /\ Rest(d).todo = Tail(c.todo) /\ Rest(d).grant = g /\ Rest(d).to = c.to
          /\ Rest(d).here = c.here)
  BY <1>3, GoesOn DEF Rest
<1>5. ASSUME Lands(c, position[g.stream], cursor[g.stream])
      PROVE  Rest(d) # F!NoCall /\ Lands(Rest(d), position[g.stream], cursor[g.stream])
  <2>1. Len(c.todo) # 1
    BY <1>1, <1>5, FindLands
  <2>2. /\ Rest(d) \in CallType /\ Rest(d).todo = Tail(c.todo) /\ Rest(d).to = c.to
        /\ Rest(d).here = c.here
    BY <1>3, <2>1, GoesOn DEF Rest
  <2>3. Lands(Rest(d), position[g.stream], cursor[g.stream])
    BY <1>1, <1>5, <2>2, FindLands
  <2>4. Rest(d) # F!NoCall
    <3>1. Rest(d).here \in Item /\ Rest(d).todo \in Plan
      BY <2>2 DEF CallType
    <3> QED BY <2>2, <3>1, CallIs
  <2> QED BY <2>3, <2>4
<1>6. position' \in [Stream -> Item] /\ position' = position /\ UNCHANGED <<table, streams, grants, cursor>>
  BY <1>1, <1>2
<1> DEFINE new == Rest(d)
<1>7. new = F!NoCall \/ (new \in CallType /\ new.grant = g)
  BY <1>4
<1>8. calls' = [calls EXCEPT ![t] = new]
  BY <1>1
<1>9. Lands(c, position[g.stream], cursor[g.stream])
        => new # F!NoCall /\ Lands(new, position[g.stream], cursor[g.stream])
  BY <1>5
<1> HIDE DEF new
<1>10. StepsAlone(t, g, new)
  BY <1>1, <1>6, <1>7, <1>8, <1>9 DEF StepsAlone
<1> QED BY <1>10, StepKeeps

\* A call goes through its slot to the stream that it was granted.
LEMMA UseSlotKeeps ==
  ASSUME FileInv, NEW t \in Pair, F!Use(t)
  PROVE  FileInv'
<1> DEFINE c == calls[t]
           g == c.grant
           s == g.stream
           p == position[s]
           d == Told(c, p)
           new == Rest(d)
<1>1. c # F!NoCall /\ Head(c.todo) # "find" /\ UNCHANGED <<table, streams, grants, cursor>>
  BY DEF F!Use
<1>2. g \in grants /\ table[g.kind][g.handle] = s /\ s \in Stream /\ c \in CallType /\ p \in Item
  BY <1>1 DEF FileInv, FileTypeOK, GrantInv, Grant
<1>3. position' = [position EXCEPT ![s] = After(c, p)] /\ calls' = [calls EXCEPT ![t] = new]
  BY <1>2 DEF F!Use, F!Advanced, Rest, Told, After
<1>4. After(c, p) \in Item /\ d \in CallType
  BY <1>1, <1>2, AfterIs
<1>5. d.todo = c.todo /\ d.grant = g /\ d.to = c.to /\ d.here = IF Head(c.todo) = "tell" THEN p ELSE c.here
  BY <1>2 DEF Told, CallType
<1>6. position' \in [Stream -> Item] /\ position'[s] = After(c, p) /\ \A r \in Stream \ {s} : position'[r] = position[r]
  BY <1>2, <1>3, <1>4 DEF FileInv, FileTypeOK
<1> HIDE DEF d
<1>7. CASE Len(c.todo) = 1
  <2>1. new = F!NoCall
    BY <1>5, <1>7 DEF Rest
  <2>2. Lands(c, p, cursor[s]) => position'[s] = cursor[s]
    BY <1>1, <1>6, <1>7, UseLands
  <2> HIDE DEF new
  <2>3. StepsAlone(t, g, new)
    BY <1>1, <1>3, <1>6, <2>1, <2>2 DEF StepsAlone
  <2> QED BY <2>3, StepKeeps
<1>8. CASE Len(c.todo) # 1
  <2>1. new \in CallType /\ new.todo = Tail(c.todo) /\ new.grant = g /\ new.to = c.to /\ new.here = d.here
    BY <1>4, <1>5, <1>8, GoesOn DEF Rest
  <2>2. new # F!NoCall
    <3>1. new.here \in Item /\ new.todo \in Plan
      BY <2>1, ZenonT(60) DEF CallType
    <3> QED BY <2>1, <3>1, CallIs
  <2>3. Lands(c, p, cursor[s]) => Lands(new, position'[s], cursor[s])
    BY <1>1, <1>5, <1>6, <1>8, <2>1, UseLands
  <2> HIDE DEF new
  <2>4. StepsAlone(t, g, new)
    BY <1>1, <1>3, <1>6, <2>1, <2>2, <2>3 DEF StepsAlone
  <2> QED BY <2>4, StepKeeps
<1> QED BY ONLY <1>7, <1>8, SMTT(60)

\* Every call has a plan that leaves the stream where it is meant to.
LEMMA ScriptsMean ==
  ASSUME NEW op \in DOMAIN F!Script, NEW p \in Item, NEW to \in Item
  PROVE  /\ F!Script[op] \in Plan /\ F!Meant(op, p, to) \in Item
         /\ \A c : c.todo = F!Script[op] /\ c.to = to => Lands(c, p, F!Meant(op, p, to))
<1>1. F!Moved(p) \in Item /\ F!Moved(to) \in Item
  BY MovedIs
<1>2. op \in {"FSReadFile", "FSReadFileWithPos", "FSGetPosFile", "FSSetPosFile", "FSGetStatFile",
              "FSWriteFile", "FSWriteFileWithPosAsync", "FSReadDir"}
  BY DEF F!Script
<1>3. CASE op \in {"FSReadFile", "FSWriteFile", "FSReadDir"}
  <2>1. F!Script[op] = <<"find", "move">> /\ F!Meant(op, p, to) = F!Moved(p)
    BY <1>3 DEF F!Script, F!Meant
  <2>2. F!Script[op] \in Moving
    BY <2>1 DEF Moving
  <2> QED BY <1>1, <2>1, <2>2 DEF Lands, Plan
<1>4. CASE op \in {"FSReadFileWithPos", "FSWriteFileWithPosAsync"}
  <2>1. F!Script[op] = <<"find", "seek", "find", "move">> /\ F!Meant(op, p, to) = F!Moved(to)
    BY <1>4 DEF F!Script, F!Meant
  <2>2. F!Script[op] \in MovingTo
    BY <2>1 DEF MovingTo
  <2> QED BY <1>1, <2>1, <2>2 DEF Lands, Plan
<1>5. CASE op = "FSSetPosFile"
  <2>1. F!Script[op] = <<"find", "seek">> /\ F!Meant(op, p, to) = to
    BY <1>5 DEF F!Script, F!Meant
  <2>2. F!Script[op] \in Seeking
    BY <2>1 DEF Seeking
  <2> QED BY <2>1, <2>2 DEF Lands, Plan
<1>6. CASE op \in {"FSGetPosFile", "FSGetStatFile"}
  <2>1. F!Script[op] \in {<<"find", "tell">>, <<"find", "tell", "end", "size", "back">>} /\ F!Meant(op, p, to) = p
    BY <1>6 DEF F!Script, F!Meant
  <2>2. F!Script[op] \in Telling
    BY <2>1 DEF Telling
  <2> QED BY <2>1, <2>2 DEF Lands, Plan
<1> QED BY <1>2, <1>3, <1>4, <1>5, <1>6

\* A call that is alone on its handle is to leave the stream where it is meant to; of
\* two at once nothing is expected.
LEMMA BeginCallKeeps ==
  ASSUME FileInv, NEW t \in Pair, NEW op \in DOMAIN F!Script, NEW g \in grants, NEW to \in 0..FileSize,
         F!Begin(t, op, g, to)
  PROVE  FileInv'
<1> USE DEF FileInv
<1> DEFINE s == g.stream
           next == IF F!InCall(g) # {} \/ cursor[s] = F!Unknown THEN F!Unknown ELSE F!Meant(op, cursor[s], to)
           new == [todo |-> F!Script[op], grant |-> g, to |-> to, here |-> 0, stale |-> FALSE]
<1>1. /\ calls[t] = F!NoCall /\ calls' = [calls EXCEPT ![t] = new] /\ cursor' = [cursor EXCEPT ![s] = next]
      /\ UNCHANGED <<table, streams, position, grants>>
  BY DEF F!Begin
<1>2. g \in Grant /\ s \in Stream /\ cursor[s] \in 0..FileSize + 1 /\ position[s] \in Item
      /\ to \in Item /\ 0 \in Item /\ F!Unknown = FileSize + 1
  BY ServicesAssumption, SMTT(60) DEF FileTypeOK, Grant, Item, F!Unknown
<1>3. new \in CallType /\ new.todo = F!Script[op] /\ new.grant = g /\ new.to = to
  <2>1. F!Script[op] \in Plan
    BY <1>2, ScriptsMean
  <2> QED BY <1>2, <2>1 DEF CallType
<1>4. new # F!NoCall
  BY <1>3 DEF CallType, F!NoCall
<1> HIDE DEF new
<1>5. next \in 0..FileSize + 1
  <2>1. CASE cursor[s] = F!Unknown
    BY <1>2, <2>1
  <2>2. CASE cursor[s] # F!Unknown
    <3>1. cursor[s] \in Item
      BY <1>2, <2>2, ServicesAssumption DEF Item
    <3>2. F!Meant(op, cursor[s], to) \in Item
      BY <1>2, <3>1, ScriptsMean
    <3> QED BY <1>2, <3>2, ServicesAssumption, SMTT(60) DEF Item
  <2> QED BY <2>1, <2>2
<1>6. next # F!Unknown => F!InCall(g) = {} /\ cursor[s] # F!Unknown /\ next = F!Meant(op, cursor[s], to)
  OBVIOUS
<1> HIDE DEF next
<1>7. calls' \in [Pair -> CallType \cup {F!NoCall}] /\ calls'[t] = new /\ \A u \in Pair \ {t} : calls'[u] = calls[u]
  BY <1>1, <1>3 DEF FileTypeOK
<1>8. cursor' \in [Stream -> 0..FileSize + 1] /\ cursor'[s] = next /\ \A r \in Stream \ {s} : cursor'[r] = cursor[r]
  BY <1>1, <1>2, <1>5 DEF FileTypeOK
<1>9. FileTypeOK' /\ GrantInv'
  BY <1>1, <1>3, <1>7, <1>8 DEF FileTypeOK, GrantInv
<1>10. ASSUME NEW h \in grants, cursor'[h.stream] # F!Unknown
       PROVE  /\ \A u, v \in F!InCall(h)' : u = v
              /\ F!InCall(h)' = {} => position[h.stream] = cursor'[h.stream]
              /\ \A u \in F!InCall(h)' : Lands(calls'[u], position[h.stream], cursor'[h.stream])
  <2>1. CASE h = g
    <3>1. F!InCall(g) = {} /\ cursor[s] # F!Unknown /\ next = F!Meant(op, cursor[s], to)
      BY <1>6, <1>8, <1>10, <2>1
    <3>2. position[s] = cursor[s]
      BY <3>1 DEF CursorInv
    <3>3. Lands(new, position[s], next)
      BY <1>2, <1>3, <3>1, <3>2, ScriptsMean
    <3>4. F!InCall(g)' = {t}
      BY <1>3, <1>4, <1>7, <3>1 DEF F!InCall
    <3> QED BY <1>7, <1>8, <2>1, <3>3, <3>4
  <2>2. CASE h # g
    <3>1. h.stream # s /\ h.stream \in Stream
      BY <2>2 DEF GrantInv, FileTypeOK, Grant
    <3>2. F!InCall(h)' = F!InCall(h) /\ t \notin F!InCall(h)
      BY <1>1, <1>3, <1>7, <2>2 DEF F!InCall
    <3>3. \A u \in F!InCall(h) : calls'[u] = calls[u]
      BY <1>7, <3>2 DEF F!InCall
    <3>4. cursor'[h.stream] = cursor[h.stream]
      BY <1>8, <3>1
    <3> QED BY <1>10, <3>2, <3>3, <3>4 DEF CursorInv
  <2> QED BY <2>1, <2>2
<1>11. CursorInv'
  BY <1>1, <1>10 DEF CursorInv, F!InCall
<1> QED BY <1>9, <1>11

\* A handle that is closed was used by no call; every other keeps its slot.
LEMMA CloseKeeps ==
  ASSUME FileInv, NEW g \in grants, F!Close(g)
  PROVE  FileInv'
<1> USE DEF FileInv
<1>1. /\ F!InCall(g) = {} /\ streams' = streams \ {g.stream} /\ grants' = grants \ {g}
      /\ table' = [table EXCEPT ![g.kind] = [table[g.kind] EXCEPT ![g.handle] = NoStream]]
      /\ UNCHANGED <<position, calls, cursor>>
  BY DEF F!Close, GrantInv
<1>2. g \in Grant /\ g.kind \in F!Kind /\ g.handle \in DOMAIN table[g.kind] /\ table[g.kind] \in Seq(FileSlot)
  BY DEF FileTypeOK, GrantInv, Grant
<1> DEFINE new == [table[g.kind] EXCEPT ![g.handle] = NoStream]
<1>3. new \in Seq(FileSlot) /\ DOMAIN new = DOMAIN table[g.kind]
      /\ \A i \in DOMAIN new : i # g.handle => new[i] = table[g.kind][i]
  BY <1>2 DEF FileSlot
<1> HIDE DEF new
<1>4. table' \in [F!Kind -> Seq(FileSlot)] /\ table'[g.kind] = new
      /\ \A k \in F!Kind \ {g.kind} : table'[k] = table[k]
  BY <1>1, <1>2, <1>3 DEF FileTypeOK, new
<1>5. FileTypeOK'
  BY <1>1, <1>4 DEF FileTypeOK
<1>6. \A t \in Pair : calls[t] # F!NoCall => calls[t].grant # g
  BY <1>1 DEF F!InCall
<1>7. \A h \in grants : h # g => h.stream # g.stream /\ ~(h.kind = g.kind /\ h.handle = g.handle)
  BY DEF GrantInv
<1>8. ASSUME NEW h \in grants, h # g
      PROVE  h.handle \in DOMAIN table'[h.kind] /\ table'[h.kind][h.handle] = h.stream
  <2>1. h.kind \in F!Kind /\ h.handle \in DOMAIN table[h.kind] /\ table[h.kind][h.handle] = h.stream
    BY DEF FileTypeOK, GrantInv, Grant
  <2>2. CASE h.kind = g.kind
    BY <1>3, <1>4, <1>7, <1>8, <2>1, <2>2
  <2>3. CASE h.kind # g.kind
    BY <1>4, <2>1, <2>3
  <2> QED BY <2>2, <2>3
<1>9. streams' = {h.stream : h \in grants'}
  BY <1>1, <1>7 DEF GrantInv
<1>10. GrantInv'
  BY <1>1, <1>6, <1>8, <1>9 DEF GrantInv
<1>11. CursorInv'
  BY <1>1 DEF CursorInv, F!InCall
<1> QED BY <1>5, <1>10, <1>11

\* A shutdown closes every stream, as each is in the slot of its grant.
LEMMA ShutdownKeeps ==
  ASSUME FileInv, F!FSShutdown
  PROVE  FileInv'
<1> USE DEF FileInv
<1>1. /\ \A t \in Pair : calls[t] = F!NoCall
      /\ streams' = streams \ UNION {{table[k][i] : i \in DOMAIN table[k]} : k \in F!Kind}
      /\ table' = [k \in F!Kind |-> <<>>] /\ grants' = {} /\ UNCHANGED <<position, calls, cursor>>
  BY DEF F!FSShutdown
<1>2. streams' = {}
  <2>1. \A g \in grants : g.kind \in F!Kind /\ g.handle \in DOMAIN table[g.kind] /\ g.stream = table[g.kind][g.handle]
    BY DEF FileTypeOK, GrantInv, Grant
  <2>2. \A s \in streams : \E k \in F!Kind : \E i \in DOMAIN table[k] : s = table[k][i]
    BY <2>1 DEF GrantInv
  <2> QED BY <1>1, <2>2
<1>3. FileTypeOK'
  BY <1>1 DEF FileTypeOK
<1>4. GrantInv' /\ CursorInv'
  BY <1>1, <1>2 DEF GrantInv, CursorInv
<1> QED BY <1>3, <1>4

\* What remains of a call when its vector has moved.
SameCall(c, d) == d.todo = c.todo /\ d.grant = c.grant /\ d.to = c.to /\ d.here = c.here

\* A vector that grows leaves the calls in progress what they were.
LEMMA GrowKeepsCalls ==
  ASSUME FileTypeOK, NEW k, F!Grow(k) \/ calls' = calls
  PROVE  /\ calls' \in [Pair -> CallType \cup {F!NoCall}]
         /\ \A t \in Pair : calls'[t] = F!NoCall <=> calls[t] = F!NoCall
         /\ \A t \in Pair : calls[t] # F!NoCall => SameCall(calls[t], calls'[t])
<1> USE DEF FileTypeOK
<1>1. CASE calls' = calls
  BY <1>1 DEF SameCall
<1>2. CASE calls' = [t \in Pair |-> IF calls[t] # F!NoCall /\ calls[t].grant.kind = k
                                    THEN [calls[t] EXCEPT !.stale = TRUE] ELSE calls[t]]
  <2>1. ASSUME NEW t \in Pair, calls[t] # F!NoCall
        PROVE  /\ [calls[t] EXCEPT !.stale = TRUE] \in CallType /\ [calls[t] EXCEPT !.stale = TRUE] # F!NoCall
               /\ SameCall(calls[t], [calls[t] EXCEPT !.stale = TRUE])
    <3>1. calls[t] \in CallType
      BY <2>1
    <3>2. calls[t].todo \in Plan /\ calls[t].here \in Item
      BY <3>1 DEF CallType
    <3>3. [calls[t] EXCEPT !.stale = TRUE] \in CallType
      BY <3>1, <3>2, CallIs
    <3>4. [calls[t] EXCEPT !.stale = TRUE] # F!NoCall
      BY <3>2, <3>3, CallIs
    <3>5. SameCall(calls[t], [calls[t] EXCEPT !.stale = TRUE])
      BY <3>1 DEF SameCall, CallType
    <3> QED BY <3>3, <3>4, <3>5
  <2>2. ASSUME NEW t \in Pair
        PROVE  /\ calls'[t] \in CallType \cup {F!NoCall} /\ (calls'[t] = F!NoCall <=> calls[t] = F!NoCall)
               /\ calls[t] # F!NoCall => SameCall(calls[t], calls'[t])
    <3>1. CASE calls[t] # F!NoCall /\ calls[t].grant.kind = k
      <4>1. calls'[t] = [calls[t] EXCEPT !.stale = TRUE]
        BY <1>2, <3>1
      <4> QED BY <2>1, <3>1, <4>1
    <3>2. CASE ~(calls[t] # F!NoCall /\ calls[t].grant.kind = k)
      <4>1. calls'[t] = calls[t]
        BY <1>2, <3>2
      <4> QED BY <4>1 DEF SameCall
    <3> QED BY <3>1, <3>2
  <2>3. calls' = [t \in Pair |-> calls'[t]]
    BY <1>2
  <2> QED BY <2>2, <2>3
<1> QED BY <1>1, <1>2 DEF F!Grow

\* The slot that an open takes: the first unused one, or a new one.
OpenSlot(k) == IF F!Unused(k) = {} THEN Len(table[k]) + 1 ELSE F!Min(F!Unused(k))

Takes(new, k, s) ==
  new = IF OpenSlot(k) > Len(table[k]) THEN Append(table[k], s) ELSE [table[k] EXCEPT ![OpenSlot(k)] = s]

\* A vector with a stream in that slot has its other slots as they were.
LEMMA SlotTaken ==
  ASSUME FileTypeOK, NEW k \in F!Kind, NEW s \in Stream, NEW new, Takes(new, k, s)
  PROVE  /\ new \in Seq(FileSlot) /\ OpenSlot(k) \in Nat
         /\ OpenSlot(k) \in DOMAIN new /\ new[OpenSlot(k)] = s
         /\ \A i \in DOMAIN table[k] : i # OpenSlot(k) => i \in DOMAIN new /\ new[i] = table[k][i]
         /\ OpenSlot(k) \in DOMAIN table[k] => table[k][OpenSlot(k)] = NoStream
<1> DEFINE old == table[k]
           slot == OpenSlot(k)
<1>1. old \in Seq(FileSlot) /\ s \in FileSlot /\ DOMAIN old = 1..Len(old) /\ Len(old) \in Nat
  BY DEF FileTypeOK, FileSlot
<1>2. CASE F!Unused(k) = {}
  <2>1. slot = Len(old) + 1
    BY <1>2 DEF OpenSlot
  <2>2. new = Append(old, s)
    BY <1>1, <2>1 DEF Takes
  <2> HIDE DEF old, slot
  <2> QED BY <1>1, <2>1, <2>2 DEF old, slot
<1>3. CASE F!Unused(k) # {}
  <2>1. F!Unused(k) \in SUBSET Nat
    BY <1>1 DEF F!Unused
  <2>2. slot \in F!Unused(k)
    BY <1>3, <2>1, MinIs DEF OpenSlot
  <2>3. slot \in 1..Len(old) /\ old[slot] = NoStream
    BY <1>1, <2>2 DEF F!Unused
  <2>4. new = [old EXCEPT ![slot] = s]
    BY <1>1, <2>3 DEF Takes
  <2> HIDE DEF old, slot
  <2> QED BY <1>1, <2>3, <2>4 DEF old, slot
<1> QED BY <1>2, <1>3

\* An open hands out a slot that no other handle has, of a stream that is not open.
LEMMA OpenKeeps ==
  ASSUME FileInv, NEW k \in F!Kind, F!Open(k)
  PROVE  FileInv'
<1> USE DEF FileInv
<1> DEFINE slot == OpenSlot(k)
<1>1. PICK s \in Stream \ streams : F!Put(k, slot, s)
  BY DEF F!Open, OpenSlot
<1>0. PICK new : Takes(new, k, s)
  BY DEF Takes
<1> DEFINE g == [kind |-> k, handle |-> slot, stream |-> s]
<1>2. /\ table' = [table EXCEPT ![k] = new] /\ (F!Grow(k) \/ calls' = calls)
      /\ streams' = streams \cup {s} /\ grants' = grants \cup {g}
      /\ position' = [position EXCEPT ![s] = 0] /\ cursor' = [cursor EXCEPT ![s] = 0]
  BY <1>0, <1>1 DEF F!Put, Takes
<1>3. /\ new \in Seq(FileSlot) /\ slot \in Nat /\ slot \in DOMAIN new /\ new[slot] = s
      /\ \A i \in DOMAIN table[k] : i # slot => i \in DOMAIN new /\ new[i] = table[k][i]
      /\ slot \in DOMAIN table[k] => table[k][slot] = NoStream
  BY <1>0, <1>1, SlotTaken
<1>4. g \in Grant /\ g.kind = k /\ g.handle = slot /\ g.stream = s
  BY <1>3 DEF Grant
<1> HIDE DEF slot, g
<1>5. /\ calls' \in [Pair -> CallType \cup {F!NoCall}]
      /\ \A t \in Pair : calls'[t] = F!NoCall <=> calls[t] = F!NoCall
      /\ \A t \in Pair : calls[t] # F!NoCall => SameCall(calls[t], calls'[t])
  BY <1>2, GrowKeepsCalls
<1>6. table' \in [F!Kind -> Seq(FileSlot)] /\ table'[k] = new /\ \A j \in F!Kind \ {k} : table'[j] = table[j]
  BY <1>2, <1>3 DEF FileTypeOK
<1>7. 0 \in Item /\ 0 \in 0..FileSize + 1
  BY ServicesAssumption DEF Item
<1>8. /\ position' \in [Stream -> Item] /\ cursor' \in [Stream -> 0..FileSize + 1]
      /\ position'[s] = 0 /\ cursor'[s] = 0
      /\ \A r \in Stream \ {s} : position'[r] = position[r] /\ cursor'[r] = cursor[r]
  BY <1>1, <1>2, <1>7 DEF FileTypeOK
<1>9. FileTypeOK'
  BY <1>2, <1>4, <1>5, <1>6, <1>8 DEF FileTypeOK
<1>10. \A h \in grants : h \in Grant /\ h.stream # s /\ h.stream \in Stream /\ h.kind \in F!Kind
  BY <1>1 DEF GrantInv, FileTypeOK, Grant
<1>11. ASSUME NEW h \in grants'
       PROVE  h.handle \in DOMAIN table'[h.kind] /\ table'[h.kind][h.handle] = h.stream
  <2>1. CASE h = g
    BY <1>3, <1>4, <1>6, <2>1
  <2>2. CASE h \in grants
    <3>1. h.handle \in DOMAIN table[h.kind] /\ table[h.kind][h.handle] = h.stream
      BY <2>2 DEF GrantInv
    <3>2. CASE h.kind = k
      <4>1. h.handle # slot
        BY <1>3, <1>10, <2>2, <3>1, <3>2, ServicesAssumption
      <4> QED BY <1>3, <1>6, <3>1, <3>2, <4>1
    <3>3. CASE h.kind # k
      BY <1>6, <1>10, <2>2, <3>1, <3>3
    <3> QED BY <3>2, <3>3
  <2> QED BY <1>2, <2>1, <2>2
<1>12. streams' = {h.stream : h \in grants'}
  BY <1>2, <1>4 DEF GrantInv
<1>13. \A h, j \in grants' : h # j => h.stream # j.stream
  BY <1>2, <1>4, <1>10 DEF GrantInv
<1>14. \A t \in Pair : calls'[t] # F!NoCall => calls'[t].grant = calls[t].grant /\ calls[t].grant \in grants
  BY <1>5 DEF GrantInv, SameCall
<1>15. GrantInv'
  BY <1>2, <1>11, <1>12, <1>13, <1>14 DEF GrantInv
<1>16. g \notin grants
  BY <1>4, <1>10
<1>17. ASSUME NEW h \in grants', cursor'[h.stream] # F!Unknown
       PROVE  /\ \A u, v \in F!InCall(h)' : u = v
              /\ F!InCall(h)' = {} => position'[h.stream] = cursor'[h.stream]
              /\ \A u \in F!InCall(h)' : Lands(calls'[u], position'[h.stream], cursor'[h.stream])
  <2>1. CASE h = g
    <3>1. F!InCall(h)' = {}
      BY <1>14, <1>16, <2>1 DEF F!InCall
    <3> QED BY <1>4, <1>8, <2>1, <3>1
  <2>2. CASE h \in grants
    <3>1. F!InCall(h)' = F!InCall(h)
      BY <1>5, <1>14 DEF F!InCall
    <3>2. position'[h.stream] = position[h.stream] /\ cursor'[h.stream] = cursor[h.stream]
      BY <1>8, <1>10, <2>2
    <3>3. /\ \A u, v \in F!InCall(h) : u = v
          /\ F!InCall(h) = {} => position[h.stream] = cursor[h.stream]
          /\ \A u \in F!InCall(h) : Lands(calls[u], position[h.stream], cursor[h.stream])
      BY <1>17, <2>2, <3>2 DEF CursorInv
    <3>4. \A u \in F!InCall(h) : SameCall(calls[u], calls'[u])
      BY <1>5 DEF F!InCall
    <3>5. \A u \in F!InCall(h) : Lands(calls'[u], position[h.stream], cursor[h.stream])
      BY <3>3, <3>4 DEF Lands, SameCall
    <3> QED BY <3>1, <3>2, <3>3, <3>5
  <2> QED BY <1>2, <2>1, <2>2
<1>18. CursorInv'
  BY <1>17 DEF CursorInv, F!InCall
<1> QED BY <1>9, <1>15, <1>18

\* Nothing is open at the start.
LEMMA FilesStart ==
  ASSUME F!FileInit
  PROVE  FileInv
<1> USE ServicesAssumption DEF F!FileInit
<1>1. FileTypeOK
  BY DEF FileTypeOK, Item
<1>2. GrantInv /\ CursorInv
  BY DEF GrantInv, CursorInv
<1> QED BY <1>1, <1>2 DEF FileInv

\* Every call, and every access of one, keeps the files.
LEMMA FilesKeep ==
  ASSUME FileInv, F!FileNext \/ UNCHANGED fileVars
  PROVE  FileInv'
<1>1. CASE F!FileNext
  <2>1. ASSUME NEW t \in Pair, F!UseFreed(t) PROVE FileInv'
    <3>1. UNCHANGED <<table, streams, position, grants, calls, cursor>>
      BY <2>1 DEF F!UseFreed
    <3> QED BY <3>1 DEF FileInv, FileTypeOK, GrantInv, CursorInv, F!InCall
  <2> QED BY <1>1, <2>1, OpenKeeps, CloseKeeps, ShutdownKeeps, BeginCallKeeps, FindSlotKeeps, UseSlotKeeps
          DEF F!FileNext
<1>2. CASE UNCHANGED fileVars
  BY <1>2 DEF fileVars, FileInv, FileTypeOK, GrantInv, CursorInv, F!InCall
<1> QED BY <1>1, <1>2

\* So every handle names its stream, and a stream that is in no call is where the last
\* one was to leave it.
LEMMA FilesAreKept ==
  ASSUME FileInv
  PROVE  F!GrantsGood /\ F!CursorsKept
BY DEF FileInv, GrantInv, CursorInv, F!GrantsGood, F!CursorsKept
-------------------------------------------------------------------------------
\* The sessions.  While a call is in progress, what it has yet to record or to insert
\* is what its client's session lacks; a directory is settled where the first mapping
\* that fits it leads.
Name == STRING \cup {"/file"}
Operation == {"FSOpenFile", "FSOpenDir", "FSMakeDir", "FSRemove", "FSRename"}
ErrorOrOp == Operation \cup {"OK", "NOT_FOUND", "MEDIA_ERROR"}
AnyDirectory == Directory \cup {S!Nowhere}
SessionType == [cwd : AnyDirectory, error : ErrorOrOp]
AnyClient == Client \cup {NoClient}
WorkStage == {"translate", "record", "insert"}
WorkType == [client : AnyClient, stage : WorkStage, arg : ErrorOrOp, cwd : AnyDirectory]
AnyRoot == Root \cup {<<>>}
MappingType == [prefix : Prefix, root : AnyRoot]

ClientTypeOK ==
  /\ DOMAIN session \subseteq Client /\ \A c \in DOMAIN session : session[c] \in SessionType
  /\ own \in [Client -> SessionType]
  /\ work \in [Pair -> WorkType \cup {S!NoWork}]
  /\ mappings \in Seq(MappingType)

InCallOf(t, c) == work[t] # S!NoWork /\ work[t].client = c

\* What the session of client c lacks while a call is as w says.
Remembers(c, w) ==
  /\ w.stage = "translate" => S!Session(c) = own[c]
  /\ w.stage = "record" => own[c] = [cwd |-> S!Session(c).cwd, error |-> w.arg] /\ w.cwd = S!Nowhere
  /\ w.stage = "insert" => c \notin DOMAIN session /\ own[c] = [cwd |-> w.cwd, error |-> w.arg]

SessionInv ==
  /\ \A t \in Pair : work[t] # S!NoWork /\ work[t].stage # "translate" => work[t].client \in Client
  /\ \A c \in Client :
       /\ \A t, u \in Pair : InCallOf(t, c) /\ InCallOf(u, c) => t = u
       /\ (\A t \in Pair : ~InCallOf(t, c)) => S!Session(c) = own[c]
       /\ \A t \in Pair : InCallOf(t, c) => Remembers(c, work[t])

Fitting(p) == {i \in DOMAIN mappings : S!IsPrefix(mappings[i].prefix, p)}

SettledInv ==
  \A p \in Directory : settled[p] = IF Fitting(p) = {} THEN <<>> ELSE <<S!Mapped(p)>>

ClientInv == ClientTypeOK /\ SessionInv /\ SettledInv

\* A file's name is a path, and makes the path that it ends one longer.
LEMMA OneLong ==
  ASSUME NEW N, NEW x \in N
  PROVE  <<x>> \in Seq(N) /\ Len(<<x>>) = 1
OBVIOUS

\* The name in a directory that a call is about is a path of length 1.
LEMMA FileIs == S!File \in Seq(Name) /\ Len(S!File) = 1
<1>1. "/file" \in Name
  BY DEF Name
<1> QED BY <1>1, OneLong DEF S!File

\* The path a call resolves: the directory with one name behind it.
LEMMA AddsOne ==
  ASSUME NEW p \in Seq(Name), NEW f \in Seq(Name), Len(f) = 1
  PROVE  p \o f \in Seq(Name) /\ Len(p \o f) = Len(p) + 1 /\ \A i \in 1..Len(p) : (p \o f)[i] = p[i]
<1>1. p \o f \in Seq(Name) /\ Len(p \o f) = Len(p) + Len(f)
  BY ConcatProperties
<1>2. \A i \in 1..Len(p) : (p \o f)[i] = p[i]
  BY ConcatProperties
<1> QED BY <1>1, <1>2

\* A path begins with another when the pieces of the other are its first ones.
LEMMA PrefixIs ==
  ASSUME NEW s \in Seq(Name), NEW t \in Seq(Name)
  PROVE  S!IsPrefix(s, t) <=> Len(s) <= Len(t) /\ \A i \in 1..Len(s) : s[i] = t[i]
<1> DEFINE a == SubSeq(s, 1, Len(s))
           b == SubSeq(t, 1, Len(s))
<1>1. CASE Len(s) <= Len(t)
  <2>1. a = s
    BY SubSeqFull
  <2>2. Len(s) \in Nat /\ \A i \in 1..Len(s) : t[i] \in Name
    BY <1>1
  <2>3. b \in Seq(Name) /\ Len(b) = Len(s) /\ \A i \in 1..Len(s) : b[i] = t[i]
    BY <2>2, SubSeqProperties
  <2>4. S!IsPrefix(s, t) <=> a = b
    BY <1>1 DEF S!IsPrefix
  <2> HIDE DEF a, b
  <2>5. (\A i \in 1..Len(s) : s[i] = t[i]) => s = b
    BY <2>3, SeqEqual
  <2>6. s = b => \A i \in 1..Len(s) : s[i] = t[i]
    BY <2>3
  <2> QED BY <1>1, <2>1, <2>4, <2>5, <2>6
<1>2. CASE ~(Len(s) <= Len(t))
  BY <1>2 DEF S!IsPrefix
<1> QED BY <1>1, <1>2

\* Only the whole path is a prefix of a file that was not one of its directory.
LEMMA PrefixOfFile ==
  ASSUME NEW s \in Seq(Name), NEW p \in Seq(Name), s # p \o S!File
  PROVE  S!IsPrefix(s, p \o S!File) <=> S!IsPrefix(s, p)
<1>1. PICK f : f = S!File
  OBVIOUS
<1>2. f \in Seq(Name) /\ Len(f) = 1
  BY <1>1, FileIs
<1>3. PICK q : q = p \o f
  OBVIOUS
<1>4. q \in Seq(Name) /\ Len(q) = Len(p) + 1 /\ \A i \in 1..Len(p) : q[i] = p[i]
  <2>1. p \o f \in Seq(Name) /\ Len(p \o f) = Len(p) + 1 /\ \A i \in 1..Len(p) : (p \o f)[i] = p[i]
    BY <1>2, AddsOne
  <2> QED BY ONLY <1>3, <2>1
<1>5. s # q
  BY <1>1, <1>3
<1>6. S!IsPrefix(s, p) <=> Len(s) <= Len(p) /\ \A i \in 1..Len(s) : s[i] = p[i]
  BY PrefixIs
<1>7. S!IsPrefix(s, q) <=> Len(s) <= Len(q) /\ \A i \in 1..Len(s) : s[i] = q[i]
  BY <1>4, PrefixIs
<1>8. Len(s) \in Nat /\ Len(p) \in Nat
  OBVIOUS
<1>9. S!IsPrefix(s, q) <=> S!IsPrefix(s, p)
  <2>1. CASE Len(s) <= Len(p)
    BY <1>4, <1>6, <1>7, <1>8, <2>1
  <2>2. CASE Len(s) = Len(p) + 1
    <3>1. S!IsPrefix(s, q) => s = q
      BY <1>4, <1>7, <2>2, SeqEqual
    <3> QED BY <1>5, <1>6, <1>8, <2>2, <3>1
  <2>3. CASE Len(s) > Len(p) + 1
    BY <1>4, <1>6, <1>7, <1>8, <2>3
  <2> QED BY ONLY <1>8, <2>1, <2>2, <2>3
<1> QED BY <1>1, <1>3, <1>9

\* Where a mapping leads.
Through(m, p) == m.root \o SubSeq(p, Len(m.prefix) + 1, Len(p))

\* The first mapping that fits is the one that a path is taken through.
LEMMA MappedIs ==
  ASSUME NEW p
  PROVE  S!Mapped(p) = IF Fitting(p) = {} THEN p ELSE Through(mappings[F!Min(Fitting(p))], p)
BY DEF S!Mapped, F!Min, Fitting, Through

\* A mapping that fits a directory leads its files to where it leads the directory.
LEMMA ThroughFile ==
  ASSUME NEW m, NEW p \in Seq(Name), m.prefix \in Seq(Name), m.root \in Seq(Name), Len(m.prefix) <= Len(p)
  PROVE  Through(m, p \o S!File) = Through(m, p) \o S!File
<1>1. PICK f : f = S!File
  OBVIOUS
<1>2. f \in Seq(Name) /\ Len(f) = 1
  BY <1>1, FileIs
<1>3. PICK q : q = p \o f
  OBVIOUS
<1>4. PICK n : n = Len(p)
  OBVIOUS
<1>5. PICK k : k = Len(m.prefix)
  OBVIOUS
<1>6. PICK root : root = m.root
  OBVIOUS
<1>7. q \in Seq(Name) /\ Len(q) = Len(p) + 1
  BY <1>2, <1>3, AddsOne
<1>8. k \in 0..n /\ n \in Nat /\ Len(q) = n + 1 /\ root \in Seq(Name)
  BY <1>4, <1>5, <1>6, <1>7
<1>9. SubSeq(q, n + 1, n + 1) = f
  <2>1. PICK j : j = n + 1
    OBVIOUS
  <2>2. j \in Len(p) + 1 .. Len(p) + Len(f) /\ j - Len(p) = 1
    BY <1>2, <1>4, <1>8, <2>1
  <2>3. SubSeq(p \o f, j, j) = SubSeq(f, j - Len(p), j - Len(p))
    BY <1>2, <2>2, SubSeqOfConcat2, ZenonT(60)
  <2>4. SubSeq(f, 1, 1) = f
    BY <1>2, SubSeqFull
  <2> QED BY <1>3, <2>1, <2>2, <2>3, <2>4
<1>10. SubSeq(q, k + 1, n) = SubSeq(p, k + 1, n)
  <2>1. CASE k = n
    <3>1. n < k + 1 /\ k + 1 \in Int /\ n \in Int
      BY <1>8, <2>1
    <3>2. SubSeq(q, k + 1, n) = <<>>
      BY <3>1, SubSeqEmpty
    <3>3. SubSeq(p, k + 1, n) = <<>>
      BY <3>1, SubSeqEmpty
    <3> QED BY <3>2, <3>3
  <2>2. CASE k # n
    <3>1. k + 1 \in 1..Len(p) /\ n \in 1..Len(p)
      BY <1>4, <1>8, <2>2
    <3> QED BY <1>2, <1>3, <3>1, SubSeqOfConcat1
  <2> QED BY <2>1, <2>2
<1>11. SubSeq(q, k + 1, n) \o SubSeq(q, n + 1, n + 1) = SubSeq(q, k + 1, n + 1)
  <2>1. PICK lo : lo = k + 1
    OBVIOUS
  <2>2. PICK j : j = n + 1
    OBVIOUS
  <2>3. lo \in 1..Len(q) + 1 /\ n \in lo - 1 .. Len(q) /\ j \in n..Len(q)
    BY <1>8, <2>1, <2>2
  <2>4. SubSeq(q, lo, n) \o SubSeq(q, n + 1, j) = SubSeq(q, lo, j)
    BY <1>7, <2>3, ConcatAdjacentSubSeq
  <2> QED BY <2>1, <2>2, <2>4
<1>12. PICK rest : rest = SubSeq(p, k + 1, n)
  OBVIOUS
<1>13. rest \in Seq(Name)
  <2>1. k + 1 \in Int /\ n \in Int /\ \A i \in k + 1 .. n : i \in 1..n
    BY ONLY <1>8
  <2>2. \A i \in 1..n : p[i] \in Name
    BY <1>4
  <2> QED BY <1>12, <2>1, <2>2, SubSeqProperties
<1>14. (root \o rest) \o f = root \o (rest \o f)
  BY ONLY <1>2, <1>8, <1>13, ConcatAssociative, SMTT(60)
<1>15. root \o SubSeq(q, k + 1, n + 1) = (root \o SubSeq(p, k + 1, n)) \o f
  BY <1>9, <1>10, <1>11, <1>12, <1>14
<1> QED BY <1>1, <1>3, <1>4, <1>5, <1>6, <1>8, <1>15 DEF Through

\* A file is where its directory is, and is found through the same mapping.
LEMMA FileOfDirectory ==
  ASSUME mappings \in Seq(MappingType), NEW p \in Directory, Fitting(p) # {}
  PROVE  S!Mapped(p \o S!File) = S!Mapped(p) \o S!File
<1> DEFINE i == F!Min(Fitting(p))
           m == mappings[i]
<1>1. p \in Seq(Name) /\ \A x \in MappingType : x.prefix \in Seq(Name) /\ x.root \in Seq(Name)
                                                /\ x.prefix # p \o S!File
  <2>1. Prefix \subseteq Seq(Name) /\ AnyRoot \subseteq Seq(Name) /\ p \o S!File \notin Prefix
    <3>1. \A s \in Seq(STRING) : s \in Seq(Name)
      BY DEF Name
    <3>2. <<>> \in Seq(Name)
      OBVIOUS
    <3> QED BY <3>1, <3>2, ServicesAssumption DEF AnyRoot, S!File
  <2>2. p \in Seq(Name)
    <3>1. \A s \in Seq(STRING) : s \in Seq(Name)
      BY DEF Name
    <3> QED BY <3>1, ServicesAssumption
  <2>3. \A x \in MappingType : x.prefix \in Prefix /\ x.root \in AnyRoot
    BY DEF MappingType
  <2> QED BY <2>1, <2>2, <2>3
<1>2. \A j \in DOMAIN mappings : mappings[j] \in MappingType
  OBVIOUS
<1>3. Fitting(p \o S!File) = Fitting(p)
  <2>1. \A j \in DOMAIN mappings : S!IsPrefix(mappings[j].prefix, p \o S!File) <=> S!IsPrefix(mappings[j].prefix, p)
    BY <1>1, <1>2, PrefixOfFile
  <2> QED BY <2>1 DEF Fitting
<1>4. i \in Fitting(p)
  <2>1. Fitting(p) \in SUBSET Nat
    BY DEF Fitting
  <2> QED BY <2>1, MinIs
<1>5. m \in MappingType /\ Len(m.prefix) <= Len(p)
  BY <1>1, <1>2, <1>4, PrefixIs DEF Fitting
<1>6. Through(m, p \o S!File) = Through(m, p) \o S!File
  BY <1>1, <1>5, ThroughFile
<1> QED BY <1>3, <1>6, MappedIs

\* The vector grows at its end, so that the first mapping that fits stays the first.
LEMMA MappingAdded ==
  ASSUME mappings \in Seq(MappingType), SettledInv, NEW prefix \in Prefix, NEW root \in AnyRoot,
         S!AddMapping(prefix, root)
  PROVE  mappings' \in Seq(MappingType) /\ SettledInv'
<1>1. PICK new : new = [prefix |-> prefix, root |-> root]
  OBVIOUS
<1>2. new \in MappingType /\ new.prefix = prefix /\ new.root = root
  BY <1>1 DEF MappingType
<1>3. PICK n : n = Len(mappings)
  OBVIOUS
<1>4. /\ mappings' \in Seq(MappingType) /\ Len(mappings') = n + 1 /\ n \in Nat
      /\ mappings'[n + 1] = new /\ \A i \in 1..n : mappings'[i] = mappings[i]
  BY <1>1, <1>2, <1>3 DEF S!AddMapping
<1>5. DOMAIN mappings = 1..n /\ DOMAIN mappings' = 1..n + 1
  BY <1>3, <1>4
<1>6. ASSUME NEW p \in Directory
      PROVE  settled'[p] = IF Fitting(p)' = {} THEN <<>> ELSE <<S!Mapped(p)'>>
  <2>1. Fitting(p)' = Fitting(p) \cup IF S!IsPrefix(prefix, p) THEN {n + 1} ELSE {}
    BY <1>2, <1>4, <1>5 DEF Fitting
  <2>2. settled'[p] = IF settled[p] = <<>> /\ S!IsPrefix(prefix, p) THEN <<Through(new, p)>> ELSE settled[p]
    BY <1>2 DEF S!AddMapping, S!Settles, Through
  <2>3. S!Mapped(p)' = IF Fitting(p)' = {} THEN p ELSE Through(mappings'[F!Min(Fitting(p)')], p)
    BY DEF S!Mapped, F!Min, Fitting, Through
  <2>4. Fitting(p) \subseteq 1..n /\ settled[p] = IF Fitting(p) = {} THEN <<>> ELSE <<S!Mapped(p)>>
    BY <1>5 DEF Fitting, SettledInv
  <2>5. PICK fits : fits = Fitting(p)'
    OBVIOUS
  <2>6. fits # {} => F!Min(fits) \in fits /\ \A i \in fits : F!Min(fits) <= i
    <3>1. fits \in SUBSET Nat
      BY <1>4, <2>1, <2>4, <2>5
    <3> QED BY <3>1, MinIs
  <2>7. CASE Fitting(p) # {}
    <3>1. F!Min(Fitting(p)) \in Fitting(p) /\ \A i \in Fitting(p) : F!Min(Fitting(p)) <= i
      <4>1. Fitting(p) \in SUBSET Nat
        BY <1>4, <2>4
      <4> QED BY <2>7, <4>1, MinIs
    <3>2. F!Min(fits) = F!Min(Fitting(p))
      <4>1. PICK i : i = F!Min(fits)
        OBVIOUS
      <4>2. PICK j : j = F!Min(Fitting(p))
        OBVIOUS
      <4>3. fits \subseteq Fitting(p) \cup {n + 1} /\ Fitting(p) \subseteq fits
        BY <2>1, <2>5
      <4>4. j \in 1..n /\ j \in fits /\ i \in fits /\ i <= j
        BY <2>4, <2>6, <3>1, <4>1, <4>2, <4>3
      <4>5. i \in Fitting(p)
        <5>1. n \in Nat /\ n + 1 > n
          BY <1>4
        <5>2. i # n + 1
          BY <4>4, <5>1
        <5> QED BY <4>3, <4>4, <5>2
      <4>6. j <= i /\ i \in 1..n
        BY <2>4, <3>1, <4>2, <4>5
      <4> QED BY <1>4, <4>1, <4>2, <4>4, <4>6
    <3>3. S!Mapped(p)' = S!Mapped(p)
      BY <1>4, <2>1, <2>3, <2>4, <2>5, <2>7, <3>1, <3>2, MappedIs
    <3>4. settled[p] = <<S!Mapped(p)>> /\ settled[p] # <<>>
      BY <2>4, <2>7
    <3> QED BY <2>1, <2>2, <2>7, <3>3, <3>4
  <2>8. CASE Fitting(p) = {} /\ S!IsPrefix(prefix, p)
    <3>1. F!Min(fits) = n + 1
      BY <2>1, <2>5, <2>6, <2>8
    <3>2. S!Mapped(p)' = Through(new, p)
      BY <1>4, <2>1, <2>3, <2>5, <2>8, <3>1
    <3> QED BY <2>1, <2>2, <2>4, <2>8, <3>2
  <2>9. CASE Fitting(p) = {} /\ ~S!IsPrefix(prefix, p)
    BY <2>1, <2>2, <2>4, <2>9
  <2> QED BY <2>7, <2>8, <2>9
<1>7. SettledInv'
  BY <1>6 DEF SettledInv
<1> QED BY <1>4, <1>7

\* Nothing is settled any more when the mappings are cleared.
LEMMA MappingsCleared ==
  ASSUME mappings' = <<>>, settled' = [p \in Directory |-> <<>>]
  PROVE  mappings' \in Seq(MappingType) /\ SettledInv'
<1>1. mappings' \in Seq(MappingType)
  BY ONLY mappings' = <<>>
<1>2. \A p \in Directory : Fitting(p)' = {}
  BY ONLY mappings' = <<>> DEF Fitting
<1>3. \A p \in Directory : settled'[p] = <<>>
  BY ONLY settled' = [p \in Directory |-> <<>>]
<1>4. SettledInv'
  BY ONLY <1>2, <1>3, Zenon DEF SettledInv
<1> QED BY <1>1, <1>4

\* A directory stays where it is while the mappings are left alone.
LEMMA MappingsKept ==
  ASSUME SettledInv, UNCHANGED <<mappings, settled>>
  PROVE  SettledInv'
BY DEF SettledInv, Fitting, S!Mapped

\* A step of one thread, in a call for client c, leaves the other clients' calls what
\* they were: the step only has to leave c with what its call remembers.
LEMMA CallStep ==
  ASSUME ClientTypeOK, SessionInv, NEW t \in Pair, NEW c \in AnyClient, NEW w \in WorkType \cup {S!NoWork},
         work' = [work EXCEPT ![t] = w],
         InCallOf(t, c) \/ (work[t] = S!NoWork /\ (c \in Client => \A u \in Pair : ~InCallOf(u, c))),
         w # S!NoWork => w.client = c /\ (w.stage # "translate" => c \in Client),
         \A d \in Client : d # c => S!Session(d)' = S!Session(d) /\ own'[d] = own[d]
                                    /\ (d \in DOMAIN session' <=> d \in DOMAIN session),
         c \in Client => IF w = S!NoWork THEN S!Session(c)' = own'[c] ELSE Remembers(c, w)'
  PROVE  work' \in [Pair -> WorkType \cup {S!NoWork}] /\ SessionInv'
<1>1. work' \in [Pair -> WorkType \cup {S!NoWork}] /\ work'[t] = w /\ \A u \in Pair \ {t} : work'[u] = work[u]
  BY DEF ClientTypeOK
<1>2. \A u \in Pair : work'[u] # S!NoWork /\ work'[u].stage # "translate" => work'[u].client \in Client
  BY <1>1 DEF SessionInv
<1>3. ASSUME NEW d \in Client
      PROVE  /\ \A u, v \in Pair : InCallOf(u, d)' /\ InCallOf(v, d)' => u = v
             /\ (\A u \in Pair : ~InCallOf(u, d)') => S!Session(d)' = own'[d]
             /\ \A u \in Pair : InCallOf(u, d)' => Remembers(d, work[u])'
  <2>1. \A u \in Pair \ {t} : InCallOf(u, d)' <=> InCallOf(u, d)
    BY <1>1 DEF InCallOf
  <2>2. CASE d = c
    <3>1. \A u \in Pair \ {t} : ~InCallOf(u, c)
      BY <2>2 DEF SessionInv
    <3>2. \A u \in Pair \ {t} : ~InCallOf(u, c)'
      BY <2>1, <2>2, <3>1
    <3>3. InCallOf(t, c)' <=> w # S!NoWork
      BY <1>1 DEF InCallOf
    <3>4. w # S!NoWork => Remembers(c, work[t])'
      <4>1. w # S!NoWork => Remembers(c, w)'
        BY <2>2
      <4> QED BY <1>1, <4>1 DEF Remembers
    <3>5. \A u \in Pair : InCallOf(u, d)' => u = t /\ w # S!NoWork
      BY <2>2, <3>2, <3>3
    <3> QED BY <2>2, <3>3, <3>4, <3>5
  <2>3. CASE d # c
    <3>1. ~InCallOf(t, d) /\ ~InCallOf(t, d)'
      BY <1>1, <2>3 DEF InCallOf
    <3>2. \A u \in Pair : InCallOf(u, d)' <=> InCallOf(u, d)
      BY <2>1, <3>1
    <3>3. ASSUME NEW u \in Pair, InCallOf(u, d) PROVE Remembers(d, work[u])'
      <4>1. PICK x : x = work[u]
        OBVIOUS
      <4>2. work'[u] = x /\ Remembers(d, x)
        BY <1>1, <3>1, <3>3, <4>1 DEF SessionInv
      <4>3. S!Session(d)' = S!Session(d) /\ own'[d] = own[d] /\ (d \in DOMAIN session' <=> d \in DOMAIN session)
        BY <2>3
      <4> QED BY <4>2, <4>3 DEF Remembers
    <3> QED BY <2>3, <3>2, <3>3 DEF SessionInv
  <2> QED BY <2>2, <2>3
<1>4. SessionInv'
  BY <1>2, <1>3 DEF SessionInv
<1> QED BY <1>1, <1>4

\* A client without a call in progress is left with the session that it has.
LEMMA LeaveStep ==
  ASSUME ClientTypeOK, SessionInv, NEW t \in Pair, NEW c \in AnyClient, NEW status, NEW records \in BOOLEAN,
         S!Leave(t, c, status, records), session' = session,
         InCallOf(t, c) \/ (work[t] = S!NoWork /\ (c \in Client => \A u \in Pair : ~InCallOf(u, c))),
         c \in Client => S!Session(c) = own[c]
  PROVE  /\ work' \in [Pair -> WorkType \cup {S!NoWork}] /\ own' \in [Client -> SessionType] /\ SessionInv'
<1>0. S!statusToError(status) \in ErrorOrOp /\ S!Nowhere \in AnyDirectory
  BY DEF S!statusToError, ErrorOrOp, AnyDirectory
<1>1. PICK e : e = S!statusToError(status)
  OBVIOUS
<1>2. \A d \in AnyClient : S!Session(d)' = S!Session(d)
  BY DEF S!Session
<1>3. CASE records /\ c # NoClient
  <2>1. PICK w : w = S!Working(c, "record", e)
    OBVIOUS
  <2>2. w \in WorkType /\ w.client = c /\ w.stage = "record" /\ w.arg = e /\ w.cwd = S!Nowhere
    <3>1. "record" \in WorkStage
      BY DEF WorkStage
    <3> QED BY <1>0, <1>1, <2>1, <3>1 DEF S!Working, WorkType
  <2>3. c \in Client
    BY <1>3 DEF AnyClient
  <2>4. work' = [work EXCEPT ![t] = w] /\ own' = [own EXCEPT ![c].error = e]
    BY <1>1, <1>3, <2>1 DEF S!Leave, S!Goes
  <2>5. PICK s : s = own[c]
    OBVIOUS
  <2>6. s \in SessionType /\ [s EXCEPT !.error = e] = [cwd |-> s.cwd, error |-> e]
        /\ [s EXCEPT !.error = e] \in SessionType
    <3>1. s \in SessionType
      BY <2>3, <2>5 DEF ClientTypeOK
    <3> QED BY <1>0, <1>1, <3>1 DEF SessionType
  <2>7. own' \in [Client -> SessionType] /\ own'[c] = [cwd |-> s.cwd, error |-> e]
        /\ \A d \in Client : d # c => own'[d] = own[d]
    BY <2>3, <2>4, <2>5, <2>6 DEF ClientTypeOK
  <2>8. Remembers(c, w)'
    BY <1>2, <2>2, <2>3, <2>5, <2>7 DEF Remembers, AnyClient
  <2>9. w # S!NoWork
    BY <2>2, SMTT(60) DEF WorkType, S!NoWork
  <2>10. \A d \in Client : d # c => S!Session(d)' = S!Session(d) /\ own'[d] = own[d]
                                     /\ (d \in DOMAIN session' <=> d \in DOMAIN session)
    BY <1>2, <2>7 DEF AnyClient
  <2>11. work' \in [Pair -> WorkType \cup {S!NoWork}] /\ SessionInv'
    BY <2>2, <2>3, <2>4, <2>8, <2>9, <2>10, CallStep
  <2> QED BY <2>7, <2>11
<1>4. CASE ~(records /\ c # NoClient)
  <2>1. work' = [work EXCEPT ![t] = S!NoWork] /\ own' = own
    BY <1>4 DEF S!Leave, S!Goes
  <2>2. S!NoWork \in WorkType \cup {S!NoWork}
    OBVIOUS
  <2>3. \A d \in Client : d # c => S!Session(d)' = S!Session(d) /\ own'[d] = own[d]
                                    /\ (d \in DOMAIN session' <=> d \in DOMAIN session)
    BY <1>2, <2>1 DEF AnyClient
  <2>4. c \in Client => S!Session(c)' = own'[c]
    BY <1>2, <2>1
  <2> QED BY <2>1, <2>2, <2>3, <2>4, CallStep DEF ClientTypeOK
<1> QED BY <1>3, <1>4

\* A client that a call may start for has the session that its calls left it with.
LEMMA FreeClient ==
  ASSUME SessionInv, NEW t \in Pair, NEW c \in AnyClient, S!Calls(t, c)
  PROVE  /\ work[t] = S!NoWork
         /\ c \in Client => (\A u \in Pair : ~InCallOf(u, c)) /\ S!Session(c) = own[c]
<1>1. work[t] = S!NoWork /\ (c # NoClient => \A u \in Pair : ~InCallOf(u, c))
  BY DEF S!Calls, InCallOf
<1>2. c \in Client => c # NoClient
  BY ServicesAssumption
<1> QED BY <1>1, <1>2 DEF SessionInv

\* A call in progress is of its thread, and its client lacks what it remembers.
LEMMA AtStage ==
  ASSUME ClientTypeOK, SessionInv, NEW t \in Pair, NEW stage, S!At(t, stage)
  PROVE  /\ work[t] \in WorkType /\ work[t].stage = stage /\ work[t] # S!NoWork
         /\ work[t].client \in AnyClient /\ InCallOf(t, work[t].client)
         /\ work[t].client \in Client => Remembers(work[t].client, work[t])
         /\ stage # "translate" => work[t].client \in Client
<1>1. work[t] \in WorkType /\ work[t].stage = stage /\ work[t] # S!NoWork
  BY DEF S!At, ClientTypeOK
<1>2. work[t].client \in AnyClient /\ InCallOf(t, work[t].client)
  BY <1>1 DEF WorkType, InCallOf
<1> QED BY <1>1, <1>2 DEF SessionInv

\* A session that is written is its client's alone.
LEMMA SessionWritten ==
  ASSUME ClientTypeOK, NEW c \in Client, NEW v \in SessionType,
         DOMAIN session' = DOMAIN session \cup {c}, session'[c] = v,
         \A d \in DOMAIN session : d # c => session'[d] = session[d]
  PROVE  /\ DOMAIN session' \subseteq Client /\ \A d \in DOMAIN session' : session'[d] \in SessionType
         /\ S!Session(c)' = v
         /\ \A d \in Client : d # c => S!Session(d)' = S!Session(d)
                                       /\ (d \in DOMAIN session' <=> d \in DOMAIN session)
<1>1. DOMAIN session' \subseteq Client /\ \A d \in DOMAIN session' : session'[d] \in SessionType
  BY DEF ClientTypeOK
<1> QED BY <1>1 DEF S!Session

\* A path is taken: the session is not touched.
LEMMA StartPathKeeps ==
  ASSUME ClientInv, NEW t \in Pair, NEW c \in AnyClient, NEW op \in Operation, S!StartPath(t, c, op)
  PROVE  ClientInv'
<1> USE DEF ClientInv
<1>1. S!Calls(t, c) /\ UNCHANGED <<session, mappings, own, settled>>
  BY DEF S!StartPath
<1>2. PICK w : w = S!Working(c, "translate", op)
  OBVIOUS
<1>3. w \in WorkType /\ w.client = c /\ w.stage = "translate"
  <2>1. op \in ErrorOrOp /\ "translate" \in WorkStage /\ S!Nowhere \in AnyDirectory
    BY DEF ErrorOrOp, WorkStage, AnyDirectory
  <2> QED BY <1>2, <2>1 DEF WorkType, S!Working
<1>4. work' = [work EXCEPT ![t] = w]
  BY <1>2 DEF S!StartPath, S!Goes
<1>5. work[t] = S!NoWork /\ (c \in Client => (\A u \in Pair : ~InCallOf(u, c)) /\ S!Session(c) = own[c])
  BY <1>1, FreeClient
<1>6. \A d \in AnyClient : S!Session(d)' = S!Session(d)
  BY <1>1 DEF S!Session
<1>7. \A d \in Client : d # c => S!Session(d)' = S!Session(d) /\ own'[d] = own[d]
                                 /\ (d \in DOMAIN session' <=> d \in DOMAIN session)
  BY <1>1, <1>6 DEF AnyClient
<1>8. c \in Client => IF w = S!NoWork THEN S!Session(c)' = own'[c] ELSE Remembers(c, w)'
  <2>1. c \in Client => S!Session(c)' = own'[c]
    BY <1>1, <1>5, <1>6
  <2> QED BY <1>3, <2>1 DEF Remembers
<1>9. work' \in [Pair -> WorkType \cup {S!NoWork}] /\ SessionInv'
  BY <1>3, <1>4, <1>5, <1>7, <1>8, CallStep
<1> QED BY <1>1, <1>9, MappingsKept DEF ClientTypeOK

\* The host has answered: the status is yet to be recorded, or the call is over.
LEMMA EndPathKeeps ==
  ASSUME ClientInv, NEW t \in Pair, NEW status, S!EndPath(t, status)
  PROVE  ClientInv'
<1> USE DEF ClientInv
<1>1. PICK c : c = work[t].client
  OBVIOUS
<1>2. PICK records \in BOOLEAN : S!Leave(t, c, status, records)
  BY <1>1 DEF S!EndPath, S!Records, S!Leave
<1>3. S!At(t, "translate") /\ UNCHANGED <<session, mappings, settled>>
  BY DEF S!EndPath
<1>4. c \in AnyClient /\ InCallOf(t, c) /\ (c \in Client => S!Session(c) = own[c])
  BY <1>1, <1>3, AtStage DEF Remembers
<1>5. work' \in [Pair -> WorkType \cup {S!NoWork}] /\ own' \in [Client -> SessionType] /\ SessionInv'
  BY <1>2, <1>3, <1>4, LeaveStep
<1> QED BY <1>3, <1>5, MappingsKept DEF ClientTypeOK

\* A call that ends with the session of its client written as it remembers it.
LEMMA SessionEnds ==
  ASSUME ClientInv, NEW t \in Pair, NEW c \in Client, NEW v \in SessionType,
         InCallOf(t, c) \/ (work[t] = S!NoWork /\ \A u \in Pair : ~InCallOf(u, c)),
         DOMAIN session' = DOMAIN session \cup {c}, session'[c] = v,
         \A d \in DOMAIN session : d # c => session'[d] = session[d],
         work' = [work EXCEPT ![t] = S!NoWork],
         own' \in [Client -> SessionType], own'[c] = v, \A d \in Client : d # c => own'[d] = own[d],
         UNCHANGED <<mappings, settled>>
  PROVE  ClientInv'
<1> USE DEF ClientInv
<1>1. /\ DOMAIN session' \subseteq Client /\ \A d \in DOMAIN session' : session'[d] \in SessionType
      /\ S!Session(c)' = v
      /\ \A d \in Client : d # c => S!Session(d)' = S!Session(d) /\ (d \in DOMAIN session' <=> d \in DOMAIN session)
  BY SessionWritten
<1>2. S!NoWork \in WorkType \cup {S!NoWork} /\ c \in AnyClient
  BY DEF AnyClient
<1>3. \A d \in Client : d # c => S!Session(d)' = S!Session(d) /\ own'[d] = own[d]
                                 /\ (d \in DOMAIN session' <=> d \in DOMAIN session)
  BY <1>1
<1>4. work' \in [Pair -> WorkType \cup {S!NoWork}] /\ SessionInv'
  BY <1>1, <1>2, <1>3, CallStep
<1> QED BY <1>1, <1>4, MappingsKept DEF ClientTypeOK

\* An error is recorded for a client that is in the map.
LEMMA RecordKeeps ==
  ASSUME ClientInv, NEW t \in Pair, S!Record(t)
  PROVE  ClientInv'
<1> USE DEF ClientInv
<1>1. PICK w : w = work[t]
  OBVIOUS
<1>2. PICK c : c = w.client
  OBVIOUS
<1>3. /\ S!At(t, "record") /\ c \in DOMAIN session /\ session' = [session EXCEPT ![c].error = w.arg]
      /\ work' = [work EXCEPT ![t] = S!NoWork] /\ UNCHANGED <<mappings, own, settled>>
  BY <1>1, <1>2 DEF S!Record, S!Goes
<1>4. w \in WorkType /\ w.stage = "record" /\ InCallOf(t, c) /\ c \in Client /\ Remembers(c, w)
  BY <1>1, <1>2, <1>3, AtStage
<1>5. PICK s : s = session[c]
  OBVIOUS
<1>6. PICK v : v = [s EXCEPT !.error = w.arg]
  OBVIOUS
<1>7. s \in SessionType /\ S!Session(c) = s
  BY <1>3, <1>5 DEF ClientTypeOK, S!Session
<1>8. v \in SessionType /\ v = [cwd |-> s.cwd, error |-> w.arg]
  <2>1. w.arg \in ErrorOrOp
    BY <1>4 DEF WorkType
  <2> QED BY <1>6, <1>7, <2>1 DEF SessionType
<1>9. own[c] = v /\ own' = own /\ own \in [Client -> SessionType]
  BY <1>3, <1>4, <1>7, <1>8 DEF Remembers, ClientTypeOK
<1>10. DOMAIN session' = DOMAIN session \cup {c} /\ session'[c] = v
       /\ \A d \in DOMAIN session : d # c => session'[d] = session[d]
  BY <1>3, <1>5, <1>6
<1> QED BY <1>3, <1>4, <1>8, <1>9, <1>10, SessionEnds, ZenonT(60)

\* What was to be inserted is inserted.
LEMMA EndInsertKeeps ==
  ASSUME ClientInv, NEW t \in Pair, S!EndInsert(t)
  PROVE  ClientInv'
<1> USE DEF ClientInv
<1>1. PICK w : w = work[t]
  OBVIOUS
<1>2. PICK c : c = w.client
  OBVIOUS
<1>3. PICK v : v = [cwd |-> w.cwd, error |-> w.arg]
  OBVIOUS
<1>4. /\ S!At(t, "insert")
      /\ session' = [d \in DOMAIN session \cup {c} |-> IF d # c THEN session[d] ELSE v]
      /\ work' = [work EXCEPT ![t] = S!NoWork] /\ UNCHANGED <<mappings, own, settled>>
  BY <1>1, <1>2, <1>3 DEF S!EndInsert, S!Goes
<1>5. w \in WorkType /\ w.stage = "insert" /\ InCallOf(t, c) /\ c \in Client /\ Remembers(c, w)
  BY <1>1, <1>2, <1>4, AtStage
<1>6. v \in SessionType
  BY <1>3, <1>5 DEF WorkType, SessionType
<1>7. own[c] = v /\ own' = own /\ own \in [Client -> SessionType]
  BY <1>3, <1>4, <1>5 DEF Remembers, ClientTypeOK
<1>8. DOMAIN session' = DOMAIN session \cup {c} /\ session'[c] = v
       /\ \A d \in DOMAIN session : d # c => session'[d] = session[d]
  BY <1>4
<1> QED BY <1>4, <1>5, <1>6, <1>7, <1>8, SessionEnds

\* An error is to be recorded for a client that is not in the map.
LEMMA RecordFirstKeeps ==
  ASSUME ClientInv, NEW t \in Pair, S!RecordFirst(t)
  PROVE  ClientInv'
<1> USE DEF ClientInv
<1>1. PICK old : old = work[t]
  OBVIOUS
<1>2. PICK c : c = old.client
  OBVIOUS
<1>3. PICK w : w = [old EXCEPT !.stage = "insert"]
  OBVIOUS
<1>4. /\ S!At(t, "record") /\ c \notin DOMAIN session /\ work' = [work EXCEPT ![t] = w]
      /\ UNCHANGED <<session, mappings, own, settled>>
  BY <1>1, <1>2, <1>3 DEF S!RecordFirst, S!Goes
<1>5. old \in WorkType /\ old.stage = "record" /\ InCallOf(t, c) /\ c \in Client /\ Remembers(c, old)
  BY <1>1, <1>2, <1>4, AtStage
<1>6. w \in WorkType /\ w.client = c /\ w.stage = "insert" /\ w.arg = old.arg /\ w.cwd = old.cwd
  <2>1. "insert" \in WorkStage
    BY DEF WorkStage
  <2> QED BY <1>2, <1>3, <1>5, <2>1 DEF WorkType
<1>7. \A d \in Client : S!Session(d)' = S!Session(d)
  BY <1>4 DEF S!Session
<1>8. \A d \in Client : d # c => S!Session(d)' = S!Session(d) /\ own'[d] = own[d]
                                 /\ (d \in DOMAIN session' <=> d \in DOMAIN session)
  BY <1>4, <1>7
<1>9. own[c] = [cwd |-> w.cwd, error |-> w.arg]
  <2>1. S!Session(c).cwd = S!Nowhere
    BY <1>4 DEF S!Session, S!Fresh
  <2> QED BY <1>5, <1>6, <2>1 DEF Remembers
<1>10. Remembers(c, w)' /\ w # S!NoWork /\ c \in AnyClient
  <2>1. w # S!NoWork
    BY <1>6 DEF WorkType, S!NoWork
  <2> QED BY <1>4, <1>5, <1>6, <1>9, <2>1 DEF Remembers, AnyClient
<1>11. work' \in [Pair -> WorkType \cup {S!NoWork}] /\ SessionInv'
  BY <1>4, <1>5, <1>6, <1>8, <1>10, CallStep
<1> QED BY <1>4, <1>11, MappingsKept DEF ClientTypeOK

\* A client changes its directory, or asks for the one it is in: a new one is to be
\* inserted.
LEMMA ChangeDirKeeps ==
  ASSUME ClientInv, NEW t \in Pair, NEW c \in Client, NEW cwd \in AnyDirectory, S!ChangeDir(t, c, cwd)
  PROVE  ClientInv'
<1> USE DEF ClientInv
<1>1. S!Calls(t, c) /\ own' = [own EXCEPT ![c].cwd = cwd] /\ UNCHANGED <<mappings, settled>> /\ c \in AnyClient
  BY DEF S!ChangeDir, AnyClient
<1>2. work[t] = S!NoWork /\ (\A u \in Pair : ~InCallOf(u, c)) /\ S!Session(c) = own[c]
  BY <1>1, FreeClient
<1>3. PICK s : s = own[c]
  OBVIOUS
<1>4. PICK v : v = [s EXCEPT !.cwd = cwd]
  OBVIOUS
<1>5. s \in SessionType /\ v \in SessionType /\ v = [cwd |-> cwd, error |-> s.error]
  <2>1. s \in SessionType
    BY <1>3 DEF ClientTypeOK
  <2> QED BY <1>4, <2>1 DEF SessionType
<1>6. own' \in [Client -> SessionType] /\ own'[c] = v /\ \A d \in Client : d # c => own'[d] = own[d]
  BY <1>1, <1>3, <1>4, <1>5 DEF ClientTypeOK
<1>7. CASE c \in DOMAIN session
  <2>1. session' = [session EXCEPT ![c].cwd = cwd] /\ work' = work
    BY <1>7 DEF S!ChangeDir
  <2>2. session[c] = s
    BY <1>2, <1>3, <1>7 DEF S!Session
  <2>3. DOMAIN session' = DOMAIN session \cup {c} /\ session'[c] = v
        /\ \A d \in DOMAIN session : d # c => session'[d] = session[d]
    BY <1>4, <1>7, <2>1, <2>2
  <2>4. work' = [work EXCEPT ![t] = S!NoWork]
    BY <1>2, <2>1 DEF ClientTypeOK
  <2> QED BY <1>1, <1>2, <1>5, <1>6, <2>3, <2>4, SessionEnds
<1>8. CASE c \notin DOMAIN session
  <2>1. PICK w : w = [S!Working(c, "insert", "OK") EXCEPT !.cwd = cwd]
    OBVIOUS
  <2>2. work' = [work EXCEPT ![t] = w] /\ session' = session
    BY <1>8, <2>1 DEF S!ChangeDir, S!Goes
  <2>3. w = [client |-> c, stage |-> "insert", arg |-> "OK", cwd |-> cwd]
    BY <2>1 DEF S!Working
  <2>4. w \in WorkType /\ w.client = c /\ w.stage = "insert" /\ w.arg = "OK" /\ w.cwd = cwd
    <3>1. "insert" \in WorkStage /\ "OK" \in ErrorOrOp
      BY DEF WorkStage, ErrorOrOp
    <3> QED BY <1>1, <2>3, <3>1 DEF WorkType
  <2>5. s.error = "OK"
    BY <1>2, <1>3, <1>8 DEF S!Session, S!Fresh
  <2>6. Remembers(c, w)' /\ w # S!NoWork
    <3>1. w # S!NoWork
      BY <2>4, SMTT(60) DEF WorkType, S!NoWork
    <3> QED BY <1>5, <1>6, <1>8, <2>2, <2>4, <2>5, <3>1 DEF Remembers
  <2>7. \A d \in Client : S!Session(d)' = S!Session(d)
    BY <2>2 DEF S!Session
  <2>8. \A d \in Client : d # c => S!Session(d)' = S!Session(d) /\ own'[d] = own[d]
                                   /\ (d \in DOMAIN session' <=> d \in DOMAIN session)
    BY <1>6, <2>2, <2>7
  <2>9. work' \in [Pair -> WorkType \cup {S!NoWork}] /\ SessionInv'
    BY <1>1, <1>2, <2>2, <2>4, <2>6, <2>8, CallStep
  <2> QED BY <1>1, <1>6, <2>2, <2>9, MappingsKept DEF ClientTypeOK
<1> QED BY <1>7, <1>8

\* A volume is mounted, or a mount source asked for: the status is yet to be recorded.
LEMMA MountKeeps ==
  ASSUME ClientInv, NEW t \in Pair, NEW c \in AnyClient, NEW status,
         S!Calls(t, c), S!Leave(t, c, status, TRUE), session' = session,
         \/ UNCHANGED <<mappings, settled>>
         \/ \E prefix \in Prefix : S!AddMapping(prefix, <<>>)
  PROVE  ClientInv'
<1> USE DEF ClientInv
<1>1. work[t] = S!NoWork /\ (c \in Client => (\A u \in Pair : ~InCallOf(u, c)) /\ S!Session(c) = own[c])
  BY FreeClient
<1>2. work' \in [Pair -> WorkType \cup {S!NoWork}] /\ own' \in [Client -> SessionType] /\ SessionInv'
  BY <1>1, LeaveStep
<1>3. mappings' \in Seq(MappingType) /\ SettledInv'
  <2>1. CASE UNCHANGED <<mappings, settled>>
    BY <2>1, MappingsKept DEF ClientTypeOK
  <2>2. ASSUME NEW prefix \in Prefix, S!AddMapping(prefix, <<>>) PROVE mappings' \in Seq(MappingType) /\ SettledInv'
    <3>1. <<>> \in AnyRoot
      BY DEF AnyRoot
    <3> QED BY <2>2, <3>1, MappingAdded DEF ClientTypeOK
  <2> QED BY <2>1, <2>2
<1> QED BY <1>2, <1>3 DEF ClientTypeOK

\* The sessions are left alone while a volume is mapped or the mappings are cleared.
LEMMA SessionsLeft ==
  ASSUME ClientTypeOK, SessionInv, UNCHANGED <<session, own, work>>
  PROVE  SessionInv'
<1>1. \A c \in Client : S!Session(c)' = S!Session(c)
  BY DEF S!Session
<1>2. ASSUME NEW c \in Client, NEW t \in Pair, Remembers(c, work[t]) PROVE Remembers(c, work[t])'
  BY <1>1, <1>2 DEF Remembers
<1> QED BY <1>1, <1>2 DEF SessionInv, InCallOf

\* A mapping, or the loss of all of them, leaves the clients and what they hold alone.
LEMMA MappingsKeep ==
  ASSUME ClientInv, UNCHANGED <<session, own, work>>,
         \/ UNCHANGED <<mappings, settled>>
         \/ mappings' = <<>> /\ settled' = [p \in Directory |-> <<>>]
         \/ \E prefix \in Prefix, root \in Root : S!AddMapping(prefix, root)
  PROVE  ClientInv'
<1> USE DEF ClientInv
<1>1. mappings' \in Seq(MappingType) /\ SettledInv'
  <2>1. CASE UNCHANGED <<mappings, settled>>
    BY <2>1, MappingsKept DEF ClientTypeOK
  <2>2. CASE mappings' = <<>> /\ settled' = [p \in Directory |-> <<>>]
    BY <2>2, MappingsCleared
  <2>3. ASSUME NEW prefix \in Prefix, NEW root \in Root, S!AddMapping(prefix, root)
        PROVE  mappings' \in Seq(MappingType) /\ SettledInv'
    <3>1. root \in AnyRoot
      BY DEF AnyRoot
    <3> QED BY <2>3, <3>1, MappingAdded DEF ClientTypeOK
  <2> QED BY <2>1, <2>2, <2>3
<1> QED BY <1>1, SessionsLeft DEF ClientTypeOK

\* FSShutdown forgets every session while no call is in progress.
LEMMA ShutdownClientsKeeps ==
  ASSUME ClientInv, S!ShutdownClients
  PROVE  ClientInv'
<1> USE DEF ClientInv
<1>1. /\ \A t \in Pair : work[t] = S!NoWork
      /\ session' = <<>> /\ own' = [c \in Client |-> S!Fresh] /\ UNCHANGED <<mappings, work, settled>>
  BY DEF S!ShutdownClients
<1>2. DOMAIN session' = {} /\ \A c \in Client : S!Session(c)' = S!Fresh
  BY <1>1 DEF S!Session
<1>3. S!Fresh \in SessionType
  BY DEF S!Fresh, SessionType, AnyDirectory, ErrorOrOp
<1>4. ClientTypeOK'
  BY <1>1, <1>2, <1>3 DEF ClientTypeOK
<1>5. SessionInv'
  BY <1>1, <1>2 DEF SessionInv, InCallOf
<1> QED BY <1>1, <1>4, <1>5, MappingsKept

\* There is no session, no call and no mapping at the start.
LEMMA ClientsStart ==
  ASSUME S!ClientInit
  PROVE  ClientInv
<1> USE DEF S!ClientInit
<1>1. DOMAIN session = {} /\ \A c \in Client : S!Session(c) = S!Fresh
  BY DEF S!Session
<1>2. S!Fresh \in SessionType
  BY DEF S!Fresh, SessionType, AnyDirectory, ErrorOrOp
<1>3. ClientTypeOK
  BY <1>1, <1>2 DEF ClientTypeOK
<1>4. SessionInv
  BY <1>1 DEF SessionInv, InCallOf
<1>5. SettledInv
  BY DEF SettledInv, Fitting
<1> QED BY <1>3, <1>4, <1>5 DEF ClientInv

\* Every call keeps the sessions, whatever another thread meets in the maps.
LEMMA ClientsKeep ==
  ASSUME ClientInv, S!ClientNext \/ UNCHANGED clientVars
  PROVE  ClientInv'
<1>1. ASSUME NEW t \in Pair, NEW c \in AnyClient,
             \/ \E op \in Operation : S!StartPath(t, c, op)
             \/ \E cwd \in Directory : S!ChangeDir(t, c, cwd)
             \/ \E prefix \in Prefix : S!Mount(t, c, prefix)
             \/ \E status \in {"OK", "FATAL_ERROR"} : S!GetMountSource(t, c, status)
             \/ S!GetCwd(t, c) \/ S!GetLastError(t, c)
      PROVE  ClientInv'
  <2>1. ASSUME NEW cwd \in Directory, S!ChangeDir(t, c, cwd) PROVE ClientInv'
    <3>1. c \in Client /\ cwd \in AnyDirectory
      BY <2>1 DEF S!ChangeDir, AnyClient, AnyDirectory
    <3> QED BY <2>1, <3>1, ChangeDirKeeps
  <2>2. ASSUME NEW prefix \in Prefix, S!Mount(t, c, prefix) PROVE ClientInv'
    <3>1. S!Calls(t, c) /\ S!Leave(t, c, "OK", TRUE) /\ session' = session /\ S!AddMapping(prefix, <<>>)
      BY <2>2 DEF S!Mount
    <3> QED BY <3>1, MountKeeps
  <2>3. ASSUME NEW status, S!GetMountSource(t, c, status) PROVE ClientInv'
    <3>1. S!Calls(t, c) /\ S!Leave(t, c, status, TRUE) /\ session' = session /\ UNCHANGED <<mappings, settled>>
      BY <2>3 DEF S!GetMountSource
    <3> QED BY <3>1, MountKeeps
  <2>4. CASE S!GetCwd(t, c)
    <3>1. PICK cwd : cwd = S!Session(c).cwd
      OBVIOUS
    <3>2. S!ChangeDir(t, c, cwd) /\ c \in Client
      BY <2>4, <3>1 DEF S!GetCwd, S!ChangeDir, AnyClient
    <3>3. S!Session(c) \in SessionType
      BY <3>2 DEF S!Session, ClientInv, ClientTypeOK, S!Fresh, SessionType, AnyDirectory, ErrorOrOp
    <3>4. cwd \in AnyDirectory
      BY <3>1, <3>3 DEF SessionType
    <3> QED BY <3>2, <3>4, ChangeDirKeeps
  <2>5. CASE S!GetLastError(t, c)
    <3>1. UNCHANGED <<session, own, work, mappings, settled>>
      BY <2>5 DEF S!GetLastError
    <3> QED BY <3>1, MappingsKeep
  <2> QED BY <1>1, <2>1, <2>2, <2>3, <2>4, <2>5, StartPathKeeps
<1>2. ASSUME NEW t \in Pair,
             \/ \E prefix \in Prefix, root \in Root : S!AddVolumeMapping(t, prefix, root)
             \/ S!AddClient(t) \/ S!DelClient(t) \/ S!ClearVolumeMappings(t)
      PROVE  ClientInv'
  <2>1. ASSUME NEW prefix \in Prefix, NEW root \in Root, S!AddVolumeMapping(t, prefix, root) PROVE ClientInv'
    <3>1. S!AddMapping(prefix, root) /\ UNCHANGED <<session, own, work>>
      BY <2>1 DEF S!AddVolumeMapping
    <3> QED BY <3>1, MappingsKeep
  <2>2. CASE S!AddClient(t)
    <3>1. UNCHANGED <<session, own, work, mappings, settled>>
      BY <2>2 DEF S!AddClient
    <3> QED BY <3>1, MappingsKeep
  <2>3. CASE S!DelClient(t)
    <3>1. UNCHANGED <<session, own, work, mappings, settled>>
      BY <2>3 DEF S!DelClient
    <3> QED BY <3>1, MappingsKeep
  <2>4. CASE S!ClearVolumeMappings(t)
    <3>1. mappings' = <<>> /\ settled' = [p \in Directory |-> <<>>] /\ UNCHANGED <<session, own, work>>
      BY <2>4 DEF S!ClearVolumeMappings
    <3> QED BY <3>1, MappingsKeep
  <2> QED BY <1>2, <2>1, <2>2, <2>3, <2>4
<1>3. CASE S!ClientNext
  BY <1>1, <1>2, <1>3, EndPathKeeps, RecordKeeps, RecordFirstKeeps, EndInsertKeeps, ShutdownClientsKeeps
  DEF S!ClientNext, Operation, AnyClient
<1>4. CASE UNCHANGED clientVars
  <2>1. UNCHANGED <<session, own, work, mappings, settled>>
    BY <1>4 DEF clientVars
  <2> QED BY <2>1, MappingsKeep
<1> QED BY <1>3, <1>4

\* So a client between two calls has what its own calls left it with, and its files are
\* where its directory was first mapped to.
LEMMA SessionsAreKept ==
  ASSUME ClientInv
  PROVE  S!SessionsKept
<1> USE DEF ClientInv
<1>1. ASSUME NEW c \in Client, \A t \in Pair : work[t] = S!NoWork \/ work[t].client # c
      PROVE  S!Session(c) = own[c]
  BY <1>1 DEF SessionInv, InCallOf
<1>2. ASSUME NEW c \in Client, S!Session(c) = own[c], own[c].cwd # S!Nowhere, settled[own[c].cwd] # <<>>
      PROVE  S!Translate(c) = settled[own[c].cwd][1] \o S!File
  <2>1. PICK p : p = own[c].cwd
    OBVIOUS
  <2>2. own[c] \in SessionType
    BY DEF ClientTypeOK
  <2>3. p \in Directory
    BY <1>2, <2>1, <2>2 DEF SessionType, AnyDirectory
  <2>4. Fitting(p) # {} /\ settled[p] = <<S!Mapped(p)>>
    BY <1>2, <2>1, <2>3 DEF SettledInv
  <2>5. S!Mapped(p \o S!File) = S!Mapped(p) \o S!File
    BY <2>3, <2>4, FileOfDirectory DEF ClientTypeOK
  <2>6. settled[p][1] = S!Mapped(p)
    BY <2>4
  <2> QED BY <1>2, <2>1, <2>5, <2>6 DEF S!Translate
<1> QED BY <1>1, <1>2 DEF S!SessionsKept
-------------------------------------------------------------------------------
\* The calendar.  Its period of 400 years begins in March, so that a leap day is the
\* last of its year.  Numbers as large as these are SMT's alone.
\*
\* A day of a period of 400 years that begin in March is day d of year y of four,
\* q of 25 of these, c of the 4 centuries; only a leap year has a day 365.
LeapNext(c, q, y) == y = 3 /\ (q < 24 \/ c = 3)
InYear(c, q, y, d) ==
  /\ c \in Int /\ 0 <= c /\ c <= 3
  /\ q \in Int /\ 0 <= q /\ q <= 24
  /\ y \in Int /\ 0 <= y /\ y <= 3
  /\ d \in Int /\ 0 <= d /\ d <= 365 /\ (d = 365 => LeapNext(c, q, y))
DayOf(c, q, y, d) == 36524 * c + 1461 * q + 365 * y + d
Falls(n, e, doe) == n + 719468 = 146097 * e + doe
YearOf(c, q, y) == 100 * c + 4 * q + y

\* Every day of the period has its place in it.
LEMMA Splits ==
  ASSUME NEW doe \in Int, 0 <= doe, doe <= 146096
  PROVE  \E c, q, y, d \in Int : InYear(c, q, y, d) /\ doe = DayOf(c, q, y, d)
<1> DEFINE cent == IF doe = 146096 THEN 3 ELSE doe \div 36524
           r == doe - 36524 * cent
           quad == r \div 1461
           s == r - 1461 * quad
           yr == IF s = 1460 THEN 3 ELSE s \div 365
           dd == s - 365 * yr
<1>1. cent \in Int /\ r \in Int /\ 0 <= cent /\ cent <= 3 /\ 0 <= r /\ r <= 36524 /\ (r = 36524 => cent = 3)
  BY SMTT(30)
<1>2. r = doe - 36524 * cent
  BY SMTT(30)
<1> HIDE DEF cent, r
<1>3. /\ quad \in Int /\ s \in Int /\ 0 <= quad /\ quad <= 24 /\ 0 <= s /\ s <= 1460
      /\ (quad = 24 /\ cent # 3 => s < 1460)
  BY <1>1, SMTT(30)
<1>4. s = r - 1461 * quad
  BY SMTT(30)
<1> HIDE DEF quad, s
<1>5. /\ yr \in Int /\ dd \in Int /\ 0 <= yr /\ yr <= 3 /\ 0 <= dd /\ dd <= 365
      /\ (dd = 365 => yr = 3 /\ s = 1460)
  BY <1>3, SMTT(30)
<1>6. dd = s - 365 * yr
  BY SMTT(30)
<1> HIDE DEF yr, dd
<1>7. doe = DayOf(cent, quad, yr, dd)
  BY <1>1, <1>2, <1>3, <1>4, <1>5, <1>6, SMTT(30) DEF DayOf
<1>8. InYear(cent, quad, yr, dd)
  BY <1>1, <1>3, <1>5, SMTT(30) DEF InYear, LeapNext
<1> QED BY <1>1, <1>3, <1>5, <1>7, <1>8, SMTT(30)

\* The divisions of civil_from_days find the year of a day: the leap days that they take
\* off a day's number never carry it into another year.
LEMMA YearOfDay ==
  ASSUME NEW c, NEW q, NEW y, NEW d, InYear(c, q, y, d),
         NEW doe, doe = DayOf(c, q, y, d)
  PROVE  /\ doe \in Int /\ 0 <= doe /\ doe <= 146096
         /\ (doe - doe \div 1460 + doe \div 36524 - doe \div 146096) \div 365 = YearOf(c, q, y)
<1> DEFINE s == 365 * y + d
           t == IF 24 * c + q + s >= 1460 THEN 1 ELSE 0
<1>0. c \in Int /\ q \in Int /\ y \in Int /\ d \in Int
  BY SMTT(30) DEF InYear
<1>1. doe \in Int /\ 0 <= doe /\ doe <= 146096 /\ s \in Int /\ 0 <= s /\ s <= 1460
  BY SMTT(30) DEF InYear, LeapNext, DayOf
<1>2. doe \div 36524 - doe \div 146096 = c
  <2>1. doe < 36524 * c + 36524 \/ doe = 146096
    BY SMTT(30) DEF InYear, LeapNext, DayOf
  <2>2. CASE doe = 146096
    <3>1. c = 3
      BY <2>2, SMTT(30) DEF InYear, LeapNext, DayOf
    <3>2. 146096 \div 36524 = 4 /\ 146096 \div 146096 = 1
      BY SMTT(30)
    <3> QED BY <2>2, <3>1, <3>2, SMTT(30)
  <2>3. CASE doe < 36524 * c + 36524 /\ doe # 146096
    <3>1. 36524 * c <= doe
      BY SMTT(30) DEF InYear, LeapNext, DayOf
    <3>2. doe \div 36524 = c
      BY <2>3, <3>1, <1>0, <1>1, SMTT(30)
    <3>3. doe \div 146096 = 0
      BY <2>3, <1>1, SMTT(30)
    <3> QED BY <1>0, <3>2, <3>3, SMTT(30)
  <2> QED BY <2>1, <2>2, <2>3, SMTT(30)
<1>3. doe = 1460 * (25 * c + q + t) + (24 * c + q + s - 1460 * t)
  BY <1>0, SMTT(30) DEF DayOf
<1>4. /\ t \in Int /\ 0 <= 24 * c + q + s - 1460 * t /\ 24 * c + q + s - 1460 * t < 1460
      /\ 0 <= s - t - 365 * y /\ s - t - 365 * y < 365
  BY <1>0, <1>1, SMTT(30) DEF InYear, LeapNext
<1> HIDE DEF t
<1>5. doe \div 1460 = 25 * c + q + t
  BY <1>0, <1>1, <1>3, <1>4, SMTT(30)
<1>6. doe - doe \div 1460 + doe \div 36524 - doe \div 146096 = 365 * (100 * c + 4 * q + y) + (s - t - 365 * y)
  <2>1. doe = 36524 * c + 1461 * q + s
    BY <1>0, SMTT(30) DEF DayOf
  <2>2. doe \div 36524 \in Int /\ doe \div 146096 \in Int
    BY <1>1, SMTT(30)
  <2> HIDE DEF s
  <2> QED BY <1>0, <1>1, <1>2, <1>4, <1>5, <2>1, <2>2, SMTT(30)
<1>7. (365 * (100 * c + 4 * q + y) + (s - t - 365 * y)) \div 365 = 100 * c + 4 * q + y
  BY <1>0, <1>1, <1>4, SMTT(30)
<1> QED BY <1>1, <1>6, <1>7, SMTT(30) DEF YearOf

\* The leap days before a year of the period.
LEMMA YearDivides ==
  ASSUME NEW c, NEW q, NEW y, NEW d, InYear(c, q, y, d)
  PROVE  /\ YearOf(c, q, y) \in Int /\ 0 <= YearOf(c, q, y) /\ YearOf(c, q, y) <= 399
         /\ YearOf(c, q, y) \div 4 = 25 * c + q /\ YearOf(c, q, y) \div 100 = c
<1>1. c \in Int /\ q \in Int /\ y \in Int
  BY SMTT(30) DEF InYear
<1> QED BY <1>1, SMTT(30) DEF InYear, YearOf

\* The date of day d of a year that begins in March of year y.
MarchDate(y, d) ==
  LET mp == (5 * d + 2) \div 153
      m == IF mp < 10 THEN mp + 3 ELSE mp - 9
  IN  C!Date(y + (IF m <= 2 THEN 1 ELSE 0), m, d - (153 * mp + 2) \div 5 + 1)

\* civil_from_days answers the date of the day's place in its year.
LEMMA CivilIs ==
  ASSUME NEW e \in Int, NEW c, NEW q, NEW y, NEW d, InYear(c, q, y, d),
         NEW n \in Int, Falls(n, e, DayOf(c, q, y, d))
  PROVE  C!CivilFromDays(n) = MarchDate(400 * e + YearOf(c, q, y), d)
<1> DEFINE doe == DayOf(c, q, y, d)
           yr == YearOf(c, q, y)
<1>1. /\ doe \in Int /\ 0 <= doe /\ doe <= 146096 
      /\ (doe - doe \div 1460 + doe \div 36524 - doe \div 146096) \div 365 = yr
  BY YearOfDay, SMTT(30)
<1>2. /\ yr \in Int /\ yr \div 4 = 25 * c + q /\ yr \div 100 = c
  BY YearDivides, SMTT(30)
<1>3. c \in Int /\ q \in Int /\ y \in Int /\ d \in Int
  BY SMTT(30) DEF InYear
<1>4. doe - (365 * yr + yr \div 4 - yr \div 100) = d
  BY <1>2, <1>3, SMTT(30) DEF DayOf, YearOf
<1> HIDE DEF yr
<1>5. n + 719468 = 146097 * e + doe
  BY SMTT(30) DEF doe, Falls
<1> HIDE DEF doe
<1>6. (n + 719468) \div 146097 = e /\ (n + 719468) - e * 146097 = doe
  BY <1>1, <1>5, SMTT(30)
<1>7. e = C!Quot(IF n + 719468 >= 0 THEN n + 719468 ELSE (n + 719468) - 146096, 146097)
  <2>1. CASE n + 719468 >= 0
    BY <2>1, <1>6, SMTT(30) DEF C!Quot
  <2>2. CASE ~(n + 719468 >= 0)
    BY <2>2, <1>6, SMTT(30) DEF C!Quot
  <2> QED BY <2>1, <2>2, SMTT(30)
<1>8. C!CivilFromDays(n) = MarchDate(yr + e * 400, d)
  <2>1. \E dd, yy, oo \in Int : dd = doe /\ yy = yr /\ oo = d
    BY <1>1, <1>2, <1>3, SMTT(30)
  <2>2. PICK dd \in Int, yy \in Int, oo \in Int : dd = doe /\ yy = yr /\ oo = d
    BY <2>1, SMTT(30)
  <2>3. dd = (n + 719468) - e * 146097
    BY <1>6, <2>2, SMTT(30)
  <2>4. yy = (dd - dd \div 1460 + dd \div 36524 - dd \div 146096) \div 365
    BY <1>1, <2>2, SMTT(30)
  <2>5. oo = dd - (365 * yy + yy \div 4 - yy \div 100)
    BY <1>4, <2>2, SMTT(60)
  <2>6. C!CivilFromDays(n) = MarchDate(yy + e * 400, oo)
    <3> DEFINE Found(era, n1, yoe, doy) == MarchDate(yoe + era * 400, doy)
               FoundIn(era, n1, yoe) == Found(era, n1, yoe, n1 - (365 * yoe + yoe \div 4 - yoe \div 100))
               FoundOf(era, n1) ==
                 FoundIn(era, n1, (n1 - n1 \div 1460 + n1 \div 36524 - n1 \div 146096) \div 365)
               eraOf == C!Quot(IF n + 719468 >= 0 THEN n + 719468 ELSE (n + 719468) - 146096, 146097)
    <3>1. C!CivilFromDays(n) = FoundOf(eraOf, (n + 719468) - eraOf * 146097)
      BY SMTT(60) DEF C!CivilFromDays, MarchDate
    <3>2. eraOf = e
      BY <1>7, SMTT(30)
    <3> HIDE DEF FoundOf, eraOf
    <3>3. C!CivilFromDays(n) = FoundOf(e, dd)
      BY <2>3, <3>1, <3>2, SMTT(30)
    <3> USE DEF FoundOf
    <3> HIDE DEF FoundIn
    <3>4. C!CivilFromDays(n) = FoundIn(e, dd, yy)
      BY <2>4, <3>3, SMTT(30)
    <3> USE DEF FoundIn
    <3> HIDE DEF Found, FoundOf
    <3>5. C!CivilFromDays(n) = Found(e, dd, yy, oo)
      BY <2>5, <3>4, SMTT(30)
    <3> QED BY <3>5, SMTT(60) DEF Found
  <2> QED BY <2>2, <2>6, SMTT(30)
<1>9. yr + e * 400 = 400 * e + yr
  BY <1>2, SMTT(30)
<1> QED BY <1>8, <1>9, SMTT(30) DEF yr

\* A year that begins in March has its leap day in the next calendar year.
LEMMA LeapIs ==
  ASSUME NEW e \in Int, NEW c, NEW q, NEW y, NEW d, InYear(c, q, y, d)
  PROVE  C!Leap(400 * e + YearOf(c, q, y) + 1) <=> LeapNext(c, q, y)
<1>1. c \in Int /\ q \in Int /\ y \in Int
  BY SMTT(30) DEF InYear
<1> QED BY <1>1, SMTT(30) DEF InYear, LeapNext, YearOf, C!Leap

\* The day of such a year that its month mp begins on, and the number of the month.
Begins(mp) == (153 * mp + 2) \div 5
Month(mp) == IF mp < 10 THEN mp + 3 ELSE mp - 9

\* Every day of a year is in one of its months.
LEMMA MonthFound ==
  ASSUME NEW d \in Int, 0 <= d, d <= 365
  PROVE  \E mp \in Int : /\ 0 <= mp /\ mp <= 11
                         /\ Begins(mp) \in Int /\ Begins(mp) <= d /\ (mp < 11 => d < Begins(mp + 1))
<1> DEFINE mp == (5 * d + 2) \div 153
<1>1. mp \in Int
  BY SMTT(30)
<1>2. /\ 0 <= mp /\ mp <= 11
      /\ Begins(mp) \in Int /\ Begins(mp) <= d /\ (mp < 11 => d < Begins(mp + 1))
  BY SMTT(20) DEF Begins
<1> HIDE DEF mp
<1> QED BY <1>1, <1>2, SMTT(30)

\* The division by 153 finds the month.
LEMMA MonthOf ==
  ASSUME NEW d \in Int, 0 <= d, d <= 365, NEW mp \in Int, 0 <= mp, mp <= 11,
         Begins(mp) <= d, mp < 11 => d < Begins(mp + 1)
  PROVE  (5 * d + 2) \div 153 = mp
BY SMTT(30) DEF Begins

\* Each month but February is as long as the distance to the next.
LEMMA MonthLength ==
  ASSUME NEW mp \in Int, 0 <= mp, mp <= 10, NEW y \in Int
  PROVE  C!MonthDays(y, Month(mp)) = Begins(mp + 1) - Begins(mp)
<1> DEFINE long == mp \notin {1, 3, 6, 8}
<1>1. Month(mp) # 2 /\ (Month(mp) \in {4, 6, 9, 11} <=> ~long)
  BY SMTT(30) DEF Month
<1>2. C!MonthDays(y, Month(mp)) = IF long THEN 31 ELSE 30
  BY <1>1, SMTT(30) DEF C!MonthDays
<1>3. Begins(mp + 1) - Begins(mp) = IF long THEN 31 ELSE 30
  BY SMTT(30) DEF Begins
<1> QED BY <1>2, <1>3, SMTT(30)

\* The date of a day in a month of its year.
LEMMA MarchIs ==
  ASSUME NEW y \in Int, NEW d \in Int, 0 <= d, d <= 365, NEW mp \in Int, 0 <= mp, mp <= 11,
         Begins(mp) <= d, mp < 11 => d < Begins(mp + 1)
  PROVE  MarchDate(y, d) = C!Date(y + (IF Month(mp) <= 2 THEN 1 ELSE 0), Month(mp), d - Begins(mp) + 1)
<1>1. (5 * d + 2) \div 153 = mp
  BY MonthOf, SMTT(30)
<1> QED BY <1>1, SMTT(30) DEF MarchDate, Begins, Month

\* The day after, for a date written out.
LEMMA DayAfterIs ==
  ASSUME NEW y \in Int, NEW m \in Int, NEW d \in Int
  PROVE  C!DayAfter(C!Date(y, m, d)) =
           IF d < C!MonthDays(y, m) THEN C!Date(y, m, d + 1)
           ELSE IF m < 12 THEN C!Date(y, m + 1, 1) ELSE C!Date(y + 1, 1, 1)
BY SMTT(30) DEF C!DayAfter, C!Date

\* The day after a day of a year that begins in March is the next in it, or, behind its
\* last, the first of the next.
LEMMA MarchAfter ==
  ASSUME NEW y \in Int, NEW d \in Int, 0 <= d, d <= 365, d = 365 => C!Leap(y + 1)
  PROVE  C!DayAfter(MarchDate(y, d)) =
           IF d < 364 \/ (d = 364 /\ C!Leap(y + 1)) THEN MarchDate(y, d + 1) ELSE MarchDate(y + 1, 0)
<1>1. PICK mp \in Int : /\ 0 <= mp /\ mp <= 11
                        /\ Begins(mp) \in Int /\ Begins(mp) <= d /\ (mp < 11 => d < Begins(mp + 1))
  BY MonthFound, SMTT(30)
<1> DEFINE m == Month(mp)
           y1 == y + (IF Month(mp) <= 2 THEN 1 ELSE 0)
           dd == d - Begins(mp) + 1
<1>2. m \in Int /\ y1 \in Int /\ dd \in Int
  BY <1>1, SMTT(30) DEF Month
<1>3. MarchDate(y, d) = C!Date(y1, m, dd)
  BY <1>1, MarchIs, SMTT(30)
<1>4. C!DayAfter(MarchDate(y, d)) =
        IF dd < C!MonthDays(y1, m) THEN C!Date(y1, m, dd + 1)
        ELSE IF m < 12 THEN C!Date(y1, m + 1, 1) ELSE C!Date(y1 + 1, 1, 1)
  BY <1>2, <1>3, DayAfterIs, SMTT(30)
<1>5. CASE mp < 11 /\ d + 1 < Begins(mp + 1)
  <2>1. dd < C!MonthDays(y1, m)
    BY <1>1, <1>2, <1>5, MonthLength, SMTT(30) DEF Begins
  <2>2. MarchDate(y, d + 1) = C!Date(y1, m, dd + 1)
    <3>1. d + 1 <= 364 
      BY <1>1, <1>5, SMTT(30) DEF Begins
    <3>2. MarchDate(y, d + 1) = C!Date(y1, m, (d + 1) - Begins(mp) + 1)
      BY <1>1, <1>5, <3>1, MarchIs, SMTT(30)
    <3>3. (d + 1) - Begins(mp) + 1 = dd + 1
      BY <1>1, SMTT(30)
    <3> QED BY <3>2, <3>3, SMTT(30)
  <2>3. d < 364
    BY <1>1, <1>5, SMTT(30) DEF Begins
  <2> QED BY <1>4, <2>1, <2>2, <2>3, SMTT(30)
<1>6. CASE mp < 11 /\ d + 1 = Begins(mp + 1)
  <2>1. ~(dd < C!MonthDays(y1, m))
    BY <1>1, <1>2, <1>6, MonthLength, SMTT(30) DEF Begins
  <2>2. d + 1 <= 337 /\ (mp + 1 < 11 => d + 1 < Begins(mp + 1 + 1))
    BY <1>1, <1>6, SMTT(30) DEF Begins
  <2>3. MarchDate(y, d + 1) = C!Date(y + (IF Month(mp + 1) <= 2 THEN 1 ELSE 0), Month(mp + 1), (d + 1) - Begins(mp + 1) + 1)
    BY <1>1, <1>6, <2>2, MarchIs, SMTT(30)
  <2>4. (d + 1) - Begins(mp + 1) + 1 = 1
    BY <1>6, SMTT(30)
  <2>5. CASE m < 12
    <3>1. Month(mp + 1) = m + 1 /\ y + (IF Month(mp + 1) <= 2 THEN 1 ELSE 0) = y1
      BY <1>1, <1>6, <2>5, SMTT(30) DEF Month
    <3> QED BY <1>4, <2>1, <2>2, <2>3, <2>4, <2>5, <3>1, SMTT(30)
  <2>6. CASE ~(m < 12)
    <3>1. Month(mp + 1) = 1 /\ y + (IF Month(mp + 1) <= 2 THEN 1 ELSE 0) = y1 + 1
      BY <1>1, <1>6, <2>6, SMTT(30) DEF Month
    <3> QED BY <1>4, <2>1, <2>2, <2>3, <2>4, <2>6, <3>1, SMTT(30)
  <2> QED BY <2>5, <2>6, SMTT(30)
<1>7. CASE mp = 11
  <2>1. m = 2 /\ y1 = y + 1 /\ Begins(11) = 337 /\ dd = d - 336
    BY <1>1, <1>7, SMTT(30) DEF Month, Begins
  <2>2. C!MonthDays(y1, m) = IF C!Leap(y + 1) THEN 29 ELSE 28
    BY <2>1, SMTT(30) DEF C!MonthDays
  <2>3. CASE d < 364 \/ (d = 364 /\ C!Leap(y + 1))
    <3>1. MarchDate(y, d + 1) = C!Date(y1, m, (d + 1) - Begins(11) + 1)
      BY <1>1, <1>7, <2>1, <2>3, MarchIs, SMTT(60)
    <3>2. (d + 1) - Begins(11) + 1 = dd + 1
      BY <2>1, SMTT(30)
    <3>3. dd < C!MonthDays(y1, m)
      BY <2>1, <2>2, <2>3, SMTT(30)
    <3> QED BY <1>4, <2>3, <3>1, <3>2, <3>3, SMTT(30)
  <2>4. CASE ~(d < 364 \/ (d = 364 /\ C!Leap(y + 1)))
    <3>1. ~(dd < C!MonthDays(y1, m)) 
      BY <2>1, <2>2, <2>4, SMTT(30)
    <3>2. MarchDate(y + 1, 0) = C!Date(y + 1, 3, 1)
      BY SMTT(30) DEF MarchDate
    <3> QED BY <1>4, <2>1, <2>4, <3>1, <3>2, SMTT(30)
  <2> QED BY <2>3, <2>4, SMTT(30)
<1>8. Begins(mp + 1) \in Int
  BY <1>1, SMTT(30) DEF Begins
<1> QED BY <1>1, <1>5, <1>6, <1>7, <1>8, SMTT(30)
\* Every day number, also before 1970 and before the year 0, has a place in a period.
LEMMA DayIs ==
  ASSUME NEW n \in Int
  PROVE  \E e, c, q, y, d \in Int : InYear(c, q, y, d) /\ Falls(n, e, DayOf(c, q, y, d))
<1> DEFINE e == (n + 719468) \div 146097
           doe == (n + 719468) - 146097 * e
<1>1. e \in Int /\ doe \in Int /\ 0 <= doe /\ doe <= 146096 /\ n + 719468 = 146097 * e + doe
  BY SMTT(30)
<1> HIDE DEF e, doe
<1>2. PICK c \in Int, q \in Int, y \in Int, d \in Int : InYear(c, q, y, d) /\ doe = DayOf(c, q, y, d)
  BY <1>1, Splits, SMTT(30)
<1>3. Falls(n, e, DayOf(c, q, y, d))
  BY <1>1, <1>2, SMTT(30) DEF Falls
<1> QED BY <1>1, <1>2, <1>3, SMTT(60)

\* civil_from_days of the next day is the day after, across months, leap days, years,
\* centuries and periods.
LEMMA NextDay ==
  ASSUME NEW n \in Int
  PROVE  C!CivilFromDays(n + 1) = C!DayAfter(C!CivilFromDays(n))
<1>1. PICK e \in Int, c \in Int, q \in Int, y \in Int, d \in Int :
        InYear(c, q, y, d) /\ Falls(n, e, DayOf(c, q, y, d))
  BY DayIs, Zenon
<1> DEFINE yr == 400 * e + YearOf(c, q, y)
<1>2. yr \in Int /\ n + 1 \in Int
  BY SMTT(30) DEF YearOf
<1>3. /\ 0 <= d /\ d <= 365 /\ (d = 365 => LeapNext(c, q, y))
      /\ C!Leap(yr + 1) <=> LeapNext(c, q, y)
  BY <1>1, LeapIs, SMTT(30) DEF InYear
<1>4. C!CivilFromDays(n) = MarchDate(yr, d)
  BY <1>1, CivilIs, SMTT(30)
<1> HIDE DEF yr
<1>5. C!DayAfter(C!CivilFromDays(n)) =
        IF d < 364 \/ (d = 364 /\ C!Leap(yr + 1)) THEN MarchDate(yr, d + 1) ELSE MarchDate(yr + 1, 0)
  BY <1>2, <1>3, <1>4, MarchAfter, SMTT(30)
<1>6. CASE d < 364 \/ (d = 364 /\ LeapNext(c, q, y))
  <2>1. InYear(c, q, y, d + 1) /\ Falls(n + 1, e, DayOf(c, q, y, d + 1))
    BY <1>1, <1>6, SMTT(30) DEF InYear, Falls, DayOf
  <2>2. C!CivilFromDays(n + 1) = MarchDate(yr, d + 1)
    BY <1>2, <2>1, CivilIs, SMTT(30) DEF yr
  <2> QED BY <1>3, <1>5, <1>6, <2>2, SMTT(30)
<1>7. CASE ~(d < 364 \/ (d = 364 /\ LeapNext(c, q, y)))
  <2> SUFFICES C!CivilFromDays(n + 1) = MarchDate(yr + 1, 0)
    BY <1>3, <1>5, <1>7, SMTT(30)
  <2>1. CASE y < 3
    <3>1. /\ InYear(c, q, y + 1, 0) /\ Falls(n + 1, e, DayOf(c, q, y + 1, 0))
          /\ 400 * e + YearOf(c, q, y + 1) = yr + 1
      BY <1>1, <1>3, <1>7, <2>1, SMTT(30) DEF InYear, LeapNext, Falls, DayOf, YearOf, yr
    <3> QED BY <1>2, <3>1, CivilIs, SMTT(30)
  <2>2. CASE y = 3 /\ q < 24
    <3>1. /\ InYear(c, q + 1, 0, 0) /\ Falls(n + 1, e, DayOf(c, q + 1, 0, 0))
          /\ 400 * e + YearOf(c, q + 1, 0) = yr + 1
      BY <1>1, <1>3, <1>7, <2>2, SMTT(30) DEF InYear, LeapNext, Falls, DayOf, YearOf, yr
    <3> QED BY <1>2, <3>1, CivilIs, SMTT(30)
  <2>3. CASE y = 3 /\ q = 24 /\ c < 3
    <3>1. /\ InYear(c + 1, 0, 0, 0) /\ Falls(n + 1, e, DayOf(c + 1, 0, 0, 0))
          /\ 400 * e + YearOf(c + 1, 0, 0) = yr + 1
      BY <1>1, <1>3, <1>7, <2>3, SMTT(30) DEF InYear, LeapNext, Falls, DayOf, YearOf, yr
    <3> QED BY <1>2, <3>1, CivilIs, SMTT(30)
  <2>4. CASE y = 3 /\ q = 24 /\ c = 3
    <3>1. /\ InYear(0, 0, 0, 0) /\ Falls(n + 1, e + 1, DayOf(0, 0, 0, 0))
          /\ 400 * (e + 1) + YearOf(0, 0, 0) = yr + 1
      BY <1>1, <1>3, <1>7, <2>4, SMTT(30) DEF InYear, LeapNext, Falls, DayOf, YearOf, yr
    <3>2. e + 1 \in Int
      BY SMTT(30)
    <3> QED BY <1>2, <3>1, <3>2, CivilIs, SMTT(30)
  <2>5. y <= 3 /\ q <= 24 /\ c <= 3
    BY <1>1, SMTT(30) DEF InYear
  <2> QED BY <2>1, <2>2, <2>3, <2>4, <2>5, SMTT(30)
<1> QED BY <1>6, <1>7, SMTT(30)

\* days_from_civil undoes civil_from_days.
LEMMA WayBack ==
  ASSUME NEW n \in Int
  PROVE  C!DaysFromCivil(C!CivilFromDays(n)) = n
<1>1. PICK e \in Int, c \in Int, q \in Int, y \in Int, d \in Int :
        InYear(c, q, y, d) /\ Falls(n, e, DayOf(c, q, y, d))
  BY DayIs, Zenon
<1>2. 0 <= d /\ d <= 365
  BY <1>1, SMTT(30) DEF InYear
<1>3. PICK mp \in Int : /\ 0 <= mp /\ mp <= 11
                        /\ Begins(mp) \in Int /\ Begins(mp) <= d /\ (mp < 11 => d < Begins(mp + 1))
  BY <1>2, MonthFound, SMTT(30)
<1> DEFINE yr == YearOf(c, q, y)
<1>4. yr \in Int /\ 0 <= yr /\ yr <= 399 /\ yr \div 4 = 25 * c + q /\ yr \div 100 = c
  BY <1>1, YearDivides, SMTT(30)
<1> DEFINE m == Month(mp)
           y1 == 400 * e + yr + (IF Month(mp) <= 2 THEN 1 ELSE 0)
           dd == d - Begins(mp) + 1
<1>5. C!CivilFromDays(n) = C!Date(y1, m, dd)
  <2>1. C!CivilFromDays(n) = MarchDate(400 * e + yr, d)
    BY <1>1, CivilIs, SMTT(30)
  <2>2. 400 * e + yr \in Int
    BY <1>4, SMTT(30)
  <2> QED BY <1>2, <1>3, <2>1, <2>2, MarchIs, SMTT(30)
<1>6. Falls(n, e, 365 * yr + (25 * c + q) - c + d)
  BY <1>1, SMTT(30) DEF Falls, DayOf, YearOf
<1> HIDE DEF yr
<1>7. y1 \in Int /\ m \in Int /\ dd \in Int /\ (IF m <= 2 THEN y1 - 1 ELSE y1) = 400 * e + yr
  BY <1>3, <1>4, SMTT(30) DEF Month
<1>8. (400 * e + yr) \div 400 = e /\ (400 * e + yr) - e * 400 = yr
  BY <1>4, SMTT(30)
<1>9. (153 * (m + (IF m > 2 THEN -3 ELSE 9)) + 2) \div 5 + dd - 1 = d
  <2>1. m + (IF m > 2 THEN -3 ELSE 9) = mp
    BY <1>3, SMTT(30) DEF Month
  <2> QED BY <1>3, <2>1, SMTT(30) DEF Begins
<1> HIDE DEF y1, m, dd
<1>10. PICK era \in Int, yoe \in Int, doy \in Int : era = e /\ yoe = yr /\ doy = d
  BY <1>4, SMTT(30)
<1>11. PICK yy \in Int, mm \in Int, day1 \in Int : yy = y1 /\ mm = m /\ day1 = dd
  BY <1>7, SMTT(30)
<1>12. C!DaysFromCivil(C!Date(yy, mm, day1)) = era * 146097 + (yoe * 365 + yoe \div 4 - yoe \div 100 + doy) - 719468
  <2>1. PICK y2 \in Int : y2 = IF mm <= 2 THEN yy - 1 ELSE yy
    BY SMTT(30)
  <2>2. era = y2 \div 400
    BY <1>7, <1>8, <1>10, <1>11, <2>1, SMTT(30)
  <2>3. era = C!Quot(IF y2 >= 0 THEN y2 ELSE y2 - 399, 400)
    <3>1. CASE y2 >= 0
      BY <2>2, <3>1, SMTT(30) DEF C!Quot
    <3>2. CASE ~(y2 >= 0)
      BY <2>2, <3>2, SMTT(30) DEF C!Quot
    <3> QED BY <3>1, <3>2, SMTT(30)
  <2>4. yoe = y2 - era * 400
    BY <1>7, <1>8, <1>10, <1>11, <2>1, SMTT(30)
  <2>5. doy = (153 * (mm + (IF mm > 2 THEN -3 ELSE 9)) + 2) \div 5 + day1 - 1
    BY <1>9, <1>10, <1>11, SMTT(30)
  <2> QED BY <2>1, <2>3, <2>4, <2>5, SMTT(20) DEF C!DaysFromCivil, C!Date
<1> QED BY <1>4, <1>5, <1>6, <1>10, <1>11, <1>12, SMTT(30) DEF Falls

\* What civil_from_days answers is a date.
LEMMA CivilDate ==
  ASSUME NEW n \in Int
  PROVE  \E y, m, d \in Int : C!CivilFromDays(n) = C!Date(y, m, d)
<1>1. PICK e \in Int, c \in Int, q \in Int, y \in Int, d \in Int :
        InYear(c, q, y, d) /\ Falls(n, e, DayOf(c, q, y, d))
  BY DayIs, Zenon
<1>2. 0 <= d /\ d <= 365 /\ 400 * e + YearOf(c, q, y) \in Int
  BY <1>1, SMTT(30) DEF InYear, YearOf
<1>3. PICK mp \in Int : /\ 0 <= mp /\ mp <= 11
                        /\ Begins(mp) \in Int /\ Begins(mp) <= d /\ (mp < 11 => d < Begins(mp + 1))
  BY <1>2, MonthFound, SMTT(30)
<1> DEFINE yr == 400 * e + YearOf(c, q, y)
<1>4. C!CivilFromDays(n) = MarchDate(yr, d)
  BY <1>1, CivilIs, SMTT(30)
<1>5. MarchDate(yr, d) = C!Date(yr + (IF Month(mp) <= 2 THEN 1 ELSE 0), Month(mp), d - Begins(mp) + 1)
  BY <1>2, <1>3, MarchIs, SMTT(30)
<1> HIDE DEF yr
<1>6. yr + (IF Month(mp) <= 2 THEN 1 ELSE 0) \in Int /\ Month(mp) \in Int /\ d - Begins(mp) + 1 \in Int
  BY <1>2, <1>3, SMTT(30) DEF Month, yr
<1> QED BY <1>4, <1>5, <1>6, Zenon

\* The first of January is a day.
LEMMA YearBegins ==
  ASSUME NEW y \in Int
  PROVE  C!DaysFromCivil(C!Date(y, 1, 1)) \in Int
BY SMTT(30) DEF C!DaysFromCivil, C!Date, C!Quot

\* The days of the week follow one another, also where C's remainder is negative.
LEMMA WeekGoesOn ==
  ASSUME NEW n \in Int
  PROVE  C!WeekDay(n + 1) = (C!WeekDay(n) + 1) % 7
<1>1. \A a \in Int : C!WeekDay(a) = (a + 4) % 7
  BY SMTT(20) DEF C!WeekDay, C!Rem, C!Quot
<1> QED BY <1>1, SMTT(30)

\* The days of a year are counted from its first of January on.
LEMMA YearGoesOn ==
  ASSUME NEW n \in Int
  PROVE  C!YearDay(n + 1) = IF C!CivilFromDays(n + 1).year = C!CivilFromDays(n).year THEN C!YearDay(n) + 1 ELSE 0
<1>1. PICK y \in Int, m \in Int, d \in Int : C!CivilFromDays(n) = C!Date(y, m, d)
  BY CivilDate, Zenon
<1>2. C!CivilFromDays(n).year = y /\ C!YearDay(n) = n - C!DaysFromCivil(C!Date(y, 1, 1))
  BY <1>1, SMTT(30) DEF C!YearDay, C!Date
<1>3. C!CivilFromDays(n + 1) = C!DayAfter(C!Date(y, m, d))
  BY <1>1, NextDay, SMTT(30)
<1>4. C!DayAfter(C!Date(y, m, d)).year = y \/ C!DayAfter(C!Date(y, m, d)) = C!Date(y + 1, 1, 1)
  <2>1. C!Date(y, m, d + 1).year = y /\ C!Date(y, m + 1, 1).year = y
    BY SMTT(30) DEF C!Date
  <2> QED BY <2>1, DayAfterIs, SMTT(30)
<1>5. CASE C!CivilFromDays(n + 1).year = y
  <2>1. C!YearDay(n + 1) = (n + 1) - C!DaysFromCivil(C!Date(y, 1, 1))
    BY <1>5, Zenon DEF C!YearDay
  <2> QED BY <1>2, <1>5, <2>1, YearBegins, SMTT(30)
<1>6. CASE C!CivilFromDays(n + 1).year # y
  <2>1. C!CivilFromDays(n + 1) = C!Date(y + 1, 1, 1)
    BY <1>3, <1>4, <1>6, SMTT(30)
  <2>2. C!CivilFromDays(n + 1).year = y + 1
    BY <2>1, SMTT(30) DEF C!Date
  <2>3. C!DaysFromCivil(C!CivilFromDays(n + 1)) = n + 1
    BY WayBack, SMTT(30)
  <2> QED BY <1>2, <1>6, <2>1, <2>2, <2>3, SMTT(30) DEF C!YearDay
<1> QED BY <1>5, <1>6, SMTT(30)

\* What the calendar kept by hand and the conversions agree on is inductive.
CalendarInv == day \in Int /\ C!DatesRight

\* The calendar kept by hand starts in agreement, on each first of January it can start on.
LEMMA CalendarStarts ==
  ASSUME NEW k \in Int, C!Start(k)
  PROVE  CalendarInv
<1>1. day \in Int /\ day = 146097 * k /\ date = C!Date(1970 + 400 * k, 1, 1) /\ weekday = 4 /\ yearday = 0
  BY SMTT(30) DEF C!Start
<1>2. C!CivilFromDays(day) = date
  <2>1. InYear(3, 17, 1, 306) /\ Falls(day, k + 4, DayOf(3, 17, 1, 306)) /\ k + 4 \in Int
    BY <1>1, SMTT(30) DEF InYear, Falls, DayOf
  <2>2. C!CivilFromDays(day) = MarchDate(400 * (k + 4) + YearOf(3, 17, 1), 306)
    BY <1>1, <2>1, CivilIs, SMTT(30)
  <2>3. 400 * (k + 4) + YearOf(3, 17, 1) = 1969 + 400 * k
    BY SMTT(30) DEF YearOf
  <2>4. MarchDate(1969 + 400 * k, 306) = C!Date(1970 + 400 * k, 1, 1)
    BY SMTT(30) DEF MarchDate
  <2> QED BY <1>1, <2>2, <2>3, <2>4, SMTT(30)
<1>3. C!DaysFromCivil(date) = day
  BY <1>1, <1>2, WayBack, SMTT(30)
<1>4. C!WeekDay(day) = weekday
  BY <1>1, SMTT(30) DEF C!WeekDay, C!Rem, C!Quot
<1>5. C!YearDay(day) = yearday
  <2>1. date.year = 1970 + 400 * k
    BY <1>1, SMTT(30) DEF C!Date
  <2> QED BY <1>1, <1>2, <1>3, <2>1, SMTT(30) DEF C!YearDay
<1> QED BY <1>1, <1>2, <1>3, <1>4, <1>5, SMTT(30) DEF CalendarInv, C!DatesRight

\* Both calendars go on alike from each day to the next.
LEMMA CalendarKeeps ==
  ASSUME CalendarInv, C!Tomorrow
  PROVE  CalendarInv'
<1>1. /\ day \in Int /\ day' = day + 1 /\ date' = C!DayAfter(date)
      /\ weekday' = (weekday + 1) % 7
      /\ yearday' = IF date'.year = date.year THEN yearday + 1 ELSE 0
      /\ C!CivilFromDays(day) = date /\ C!WeekDay(day) = weekday /\ C!YearDay(day) = yearday
  BY SMTT(30) DEF CalendarInv, C!DatesRight, C!Tomorrow
<1>2. C!CivilFromDays(day') = date'
  BY <1>1, NextDay, SMTT(30)
<1>3. C!DaysFromCivil(date') = day'
  BY <1>1, <1>2, WayBack, SMTT(30)
<1>4. C!WeekDay(day') = weekday'
  BY <1>1, WeekGoesOn, SMTT(30)
<1>5. C!YearDay(day') = yearday'
  BY <1>1, <1>2, YearGoesOn, SMTT(30)
<1>6. day' \in Int
  BY <1>1, SMTT(30)
<1> QED BY <1>2, <1>3, <1>4, <1>5, <1>6, SMTT(30) DEF CalendarInv, C!DatesRight

\* A number is its quotient and remainder.
LEMMA DivOfInt ==
  ASSUME NEW a \in Int, NEW k \in Nat \ {0}
  PROVE  /\ a \div k \in Int /\ a % k \in Int /\ 0 <= a % k /\ a % k < k
         /\ a = k * (a \div k) + (a % k)
BY SMTT(30)

\* A quotient and a remainder are those of the number they make.
LEMMA DivModIs ==
  ASSUME NEW k \in Nat \ {0}, NEW q \in Int, NEW r \in Int, 0 <= r, r < k
  PROVE  (k * q + r) \div k = q /\ (k * q + r) % k = r
<1>1. (k * q + r) \div k = q
  BY SMTT(30)
<1>2. k * q \in Int
  BY SMTT(30)
<1>3. k * q + r = k * ((k * q + r) \div k) + ((k * q + r) % k)
  BY <1>2, DivOfInt, SMTT(30)
<1> QED BY <1>1, <1>2, <1>3, DivOfInt, SMTT(30)

\* The code's corrections make of C's division one that is rounded down, on both sides of 0.
LEMMA FloorIs ==
  ASSUME NEW k \in Nat \ {0}, NEW q \in Int, NEW r \in Int, 0 <= r, r < k
  PROVE  C!FloorQuot(k * q + r, k) = q /\ C!FloorRem(k * q + r, k) = r
<1> DEFINE a == k * q + r
<1>1. a \in Int /\ (q >= 0 => a >= 0) /\ (q < 0 => a < 0)
  BY SMTT(30)
<1>2. CASE q >= 0
  <2>1. C!Quot(a, k) = q
    BY <1>1, <1>2, DivModIs, SMTT(30) DEF C!Quot
  <2>2. C!Rem(a, k) = r
    BY <2>1, SMTT(30) DEF C!Rem
  <2> QED BY <2>1, <2>2, SMTT(30) DEF C!FloorQuot, C!FloorRem
<1>3. CASE q < 0 /\ r = 0
  <2>1. -a = k * (-q) + 0 /\ -q \in Int
    BY <1>3, SMTT(30)
  <2>2. (k * (-q) + 0) \div k = -q
    BY <2>1, DivModIs, SMTT(30)
  <2>3. C!Quot(a, k) = q
    BY <1>1, <1>3, <2>1, <2>2, SMTT(30) DEF C!Quot
  <2>4. C!Rem(a, k) = 0
    BY <1>3, <2>3, SMTT(30) DEF C!Rem
  <2> QED BY <1>3, <2>3, <2>4, SMTT(30) DEF C!FloorQuot, C!FloorRem
<1>4. CASE q < 0 /\ r > 0
  <2>1. -a = k * (-q - 1) + (k - r) /\ -q - 1 \in Int /\ k - r \in Int /\ 0 <= k - r /\ k - r < k
    BY <1>4, SMTT(30)
  <2>2. (k * (-q - 1) + (k - r)) \div k = -q - 1
    BY <2>1, DivModIs, SMTT(30)
  <2>3. C!Quot(a, k) = q + 1
    BY <1>1, <1>4, <2>1, <2>2, SMTT(30) DEF C!Quot
  <2>4. C!Rem(a, k) = r - k
    BY <1>1, <2>3, SMTT(30) DEF C!Rem
  <2> QED BY <1>4, <2>3, <2>4, SMTT(30) DEF C!FloorQuot, C!FloorRem
<1> QED BY <1>2, <1>3, <1>4, SMTT(30)

\* A day has a positive number of seconds.
LEMMA Positive ==
  /\ Minutes * Seconds \in Nat \ {0} /\ C!DaySeconds \in Nat \ {0}
  /\ C!DaySeconds = Minutes * Seconds * Hours
  /\ {Hours, Minutes, Seconds, TimerHz, Micros, PerMilli} \subseteq Nat \ {0}
  /\ C!CafeEpoch \in Int
<1>1. Hours \in Nat \ {0} /\ Minutes \in Nat \ {0} /\ Seconds \in Nat \ {0}
  BY ClockAssumption
<1>2. Minutes * Seconds \in Nat \ {0} /\ Hours * Minutes * Seconds = Minutes * Seconds * Hours
  BY <1>1, SMTT(30)
<1> DEFINE ms == Minutes * Seconds
<1>3. ms * Hours \in Nat \ {0}
  <2> HIDE DEF ms
  <2>1. ms \in Nat \ {0}
    BY <1>2 DEF ms
  <2> QED BY <1>1, <2>1, SMTT(30)
<1> QED BY ClockAssumption, <1>2, <1>3, SMTT(30) DEF C!DaySeconds, C!CafeEpoch

\* The calendar time of tick r of second w of day n.
TimeOf(n, w, r) == TimerHz * (n * C!DaySeconds + w - C!CafeEpoch) + r
Fraction(r) == (r * Micros) \div TimerHz
TicksOf(u) == (u * TimerHz) \div Micros

\* OSTicksToCalendarTime takes a time apart into its day, its second and its fraction.
LEMMA TicksAre ==
  ASSUME NEW n \in Int, NEW w \in Int, 0 <= w, w < C!DaySeconds, NEW r \in Int, 0 <= r, r < TimerHz
  PROVE  C!OSTicksToCalendarTime(TimeOf(n, w, r)) =
           [date |-> C!CivilFromDays(n), wday |-> C!WeekDay(n), yday |-> C!YearDay(n),
            hour |-> w \div (Minutes * Seconds), min |-> (w % (Minutes * Seconds)) \div Seconds,
            sec |-> w % Seconds, msec |-> Fraction(r) \div PerMilli, usec |-> Fraction(r) % PerMilli]
<1> DEFINE secs == n * C!DaySeconds + w
           since == n * C!DaySeconds + w - C!CafeEpoch
           time == TimeOf(n, w, r)
<1>1. C!DaySeconds \in Nat \ {0} /\ TimerHz \in Nat \ {0} /\ C!CafeEpoch \in Int
  BY Positive
<1>2. n * C!DaySeconds \in Int /\ n * C!DaySeconds = C!DaySeconds * n
  BY <1>1, SMTT(30)
<1>3. since \in Int /\ since + C!CafeEpoch = secs /\ secs = C!DaySeconds * n + w
  BY <1>1, <1>2, SMTT(30)
<1> HIDE DEF secs
<1>4. time = TimerHz * since + r
  BY DEF TimeOf
<1> HIDE DEF since, time
<1>5. C!FloorQuot(time, TimerHz) = since /\ C!FloorRem(time, TimerHz) = r
  BY <1>1, <1>3, <1>4, FloorIs
<1>6. C!FloorQuot(secs, C!DaySeconds) = n /\ C!FloorRem(secs, C!DaySeconds) = w
  BY <1>1, <1>3, FloorIs, ZenonT(60)
<1>7. C!FloorQuot(time, TimerHz) + C!CafeEpoch = secs
  BY <1>3, <1>5
<1>8. C!OSTicksToCalendarTime(time) =
        [date |-> C!CivilFromDays(n), wday |-> C!WeekDay(n), yday |-> C!YearDay(n),
         hour |-> w \div (Minutes * Seconds), min |-> (w % (Minutes * Seconds)) \div Seconds,
         sec |-> w % Seconds, msec |-> Fraction(r) \div PerMilli, usec |-> Fraction(r) % PerMilli]
  BY <1>5, <1>6, <1>7, Zenon DEF C!OSTicksToCalendarTime, Fraction
<1> QED BY <1>8 DEF time

\* Hour, minute and second are within their bounds and make up the second of the day.
LEMMA HandsAre ==
  ASSUME NEW w \in Int, 0 <= w, w < C!DaySeconds
  PROVE  LET hour == w \div (Minutes * Seconds)
             min == (w % (Minutes * Seconds)) \div Seconds
             sec == w % Seconds
         IN  /\ hour \in 0..Hours - 1 /\ min \in 0..Minutes - 1 /\ sec \in 0..Seconds - 1
             /\ hour * Minutes * Seconds + min * Seconds + sec = w
<1> DEFINE ms == Minutes * Seconds
           hour == w \div ms
           rest == w % ms
           min == rest \div Seconds
           s == rest % Seconds
<1>1. /\ Hours \in Nat \ {0} /\ Minutes \in Nat \ {0} /\ Seconds \in Nat \ {0}
      /\ ms \in Nat \ {0} /\ C!DaySeconds = ms * Hours
  BY Positive
<1> HIDE DEF ms
<1>2. hour \in Int /\ rest \in Int /\ 0 <= rest /\ rest < ms /\ w = ms * hour + rest
  BY <1>1, DivOfInt
<1> HIDE DEF hour, rest
<1>3. hour \in 0..Hours - 1
  <2>1. hour >= 0
    BY <1>1, <1>2, SMTT(30)
  <2>2. hour < Hours
    BY <1>1, <1>2, SMTT(30)
  <2> QED BY <1>1, <1>2, <2>1, <2>2, SMTT(30)
<1>4. min \in Int /\ s \in Int /\ 0 <= s /\ s < Seconds /\ rest = Seconds * min + s
  BY <1>1, <1>2, DivOfInt
<1> HIDE DEF min, s
<1>5. min \in 0..Minutes - 1
  <2>1. ms = Seconds * Minutes
    BY <1>1, SMTT(30) DEF ms
  <2>2. min >= 0
    BY <1>1, <1>2, <1>4, SMTT(30)
  <2>3. min < Minutes
    BY <1>1, <1>2, <1>4, <2>1, SMTT(30)
  <2> QED BY <1>1, <1>4, <2>2, <2>3, SMTT(30)
<1>6. hour * Minutes * Seconds = ms * hour /\ min * Seconds = Seconds * min
  BY <1>1, <1>3, <1>5, SMTT(30) DEF ms
<1>7. w % Seconds = s
  <2>1. w = Seconds * (Minutes * hour + min) + s
    <3>1. ms * hour = Seconds * (Minutes * hour)
      BY <1>1, <1>3, SMTT(30) DEF ms
    <3>2. Seconds * (Minutes * hour + min) = Seconds * (Minutes * hour) + Seconds * min
      BY <1>1, <1>3, <1>5, SMTT(30)
    <3>3. Seconds * (Minutes * hour) \in Int /\ Seconds * min \in Int
      BY <1>1, <1>3, <1>5, SMTT(30)
    <3> QED BY <1>2, <1>4, <3>1, <3>2, <3>3, SMTT(30)
  <2>2. Minutes * hour + min \in Int
    BY <1>1, <1>3, <1>5, SMTT(30)
  <2> QED BY <1>1, <1>4, <2>1, <2>2, DivModIs, ZenonT(60)
<1>8. ms * hour \in Int /\ Seconds * min \in Int
  BY <1>1, <1>3, <1>5, SMTT(30)
<1>9. hour * Minutes * Seconds + min * Seconds + s = w
  BY <1>2, <1>4, <1>6, <1>8, SMTT(30)
<1>10. s \in 0..Seconds - 1
  BY <1>1, <1>4, SMTT(30)
<1> QED BY <1>3, <1>5, <1>7, <1>9, <1>10 DEF hour, min, rest, ms

\* The microseconds of a fraction are turned into at most as many ticks, and fewer by less
\* than a microsecond and a tick.
LEMMA FractionsAre ==
  ASSUME NEW r \in Int, 0 <= r, r < TimerHz
  PROVE  LET u == Fraction(r)
             b == TicksOf(u)
         IN  /\ u \in Int /\ 0 <= u /\ b \in Int /\ 0 <= b /\ b <= r
             /\ (r - b) * Micros < TimerHz + Micros
             /\ (u \div PerMilli) * PerMilli + (u % PerMilli) = u
<1> DEFINE u == Fraction(r)
           b == TicksOf(u)
           x == r * Micros
           v == u * TimerHz
<1>1. TimerHz \in Nat \ {0} /\ Micros \in Nat \ {0} /\ PerMilli \in Nat \ {0}
  BY Positive
<1>2. x \in Int /\ 0 <= x
  BY <1>1, SMTT(30)
<1>3. u = x \div TimerHz
  BY DEF Fraction
<1>4. u \in Int /\ x % TimerHz < TimerHz /\ x % TimerHz \in Int /\ 0 <= x % TimerHz
      /\ x = TimerHz * u + (x % TimerHz)
  BY <1>1, <1>2, <1>3, DivOfInt
<1> HIDE DEF u
<1>5. TimerHz * u = v /\ v \in Int
  BY <1>1, <1>4, SMTT(30)
<1>6. 0 <= u
  <2> SUFFICES ASSUME u <= -1 PROVE FALSE
    BY <1>4, SMTT(30)
  <2>1. TimerHz * u <= -TimerHz
    BY <1>1, <1>4, SMTT(30)
  <2> QED BY <1>1, <1>2, <1>4, <1>5, <2>1, SMTT(30)
<1>7. 0 <= v
  BY <1>1, <1>4, <1>6, SMTT(30)
<1>8. b = v \div Micros
  BY DEF TicksOf
<1>9. v <= x /\ x < v + TimerHz
  BY <1>1, <1>2, <1>4, <1>5, SMTT(30)
<1> HIDE DEF v
<1>10. /\ b \in Int /\ v % Micros \in Int /\ 0 <= v % Micros /\ v % Micros < Micros
       /\ v = Micros * b + (v % Micros)
  BY <1>1, <1>5, <1>8, DivOfInt
<1> HIDE DEF b
<1>11. Micros * b \in Int /\ Micros * b <= v /\ v < Micros * b + Micros
  BY <1>1, <1>5, <1>10, SMTT(30)
<1>12. 0 <= b
  <2> SUFFICES ASSUME b <= -1 PROVE FALSE
    BY <1>10, SMTT(30)
  <2>1. Micros * b <= -Micros
    BY <1>1, <1>10, SMTT(30)
  <2> QED BY <1>1, <1>5, <1>7, <1>11, <2>1, SMTT(30)
<1>13. b <= r
  <2> SUFFICES ASSUME b >= r + 1 PROVE FALSE
    BY <1>10, SMTT(30)
  <2>1. Micros * b >= x + Micros
    BY <1>1, <1>10, SMTT(30)
  <2> QED BY <1>1, <1>2, <1>5, <1>9, <1>11, <2>1, SMTT(30)
<1>14. (r - b) * Micros = x - Micros * b
  BY <1>1, <1>10, SMTT(30)
<1> HIDE DEF x
<1>15. (r - b) * Micros < TimerHz + Micros
  BY <1>1, <1>2, <1>5, <1>9, <1>11, <1>14, SMTT(30)
<1>16. (u \div PerMilli) * PerMilli + (u % PerMilli) = u
  <2>1. u \div PerMilli \in Int /\ u = PerMilli * (u \div PerMilli) + (u % PerMilli)
    BY <1>1, <1>4, DivOfInt
  <2>2. (u \div PerMilli) * PerMilli = PerMilli * (u \div PerMilli)
    BY <1>1, <2>1, SMTT(30)
  <2> QED BY <2>1, <2>2
<1> QED BY <1>4, <1>6, <1>10, <1>12, <1>13, <1>15, <1>16 DEF u, b

\* Every instant of a day is a tick of one of its seconds.
LEMMA InstantIs ==
  ASSUME NEW n \in Int, NEW i \in Instants
  PROVE  \E w, r \in Int : /\ 0 <= w /\ w < C!DaySeconds /\ 0 <= r /\ r < TimerHz
                           /\ (n * C!DaySeconds - C!CafeEpoch) * TimerHz + i = TimeOf(n, w, r)
<1> DEFINE w == i \div TimerHz
           r == i % TimerHz
           x == n * C!DaySeconds
<1>1. TimerHz \in Nat \ {0} /\ C!DaySeconds \in Nat \ {0} /\ C!CafeEpoch \in Int
  BY Positive
<1>2. i \in Int /\ 0 <= i /\ i < C!DaySeconds * TimerHz
  <2>1. C!DaySeconds * TimerHz \in Int
    BY <1>1, SMTT(30)
  <2>2. i \in 0..C!DaySeconds * TimerHz - 1
    BY ClockAssumption DEF C!DaySeconds
  <2> QED BY <2>1, <2>2, SMTT(30)
<1>3. w \in Int /\ r \in Int /\ 0 <= r /\ r < TimerHz /\ i = TimerHz * w + r
  BY <1>1, <1>2, DivOfInt
<1> HIDE DEF w, r
<1>4. 0 <= w /\ w < C!DaySeconds
  <2>1. 0 <= w
    BY <1>1, <1>2, <1>3, SMTT(30)
  <2>2. w < C!DaySeconds
    BY <1>1, <1>2, <1>3, SMTT(30)
  <2> QED BY <2>1, <2>2
<1>5. x \in Int
  BY <1>1, SMTT(30)
<1> HIDE DEF x
<1>6. (x - C!CafeEpoch) * TimerHz + i = TimerHz * (x + w - C!CafeEpoch) + r
  <2>1. TimerHz * (x + w - C!CafeEpoch) = (x - C!CafeEpoch) * TimerHz + TimerHz * w
    BY <1>1, <1>3, <1>5, SMTT(30)
  <2>2. (x - C!CafeEpoch) * TimerHz \in Int /\ TimerHz * w \in Int
    BY <1>1, <1>3, <1>5, SMTT(30)
  <2> QED BY <1>3, <2>1, <2>2, SMTT(30)
<1>7. (n * C!DaySeconds - C!CafeEpoch) * TimerHz + i = TimeOf(n, w, r)
  BY <1>6 DEF x, TimeOf
<1> QED BY <1>3, <1>4, <1>7

\* OSCalendarTimeToTicks leads back to the same second of the same day.
LEMMA BackIs ==
  ASSUME NEW n \in Int, NEW w \in Int, 0 <= w, w < C!DaySeconds, NEW r \in Int, 0 <= r, r < TimerHz
  PROVE  C!OSCalendarTimeToTicks(C!OSTicksToCalendarTime(TimeOf(n, w, r)))
           = TimeOf(n, w, TicksOf(Fraction(r)))
<1> DEFINE u == Fraction(r)
           hour == w \div (Minutes * Seconds)
           min == (w % (Minutes * Seconds)) \div Seconds
           sec == w % Seconds
           ct == [date |-> C!CivilFromDays(n), wday |-> C!WeekDay(n), yday |-> C!YearDay(n),
                  hour |-> hour, min |-> min, sec |-> sec,
                  msec |-> u \div PerMilli, usec |-> u % PerMilli]
<1>1. C!OSTicksToCalendarTime(TimeOf(n, w, r)) = ct
  BY TicksAre
<1>2. hour * Minutes * Seconds + min * Seconds + sec = w
  BY HandsAre, Zenon
<1>3. (u \div PerMilli) * PerMilli + (u % PerMilli) = u /\ TicksOf(u) \in Int
  BY FractionsAre, Zenon
<1>4. C!DaysFromCivil(C!CivilFromDays(n)) = n
  BY WayBack, Zenon
<1>5. /\ ct.date = C!CivilFromDays(n) /\ ct.hour = hour /\ ct.min = min /\ ct.sec = sec
      /\ ct.msec = u \div PerMilli /\ ct.usec = u % PerMilli
  OBVIOUS
<1>6. n * C!DaySeconds + hour * Minutes * Seconds + min * Seconds + sec = n * C!DaySeconds + w
  <2>1. hour \in Int /\ min \in Int /\ sec \in Int
    BY Positive, DivOfInt, SMTT(30)
  <2> HIDE DEF hour, min, sec
  <2> DEFINE x == n * C!DaySeconds
             h == hour * Minutes * Seconds
             m == min * Seconds
  <2>2. x \in Int /\ h \in Int /\ m \in Int
    BY <2>1, Positive, SMTT(30)
  <2> HIDE DEF x, h, m
  <2>3. x + h + m + sec = x + w
    <3>1. h + m + sec = w
      BY <1>2 DEF h, m
    <3> QED BY <2>1, <2>2, <3>1, SMTT(30)
  <2> QED BY <2>3 DEF x, h, m
<1> HIDE DEF hour, min, sec, u, ct
<1>7. C!OSCalendarTimeToTicks(ct) =
        (n * C!DaySeconds + w - C!CafeEpoch) * TimerHz + TicksOf(u)
  <2> DEFINE secs == n * C!DaySeconds + w
  <2>1. C!DaysFromCivil(ct.date) * C!DaySeconds + ct.hour * Minutes * Seconds + ct.min * Seconds + ct.sec = secs
    BY <1>4, <1>5, <1>6
  <2>2. ((ct.msec * PerMilli + ct.usec) * TimerHz) \div Micros = TicksOf(u)
    BY <1>3, <1>5 DEF TicksOf
  <2> HIDE DEF secs
  <2>3. C!OSCalendarTimeToTicks(ct) = (secs - C!CafeEpoch) * TimerHz + TicksOf(u)
    BY <2>1, <2>2 DEF C!OSCalendarTimeToTicks
  <2>4. secs - C!CafeEpoch = n * C!DaySeconds + w - C!CafeEpoch
    <3>1. n * C!DaySeconds \in Int /\ C!CafeEpoch \in Int
      BY Positive, SMTT(30)
    <3> QED BY <3>1, SMTT(30) DEF secs
  <2> QED BY <2>3, <2>4
<1>8. (n * C!DaySeconds + w - C!CafeEpoch) * TimerHz = TimerHz * (n * C!DaySeconds + w - C!CafeEpoch)
  <2>1. n * C!DaySeconds + w - C!CafeEpoch \in Int /\ TimerHz \in Int
    <3>1. n * C!DaySeconds \in Int /\ C!CafeEpoch \in Int /\ TimerHz \in Int
      BY Positive, SMTT(30)
    <3> QED BY <3>1, SMTT(30)
  <2> QED BY <2>1, SMTT(30)
<1> QED BY <1>1, <1>7, <1>8 DEF TimeOf, u

\* So the way there and back agrees with the calendar, and stays in its second.
LEMMA RoundTripHolds ==
  ASSUME CalendarInv
  PROVE  C!RoundTrip
<1> SUFFICES ASSUME NEW i \in Instants
             PROVE  LET time == (day * C!DaySeconds - C!CafeEpoch) * TimerHz + i
                        ct == C!OSTicksToCalendarTime(time)
                        back == C!OSCalendarTimeToTicks(ct)
                    IN /\ ct.date = date /\ ct.wday = weekday /\ ct.yday = yearday
                       /\ ct.hour \in 0..Hours - 1 /\ ct.min \in 0..Minutes - 1 /\ ct.sec \in 0..Seconds - 1
                       /\ back <= time /\ (time - back) * Micros < TimerHz + Micros
                       /\ C!FloorQuot(back, TimerHz) = C!FloorQuot(time, TimerHz)
  BY DEF C!RoundTrip
<1>1. day \in Int /\ C!CivilFromDays(day) = date /\ C!WeekDay(day) = weekday /\ C!YearDay(day) = yearday
  BY DEF CalendarInv, C!DatesRight
<1>2. PICK w \in Int, r \in Int :
        /\ 0 <= w /\ w < C!DaySeconds /\ 0 <= r /\ r < TimerHz
        /\ (day * C!DaySeconds - C!CafeEpoch) * TimerHz + i = TimeOf(day, w, r)
  BY <1>1, InstantIs, Zenon
<1> DEFINE time == (day * C!DaySeconds - C!CafeEpoch) * TimerHz + i
           ct == C!OSTicksToCalendarTime(time)
           back == C!OSCalendarTimeToTicks(ct)
           b == TicksOf(Fraction(r))
           since == day * C!DaySeconds + w - C!CafeEpoch
<1>3. time = TimeOf(day, w, r)
  BY <1>2
<1> HIDE DEF time
<1>4. ct = [date |-> C!CivilFromDays(day), wday |-> C!WeekDay(day), yday |-> C!YearDay(day),
            hour |-> w \div (Minutes * Seconds), min |-> (w % (Minutes * Seconds)) \div Seconds,
            sec |-> w % Seconds, msec |-> Fraction(r) \div PerMilli, usec |-> Fraction(r) % PerMilli]
  BY <1>1, <1>2, <1>3, TicksAre, ZenonT(60)
<1>5. back = TimeOf(day, w, b)
  BY <1>1, <1>2, <1>3, BackIs, Zenon
<1> HIDE DEF ct, back
<1>6. ct.date = date /\ ct.wday = weekday /\ ct.yday = yearday
  BY <1>1, <1>4
<1>7. ct.hour \in 0..Hours - 1 /\ ct.min \in 0..Minutes - 1 /\ ct.sec \in 0..Seconds - 1
  <2>1. /\ ct.hour = w \div (Minutes * Seconds) /\ ct.min = (w % (Minutes * Seconds)) \div Seconds
        /\ ct.sec = w % Seconds
    BY <1>4
  <2> QED BY <1>2, <2>1, HandsAre, Zenon
<1>8. b \in Int /\ 0 <= b /\ b <= r /\ (r - b) * Micros < TimerHz + Micros
  BY <1>2, FractionsAre, ZenonT(60)
<1> HIDE DEF b
<1>9. TimerHz \in Nat \ {0} /\ since \in Int /\ TimerHz * since \in Int
  <2>1. TimerHz \in Nat \ {0} /\ day * C!DaySeconds \in Int /\ C!CafeEpoch \in Int
    BY <1>1, Positive, SMTT(30)
  <2>2. since \in Int
    BY <2>1, SMTT(30)
  <2> HIDE DEF since
  <2> QED BY <2>1, <2>2, SMTT(30)
<1>10. time = TimerHz * since + r /\ back = TimerHz * since + b
  BY <1>3, <1>5 DEF TimeOf
<1> HIDE DEF since
<1>11. back <= time /\ time - back = r - b
  BY <1>8, <1>9, <1>10, SMTT(30)
<1>12. C!FloorQuot(time, TimerHz) = since /\ C!FloorQuot(back, TimerHz) = since
  <2>1. b < TimerHz
    BY <1>2, <1>8, <1>9, SMTT(30)
  <2> QED BY <1>2, <1>8, <1>9, <1>10, <2>1, FloorIs
<1> QED BY <1>6, <1>7, <1>8, <1>11, <1>12 DEF time, ct, back
-------------------------------------------------------------------------------
\* The parts share no variable: a step of one leaves the invariants of the others.
ServicesInv ==
  FileInv /\ ClientInv /\ FlockInv /\ DriverInv /\ CacheInv /\ HeapInv /\ LoadInv /\ CalendarInv

\* Each part is as it is when the library is loaded.
LEMMA ServicesStart ==
  ASSUME Init
  PROVE  ServicesInv
<1>1. FileInv /\ ClientInv /\ FlockInv /\ DriverInv /\ CacheInv /\ HeapInv /\ LoadInv
  BY FilesStart, ClientsStart, FlocksStart, DriversStart, CacheStart, HeapsStart, LoaderStarts DEF Init
<1>2. CalendarInv
  <2>1. \E k \in Int : C!Start(k)
    BY ClockAssumption DEF Init
  <2> QED BY <2>1, CalendarStarts
<1> QED BY <1>1, <1>2 DEF ServicesInv

\* A call of a service keeps its part, and is not seen by the others.
LEMMA ServicesKeep ==
  ASSUME ServicesInv, [Next]_vars
  PROVE  ServicesInv'
<1>1. /\ F!FileNext \/ UNCHANGED fileVars
      /\ S!ClientNext \/ UNCHANGED clientVars
      /\ G!FlockNext \/ UNCHANGED flockVars
      /\ D!DriverNext \/ UNCHANGED driverVars
      /\ L!CacheNext \/ UNCHANGED cacheVars
      /\ H!BaseNext \/ UNCHANGED heapVars
      /\ M!LoadNext \/ UNCHANGED loadVars
      /\ C!Tomorrow \/ UNCHANGED calendarVars
  BY DEF Next, vars, UseFiles, UseClients, UseFlocks, UseDrivers, UseCache, UseHeaps, UseLoader, UseCalendar
<1>2. CalendarInv'
  <2>1. CASE C!Tomorrow
    BY <2>1, CalendarKeeps DEF ServicesInv
  <2>2. CASE UNCHANGED calendarVars
    BY <2>2, Zenon DEF calendarVars, ServicesInv, CalendarInv, C!DatesRight
  <2> QED BY <1>1, <2>1, <2>2
<1> QED BY <1>1, <1>2, FilesKeep, ClientsKeep, FlocksKeep, DriversKeep, CacheKeeps, HeapsKeep, LoaderKeeps
        DEF ServicesInv

\* In every behaviour of the services, each part keeps its invariant.
THEOREM ServicesHold == Spec => []ServicesInv
<1>1. Init => ServicesInv
  BY ServicesStart
<1>2. ServicesInv /\ [Next]_vars => ServicesInv'
  BY ServicesKeep
<1> QED BY <1>1, <1>2, PTL DEF Spec

\* What a service has handed out stays its holder's until it is given back: a file or
\* directory handle, a flock of the pool, a driver's save area, a block of the default
\* heap, and a library that is held.
THEOREM HandedOutStaysGood == Spec => []HeldStaysGood
<1>1. ServicesInv => HeldStaysGood
  <2> SUFFICES ASSUME ServicesInv PROVE HeldStaysGood
    OBVIOUS
  <2>1. F!GrantsGood /\ G!FlocksApart /\ D!SavesKept /\ M!ModulesKept
    BY FilesAreKept, FlocksAreApart, DriversTold, LoaderIsKept DEF ServicesInv
  <2>2. H!BlocksKept
    BY DEF ServicesInv, HeapInv, InUse, H!BlocksKept
  <2> QED BY <2>1, <2>2 DEF HeldStaysGood
<1> QED BY <1>1, ServicesHold, PTL

\* A file that is read, written or sought through its handle goes on where the last call
\* on that handle left it, whatever is done with other handles meanwhile.
THEOREM CursorsRight == Spec => []CursorsKept
<1>1. ServicesInv => CursorsKept
  BY FilesAreKept DEF ServicesInv, CursorsKept
<1> QED BY <1>1, ServicesHold, PTL

\* A client between two calls has the directory and the last error that its own calls
\* left it with, and the files of its directory are where that was first mapped to.
THEOREM SessionsOwn == Spec => []SessionsKept
<1>1. ServicesInv => SessionsKept
  BY SessionsAreKept DEF ServicesInv, SessionsKept
<1> QED BY <1>1, ServicesHold, PTL

\* OSDriver_CallOnDone leaves every driver that was registered when it began told once
\* that it is over, by it or by a Deregister that came first, and no driver is told
\* twice, whatever is registered and deregistered meanwhile.
THEOREM DriversToldOnce == Spec => []EndsOnce
<1>1. ServicesInv => EndsOnce
  BY DriversTold DEF ServicesInv, EndsOnce
<1> QED BY <1>1, ServicesHold, PTL

\* The locked cache counts exactly what it has handed out, and never exceeds its budget.
THEOREM BudgetHolds == Spec => []BudgetKept
<1>1. \A X : L!Cardinality(X) = Cardinality(X)
  BY DEF L!Cardinality, Cardinality
<1>2. ServicesInv => BudgetKept
  BY <1>1 DEF ServicesInv, CacheInv, BudgetKept, L!BudgetKept
<1> QED BY <1>2, ServicesHold, PTL

\* On every day both conversions, the day of the week and the day of the year agree with
\* a calendar that goes on day by day, however far from 1970 on either side.
THEOREM DatesAreRight == Spec => []DatesRight
<1>1. ServicesInv => DatesRight
  BY DEF ServicesInv, CalendarInv, DatesRight
<1> QED BY <1>1, ServicesHold, PTL

\* On every day each instant is converted to its date and time of day, and back to a
\* time in the same second that is less than a microsecond and a tick earlier, for every
\* length of the day and rate of the timer.
THEOREM TimesRoundTrip == Spec => []RoundTrip
<1>1. ServicesInv => RoundTrip
  BY RoundTripHolds DEF ServicesInv, RoundTrip
<1> QED BY <1>1, ServicesHold, PTL
===============================================================================
