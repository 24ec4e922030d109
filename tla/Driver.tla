-------------------------------- MODULE Driver --------------------------------
(***************************************************************************)
(* OSDriver (source/driver.cpp): a table of registered drivers, and the    *)
(* shutdown that calls the onDone of each one outside the lock.  While it  *)
(* does, the callback and the other threads may register and deregister.   *)
(* The other calls of a driver (onInit, after the registration) can do no  *)
(* more than any guest.  What is copied to a save area is one value.       *)
(***************************************************************************)
EXTENDS FiniteSetsExt, Integers

CONSTANTS DriverId,
          MaxDrivers,       \* kMaxDrivers
          Datum, Blank,     \* what a save area holds, and what a new one does
          MaxRegistrations  \* bound on the registrations

Slot == 1..MaxDrivers

NoDriver == [used |-> FALSE, id |-> CHOOSE d \in DriverId : TRUE, no |-> 0, save |-> Blank]

VARIABLES
  drivers,   \* g_drivers, each with the number of its registration
  latest,    \* the number of the latest registration
  ends,      \* ends[n]: how often registration n was told that it is over
  sweep,     \* the slot coreinitNxDriverShutdown is at, 0 when it is not running
  calling,   \* the driver whose onDone it is about to call, or NoDriver
  standing,  \* the latest registration when it began
  saved      \* saved[n]: what registration n should find in its save area

driverVars == <<drivers, latest, ends, sweep, calling, standing, saved>>

DriverInit ==
  /\ drivers = [i \in Slot |-> NoDriver]
  /\ latest = 0 /\ ends = [n \in 1..MaxRegistrations |-> 0]
  /\ sweep = 0 /\ calling = NoDriver /\ standing = 0
  /\ saved = [n \in 1..MaxRegistrations |-> Blank]

\* Mutation of Register: the save area of the slot's last driver stays.
RegisterOver(d) ==
  LET unused == {i \in Slot : ~drivers[i].used} IN
  /\ unused # {} /\ latest < MaxRegistrations
  /\ latest' = latest + 1
  /\ drivers' = [drivers EXCEPT ![Min(unused)] =
       [used |-> TRUE, id |-> d, no |-> latest + 1, save |-> @.save]]
  /\ UNCHANGED <<ends, sweep, calling, standing, saved>>

\* OSDriver_Register: the first unused slot, its save area cleared.
Register(d) ==
  LET unused == {i \in Slot : ~drivers[i].used} IN
  /\ unused # {} /\ latest < MaxRegistrations
  /\ latest' = latest + 1
  /\ drivers' = [drivers EXCEPT ![Min(unused)] =
       [used |-> TRUE, id |-> d, no |-> latest + 1, save |-> Blank]]
  /\ UNCHANGED <<ends, sweep, calling, standing, saved>>

\* find: the first driver of that id.
Found(d) == {i \in Slot : drivers[i].used /\ drivers[i].id = d}

\* OSDriver_CopyToSaveArea; OSDriver_CopyFromSaveArea finds the same driver.
CopyToSaveArea(d, datum) ==
  LET i == Min(Found(d)) IN
  /\ Found(d) # {}
  /\ drivers' = [drivers EXCEPT ![i].save = datum]
  /\ saved' = [saved EXCEPT ![drivers[i].no] = datum]
  /\ UNCHANGED <<latest, ends, sweep, calling, standing>>

\* OSDriver_Deregister, which answers 0 for that driver.
Deregister(d) ==
  LET i == Min(Found(d)) IN
  /\ Found(d) # {}
  /\ drivers' = [drivers EXCEPT ![i].used = FALSE]
  /\ ends' = [ends EXCEPT ![drivers[i].no] = @ + 1]
  /\ UNCHANGED <<latest, sweep, calling, standing, saved>>

BeginShutdown ==
  /\ sweep = 0
  /\ sweep' = 1 /\ standing' = latest
  /\ UNCHANGED <<drivers, latest, ends, calling, saved>>

\* Mutation of SweepSlot: the slot is freed without the lock, after the callback.
SweepSlotLate ==
  /\ sweep \in Slot /\ calling = NoDriver
  /\ calling' = IF drivers[sweep].used THEN drivers[sweep] ELSE NoDriver
  /\ sweep' = IF drivers[sweep].used THEN sweep ELSE sweep + 1
  /\ UNCHANGED <<drivers, latest, ends, standing, saved>>

\* One turn of the loop under the lock: the driver is copied and its slot freed.
SweepSlot ==
  /\ sweep \in Slot /\ calling = NoDriver
  /\ calling' = IF drivers[sweep].used THEN drivers[sweep] ELSE NoDriver
  /\ drivers' = [drivers EXCEPT ![sweep].used = FALSE]
  /\ sweep' = IF drivers[sweep].used THEN sweep ELSE sweep + 1
  /\ UNCHANGED <<latest, ends, standing, saved>>

CallOnDone ==
  /\ calling # NoDriver
  /\ ends' = [ends EXCEPT ![calling.no] = @ + 1]
  /\ calling' = NoDriver
  /\ sweep' = sweep + 1
  /\ UNCHANGED <<drivers, latest, standing, saved>>

EndShutdown ==
  /\ sweep = MaxDrivers + 1
  /\ sweep' = 0
  /\ UNCHANGED <<drivers, latest, ends, calling, standing, saved>>

DriverNext == \/ \E d \in DriverId : Register(d) \/ Deregister(d)
              \/ \E d \in DriverId, datum \in Datum : CopyToSaveArea(d, datum)
              \/ BeginShutdown \/ SweepSlot \/ CallOnDone \/ EndShutdown

\* A driver finds in its save area what was last copied there for its registration,
\* and nothing of the driver that had its slot before.
SavesKept == \A i \in Slot : drivers[i].used => drivers[i].save = saved[drivers[i].no]

\* driver.h:43: the shutdown calls "onDone on all registered drivers".  Each one
\* that was registered when it began is told once that it is over, by onDone or
\* by a Deregister that came first, and no driver is told twice.
EndsOnce ==
  /\ \A n \in 1..latest : ends[n] <= 1
  /\ sweep = MaxDrivers + 1 => \A n \in 1..standing : ends[n] = 1
==============================================================================
