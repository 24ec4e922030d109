------------------------------- MODULE Services -------------------------------
(***************************************************************************)
(* The small services of the library: open files, the clients' sessions,   *)
(* flocks, drivers, the locked cache, the default heap, the loader and the *)
(* calendar.  They share no state and no lock (FSShutdown alone belongs to *)
(* two of them, and runs alone), so a behaviour in which all are used is   *)
(* an interleaving of behaviours of each; here a behaviour uses one of     *)
(* them, chosen at the start.                                              *)
(***************************************************************************)
EXTENDS Integers, Sequences, FiniteSets

CONSTANTS Thread, NoThread,
          Pair,   \* the threads that use what more of them would make too large
          Stream, NoStream, FileSize,
          Client, NoClient, MaxAdded, Directory, Prefix, Root, MaxMappings,
          FlockMax,
          DriverId, MaxDrivers, Datum, Blank, MaxRegistrations,
          Word, CacheSize, HostMemory, Address, Sizes,
          Region, NoRegion, GuestHeap, Block,
          Library, Registered, NoLibrary, MaxModules, MaxHeld,
          Anchors, Days, Hours, Minutes, Seconds, TimerHz, Micros, PerMilli, Instants

\* The Switch has less than 4 GB for a program, so that a size for which the sum
\* of the locked cache wraps is one that the host cannot supply.  A volume is not
\* mounted on a file that the guest opens.
ASSUME ServicesAssumption ==
  /\ IsFiniteSet(Thread)
  /\ CacheSize \in Nat /\ HostMemory \in Nat
  /\ Word \in Nat \ {0} /\ CacheSize + HostMemory < Word
  /\ Sizes \subseteq 0..Word - 1
  /\ Pair \subseteq Thread /\ NoThread \notin Thread \cup Address
  /\ {FileSize, MaxMappings, FlockMax, MaxDrivers, MaxRegistrations, MaxModules, MaxHeld} \subseteq Nat
  /\ Directory \cup Prefix \cup Root \subseteq Seq(STRING)
  /\ \A p \in Directory : p \o <<"/file">> \notin Prefix
  /\ NoStream \notin Stream /\ NoClient \notin Client /\ NoLibrary \notin Library
  /\ Blank \notin Datum /\ Region \cap {NoRegion, GuestHeap} = {} /\ NoRegion # GuestHeap

\* A clock has no unit of nothing, and the instants are of one day.
ASSUME ClockAssumption ==
  /\ {Hours, Minutes, Seconds, TimerHz, Micros, PerMilli} \subseteq Nat \ {0}
  /\ Anchors \subseteq Int /\ Instants \subseteq 0..(Hours * Minutes * Seconds * TimerHz) - 1

VARIABLES part,
          table, capacity, streams, position, grants, calls, cursor, intact,
          added, session, mappings, lock, work, sound, own, settled,
          inUse, freeIdx, pool, at, idx, flocks,
          drivers, latest, ends, sweep, calling, standing, saved,
          allotted, allocated, inited, holder, request,
          baseRegion, baseHeap, claimed, taken, owned, visit, unspoilt,
          modules, held, handle, finding,
          day, date, weekday, yearday, origin

F == INSTANCE FileTable WITH FileThread <- Pair
S == INSTANCE FileClient WITH ClientThread <- Pair, NoOne <- NoThread
G == INSTANCE FlockPool
D == INSTANCE Driver
L == INSTANCE LockedCache WITH CacheThread <- Thread, NoOne <- NoThread, Primed <- TRUE
H == INSTANCE BaseHeap WITH HeapThread <- Pair
M == INSTANCE DynLoad WITH LoadThread <- Pair
C == INSTANCE Calendar

fileVars == <<table, capacity, streams, position, grants, calls, cursor, intact>>
clientVars == <<added, session, mappings, lock, work, sound, own, settled>>
flockVars == <<inUse, freeIdx, pool, at, idx, flocks>>
driverVars == <<drivers, latest, ends, sweep, calling, standing, saved>>
cacheVars == <<allotted, allocated, inited, holder, request>>
heapVars == <<baseRegion, baseHeap, claimed, taken, owned, visit, unspoilt>>
loadVars == <<modules, held, handle, finding>>
calendarVars == <<day, date, weekday, yearday, origin>>

vars == <<part, fileVars, clientVars, flockVars, driverVars, cacheVars,
          heapVars, loadVars, calendarVars>>

Init ==
  /\ F!FileInit /\ S!ClientInit /\ G!FlockInit /\ D!DriverInit /\ L!CacheInit /\ H!BaseInit /\ M!LoadInit
  /\ \/ part \in {"files", "clients", "flocks", "drivers", "cache", "heaps", "loader"} /\ C!Start(0)
     \/ part = "calendar" /\ \E k \in Anchors : C!Start(k)

UseFiles ==
  /\ part = "files" /\ F!FileNext
  /\ UNCHANGED <<clientVars, flockVars, driverVars, cacheVars, heapVars, loadVars, calendarVars>>

UseClients ==
  /\ part = "clients" /\ S!ClientNext
  /\ UNCHANGED <<fileVars, flockVars, driverVars, cacheVars, heapVars, loadVars, calendarVars>>

UseFlocks ==
  /\ part = "flocks" /\ G!FlockNext
  /\ UNCHANGED <<fileVars, clientVars, driverVars, cacheVars, heapVars, loadVars, calendarVars>>

UseDrivers ==
  /\ part = "drivers" /\ D!DriverNext
  /\ UNCHANGED <<fileVars, clientVars, flockVars, cacheVars, heapVars, loadVars, calendarVars>>

UseCache ==
  /\ part = "cache" /\ L!CacheNext
  /\ UNCHANGED <<fileVars, clientVars, flockVars, driverVars, heapVars, loadVars, calendarVars>>

UseHeaps ==
  /\ part = "heaps" /\ H!BaseNext
  /\ UNCHANGED <<fileVars, clientVars, flockVars, driverVars, cacheVars, loadVars, calendarVars>>

UseLoader ==
  /\ part = "loader" /\ M!LoadNext
  /\ UNCHANGED <<fileVars, clientVars, flockVars, driverVars, cacheVars, heapVars, calendarVars>>

UseCalendar ==
  /\ part = "calendar" /\ C!Tomorrow
  /\ UNCHANGED <<fileVars, clientVars, flockVars, driverVars, cacheVars, heapVars, loadVars>>

Next ==
  /\ \/ UseFiles \/ UseClients \/ UseFlocks \/ UseDrivers
     \/ UseCache \/ UseHeaps \/ UseLoader \/ UseCalendar
  /\ UNCHANGED part

Spec == Init /\ [][Next]_vars
-------------------------------------------------------------------------------
\* What is handed out stays the holder's until it is given back: a file or directory
\* handle names its stream, a flock has one owner although a destroy takes no lock, a
\* driver's save area is its own, a block of the default heap is in use while it is
\* owned, and a library's handle while it is held.
HeldStaysGood ==
  CASE part = "files" -> F!GrantsGood
    [] part = "flocks" -> G!FlocksApart
    [] part = "drivers" -> D!SavesKept
    [] part = "heaps" -> H!BlocksKept
    [] part = "loader" -> M!ModulesKept
    [] OTHER -> TRUE

\* A file goes on where the last call on its handle left it.
CursorsKept == part = "files" => F!CursorsKept

\* A client has the directory and the last error that its own calls left it with.
SessionsKept == part = "clients" => S!SessionsKept

\* Every driver is told once that it is over.
EndsOnce == part = "drivers" => D!EndsOnce

\* The locked cache never hands out more than its budget.
BudgetKept == part = "cache" => L!BudgetKept

\* The calendar conversions agree with the calendar.
DatesRight == part = "calendar" => C!DatesRight

\* A time converted to a date and back is the same time.
RoundTrip == part = "calendar" => C!RoundTrip
==============================================================================
