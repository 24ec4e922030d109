----------------------------- MODULE FileClient -----------------------------
(***************************************************************************)
(* The sessions of source/filesystem.cpp: for each client its directory    *)
(* and last error, in a map that a first write inserts into, and the       *)
(* mappings of volumes, through which every path is translated.            *)
(*                                                                         *)
(* FSOpenFile and FSOpenDir translate a path under g_lock, and FSMakeDir,  *)
(* FSRemove and FSRename without it; errors are recorded without it, after *)
(* the call is over.  What an access meets while another thread inserts or *)
(* adds a mapping is undefined: the maps are sound until then.             *)
(* A path is a sequence of pieces of its text, not of names: <<"/a">> and   *)
(* <<"/a", "b">> are the directories /a and /ab, of which one is a prefix  *)
(* of the other.  What the host does when it is asked is arbitrary.  What  *)
(* an open does to the tables is FileTable's.                              *)
(***************************************************************************)
EXTENDS Naturals, SequencesExt

CONSTANTS Client, NoClient,   \* FSClient pointers, and nullptr
          ClientThread, NoOne,
          Directory,          \* absolute paths the guest uses as directories
          Prefix, Root,       \* prefixes of paths, and where the port maps them to
          MaxMappings,        \* bound on g_mappings
          MaxAdded            \* bound on g_clients

VARIABLES
  added,      \* g_clients
  session,    \* g_clientState: [cwd, error] by client
  mappings,   \* g_mappings
  lock,       \* the holder of g_lock, or NoOne
  work,       \* work[t]: the call thread t is in, or NoWork
  sound,      \* no map has been accessed while it was being changed
  own,        \* own[c]: the session that the calls of client c add up to
  settled     \* settled[p]: where directory p was first mapped to

clientVars == <<added, session, mappings, lock, work, sound, own, settled>>

NoWork == <<>>
Nowhere == <<>>   \* the directory of a client that has not changed to one
Fresh == [cwd |-> Nowhere, error |-> "OK"]
File == <<"/file">>

\* fopen says whether a path is missing or a directory; FS_STATUS_NOT_FILE has no
\* case of its own.
statusToError(status) ==
  CASE status = "OK" -> "OK" [] status = "NOT_FOUND" -> "NOT_FOUND" [] OTHER -> "MEDIA_ERROR"

Session(c) == IF c \in DOMAIN session THEN session[c] ELSE Fresh

\* The host's path: the first mapping whose text the path begins with, also in the
\* middle of a name, and the path itself without one.
Mapped(path) ==
  LET fits == {i \in DOMAIN mappings : IsPrefix(mappings[i].prefix, path)} IN
  IF fits = {} THEN path
  ELSE LET m == mappings[CHOOSE i \in fits : \A j \in fits : i <= j] IN
       m.root \o SubSeq(path, Len(m.prefix) + 1, Len(path))

\* A relative path is taken from the directory of the client.
Translate(c) == Mapped(Session(c).cwd \o File)

ClientInit ==
  /\ added = 0 /\ session = <<>> /\ mappings = <<>>
  /\ lock = NoOne /\ work = [t \in ClientThread |-> NoWork] /\ sound = TRUE
  /\ own = [c \in Client |-> Fresh] /\ settled = [p \in Directory |-> <<>>]

At(t, stage) == work[t] # NoWork /\ work[t].stage = stage
Reading == {t \in ClientThread : At(t, "translate")}
Inserting == {t \in ClientThread : At(t, "insert")}

\* A thread starts a call for a client that no other call is in progress for.
Calls(t, c) ==
  /\ work[t] = NoWork
  /\ c # NoClient => \A u \in ClientThread : work[u] # NoWork => work[u].client # c

Goes(t, w) == work' = [work EXCEPT ![t] = w]
Working(c, stage, arg) == [client |-> c, stage |-> stage, arg |-> arg, cwd |-> Nowhere]

\* Thread t reads a map, inserts into one, or changes the mappings.
Reads(t) == sound' = (sound /\ Inserting \ {t} = {})
Inserts(t) == sound' = (sound /\ (Reading \cup Inserting) \ {t} = {})
ChangesMappings == sound' = (sound /\ Reading = {})
-------------------------------------------------------------------------------
\* The paths of FSOpenFile and FSOpenDir are translated under the lock and those of
\* FSMakeDir, FSRemove and FSRename without it.
StartPath(t, c, op) ==
  /\ Calls(t, c)
  /\ IF op \in {"FSOpenFile", "FSOpenDir"} THEN lock = NoOne /\ lock' = t ELSE UNCHANGED lock
  /\ Goes(t, Working(c, "translate", op)) /\ Reads(t)
  /\ UNCHANGED <<added, session, mappings, own, settled>>

Outcomes(op) ==
  CASE op = "FSOpenFile" -> {"OK", "NOT_FOUND", "NOT_FILE"}
    [] op \in {"FSOpenDir", "FSRemove"} -> {"OK", "NOT_FOUND"}
    [] op \in {"FSMakeDir", "FSRename"} -> {"OK", "FATAL_ERROR"}

\* FSMakeDir does not record its status, nor FSOpenDir that it succeeded.
Records(op, status) == op # "FSMakeDir" /\ ~(op = "FSOpenDir" /\ status = "OK")

Leave(t, c, status, records) ==
  IF records /\ c # NoClient
  THEN /\ Goes(t, Working(c, "record", statusToError(status)))
       /\ own' = [own EXCEPT ![c].error = statusToError(status)]
  ELSE Goes(t, NoWork) /\ UNCHANGED own

EndPath(t, status) ==
  /\ At(t, "translate") /\ status \in Outcomes(work[t].arg)
  /\ Leave(t, work[t].client, status, Records(work[t].arg, status))
  /\ lock' = IF lock = t THEN NoOne ELSE lock
  /\ UNCHANGED <<added, session, mappings, sound, settled>>

\* Mutation of Record: one last error for the whole process.
RecordForAll(t) ==
  LET c == work[t].client IN
  /\ At(t, "record") /\ c \in DOMAIN session
  /\ session' = [d \in DOMAIN session |-> [session[d] EXCEPT !.error = work[t].arg]]
  /\ Goes(t, NoWork) /\ Reads(t)
  /\ UNCHANGED <<added, mappings, lock, own, settled>>

\* record, without the lock: for a client that is in the map, and for a new one.
Record(t) ==
  LET c == work[t].client IN
  /\ At(t, "record") /\ c \in DOMAIN session
  /\ session' = [session EXCEPT ![c].error = work[t].arg]
  /\ Goes(t, NoWork) /\ Reads(t)
  /\ UNCHANGED <<added, mappings, lock, own, settled>>

RecordFirst(t) ==
  /\ At(t, "record") /\ work[t].client \notin DOMAIN session
  /\ Goes(t, [work[t] EXCEPT !.stage = "insert"]) /\ Inserts(t)
  /\ UNCHANGED <<added, session, mappings, lock, own, settled>>

\* The insertion is done: of an error, or of a directory under the lock.
EndInsert(t) ==
  LET w == work[t] IN
  /\ At(t, "insert")
  /\ session' = [c \in DOMAIN session \cup {w.client} |->
       IF c # w.client THEN session[c]
       ELSE [cwd |-> w.cwd, error |-> w.arg]]
  /\ lock' = IF lock = t THEN NoOne ELSE lock
  /\ Goes(t, NoWork) /\ UNCHANGED <<added, mappings, sound, own, settled>>
-------------------------------------------------------------------------------
\* FSAddClient and FSDelClient count: a client deleted too often is no debt.
AddClient(t) ==
  /\ work[t] = NoWork /\ lock = NoOne /\ added < MaxAdded
  /\ added' = added + 1
  /\ UNCHANGED <<session, mappings, lock, work, sound, own, settled>>

DelClient(t) ==
  /\ work[t] = NoWork /\ lock = NoOne
  /\ added' = IF added > 0 THEN added - 1 ELSE 0
  /\ UNCHANGED <<session, mappings, lock, work, sound, own, settled>>

\* FSChangeDir, to an absolute path, and FSGetCwd, which inserts as well and has
\* the directory of a client that has none.
ChangeDir(t, c, cwd) ==
  /\ Calls(t, c) /\ c # NoClient /\ lock = NoOne
  /\ own' = [own EXCEPT ![c].cwd = cwd]
  /\ IF c \in DOMAIN session
     THEN session' = [session EXCEPT ![c].cwd = cwd] /\ Reads(t) /\ UNCHANGED <<work, lock>>
     ELSE Goes(t, [Working(c, "insert", "OK") EXCEPT !.cwd = cwd]) /\ lock' = t /\ Inserts(t) /\ UNCHANGED session
  /\ UNCHANGED <<added, mappings, settled>>

GetCwd(t, c) == ChangeDir(t, c, Session(c).cwd)

\* FSGetLastError, without the lock.
GetLastError(t, c) ==
  /\ Calls(t, c) /\ c # NoClient /\ Reads(t)
  /\ UNCHANGED <<added, session, mappings, lock, work, own, settled>>

Settles(prefix, root) == settled' = [p \in Directory |->
  IF settled[p] = <<>> /\ IsPrefix(prefix, p)
  THEN <<root \o SubSeq(p, Len(prefix) + 1, Len(p))>> ELSE settled[p]]

\* coreinitNxAddVolumeMapping: the vector grows under the lock.
AddMapping(prefix, root) ==
  /\ lock = NoOne /\ Len(mappings) < MaxMappings
  /\ mappings' = Append(mappings, [prefix |-> prefix, root |-> root])
  /\ Settles(prefix, root) /\ ChangesMappings

AddVolumeMapping(t, prefix, root) ==
  /\ work[t] = NoWork /\ AddMapping(prefix, root)
  /\ UNCHANGED <<added, session, lock, work, own>>

\* FSMount maps a volume to the root of the host.
Mount(t, c, prefix) ==
  /\ Calls(t, c) /\ AddMapping(prefix, <<>>)
  /\ Leave(t, c, "OK", TRUE)
  /\ UNCHANGED <<added, session, lock>>

\* FSGetMountSource, whose argument may be missing: it only records.
GetMountSource(t, c, status) ==
  /\ Calls(t, c) /\ c # NoClient /\ Leave(t, c, status, TRUE)
  /\ UNCHANGED <<added, session, mappings, lock, sound, settled>>

ClearVolumeMappings(t) ==
  /\ work[t] = NoWork /\ lock = NoOne
  /\ mappings' = <<>> /\ settled' = [p \in Directory |-> <<>>] /\ ChangesMappings
  /\ UNCHANGED <<added, session, lock, work, own>>

\* FSShutdown forgets the clients and keeps the mappings; no other call is in progress.
ShutdownClients ==
  /\ \A t \in ClientThread : work[t] = NoWork
  /\ added' = 0 /\ session' = <<>> /\ own' = [c \in Client |-> Fresh]
  /\ UNCHANGED <<mappings, lock, work, sound, settled>>

ClientNext ==
  /\ sound
  /\ \/ ShutdownClients
     \/ \E t \in ClientThread :
          \/ \E c \in Client \cup {NoClient} :
               \/ \E op \in {"FSOpenFile", "FSOpenDir", "FSMakeDir", "FSRemove", "FSRename"} : StartPath(t, c, op)
               \/ \E cwd \in Directory : ChangeDir(t, c, cwd)
               \/ \E prefix \in Prefix : Mount(t, c, prefix)
               \/ \E status \in {"OK", "FATAL_ERROR"} : GetMountSource(t, c, status)
               \/ GetCwd(t, c) \/ GetLastError(t, c)
          \/ \E status \in {"OK", "NOT_FOUND", "NOT_FILE", "FATAL_ERROR"} : EndPath(t, status)
          \/ \E prefix \in Prefix, root \in Root : AddVolumeMapping(t, prefix, root)
          \/ Record(t) \/ RecordFirst(t) \/ EndInsert(t)
          \/ AddClient(t) \/ DelClient(t) \/ ClearVolumeMappings(t)
-------------------------------------------------------------------------------
\* filesystem.cpp:32-34: "relative paths must be resolved against the current
\* directory of THAT client, not a global one".  A client between two calls has the
\* error and the directory that its own calls left it with, and a file in that
\* directory is where the directory was first mapped to, whatever is mounted later.
SessionsKept ==
  sound => \A c \in Client : (\A t \in ClientThread : work[t] = NoWork \/ work[t].client # c) =>
    /\ Session(c) = own[c]
    /\ own[c].cwd # Nowhere /\ settled[own[c].cwd] # <<>>
         => Translate(c) = settled[own[c].cwd][1] \o File
==============================================================================
