------------------------------ MODULE FileTable ------------------------------
(***************************************************************************)
(* The open files and directories of source/filesystem.cpp: two vectors of *)
(* slots, each holding a stream of the C library.  A handle is a slot      *)
(* number from 1; the first unused slot is taken before a vector grows.    *)
(*                                                                         *)
(* Opening and closing are sections under g_lock and one step each, on     *)
(* either vector.  Everything else finds its slot without the lock and     *)
(* then goes through it to the stream, a step for each access: meanwhile   *)
(* an open on another thread may move the vector.  An asynchronous variant *)
(* does its work before it returns and is the same call.  What a path      *)
(* means, and what a call leaves in the client's session, is FileClient's. *)
(***************************************************************************)
EXTENDS Naturals, Sequences, FiniteSetsExt

CONSTANTS Stream, NoStream,   \* what fopen and opendir can return
          FileThread,         \* threads that use them
          FileSize            \* the items of every file and directory

VARIABLES
  table,     \* table[k]: g_files or g_dirs, NoStream in an unused slot
  capacity,  \* how many slots each vector has memory for
  streams,   \* the streams that are open
  position,  \* position[s]: the next item of stream s
  grants,    \* the handles the guest has been given and may use
  calls,     \* calls[t]: the call thread t is in, or NoCall
  cursor,    \* where each stream should be after the calls made on it
  intact     \* no call has gone through a slot that was freed

fileVars == <<table, capacity, streams, position, grants, calls, cursor, intact>>

Kind == {"file", "dir"}
NoCall == <<>>
Unknown == FileSize + 1   \* the cursor of a stream two calls have used at once

FileInit ==
  /\ table = [k \in Kind |-> <<>>] /\ capacity = [k \in Kind |-> 0]
  /\ streams = {} /\ grants = {}
  /\ position = [s \in Stream |-> 0] /\ cursor = position
  /\ calls = [t \in FileThread |-> NoCall] /\ intact = TRUE

Unused(k) == {i \in DOMAIN table[k] : table[k][i] = NoStream}
InCall(g) == {t \in FileThread : calls[t] # NoCall /\ calls[t].grant = g}

\* A vector out of memory moves to twice as much, away from those who have found
\* their slot in it.
Grow(k) ==
  IF Len(table[k]) < capacity[k] THEN UNCHANGED <<capacity, calls>>
  ELSE /\ capacity' = [capacity EXCEPT ![k] = Max({1, 2 * @})]
       /\ calls' = [t \in FileThread |->
            IF calls[t] # NoCall /\ calls[t].grant.kind = k
            THEN [calls[t] EXCEPT !.stale = TRUE] ELSE calls[t]]

Put(k, slot, s) ==
  /\ table' = [table EXCEPT ![k] = IF slot > Len(@) THEN Append(@, s) ELSE [@ EXCEPT ![slot] = s]]
  /\ IF slot > Len(table[k]) THEN Grow(k) ELSE UNCHANGED <<capacity, calls>>
  /\ streams' = streams \cup {s}
  /\ grants' = grants \cup {[kind |-> k, handle |-> slot, stream |-> s]}
  /\ position' = [position EXCEPT ![s] = 0] /\ cursor' = [cursor EXCEPT ![s] = 0]
  /\ UNCHANGED intact

\* FSOpenFile and FSOpenDir, where the host has the file.
Open(k) ==
  \E s \in Stream \ streams :
    Put(k, IF Unused(k) = {} THEN Len(table[k]) + 1 ELSE Min(Unused(k)), s)

\* FSCloseFile and FSCloseDir, of a handle the guest holds and uses no more.
Close(g) ==
  /\ InCall(g) = {}
  /\ streams' = streams \ {table[g.kind][g.handle]}
  /\ table' = [table EXCEPT ![g.kind][g.handle] = NoStream]
  /\ grants' = grants \ {g}
  /\ UNCHANGED <<capacity, position, calls, cursor, intact>>

\* FSShutdown closes what the guest has left open, files under g_lock and then
\* directories without it: the guest makes no other call meanwhile, and uses none
\* of its handles afterwards.  A cleared vector keeps its memory.
FSShutdown ==
  /\ \A t \in FileThread : calls[t] = NoCall
  /\ streams' = streams \ UNION {{table[k][i] : i \in DOMAIN table[k]} : k \in Kind}
  /\ table' = [k \in Kind |-> <<>>]
  /\ grants' = {}
  /\ UNCHANGED <<capacity, position, calls, cursor, intact>>
-------------------------------------------------------------------------------
\* Mutation of Script: FSGetStatFile leaves the file at its end.
ScriptStayingAtEnd ==
  [FSReadFile |-> <<"find", "move">>, FSReadFileWithPos |-> <<"find", "seek", "find", "move">>,
   FSGetPosFile |-> <<"find", "tell">>, FSSetPosFile |-> <<"find", "seek">>,
   FSGetStatFile |-> <<"find", "tell", "end", "size">>,
   FSWriteFile |-> <<"find", "move">>, FSWriteFileWithPosAsync |-> <<"find", "seek", "find", "move">>,
   FSReadDir |-> <<"find", "move">>]

\* What each call does: find its slot, and then, through it, read or write and so
\* move on in the stream, seek, or tell.
Script ==
  [FSReadFile |-> <<"find", "move">>, FSReadFileWithPos |-> <<"find", "seek", "find", "move">>,
   FSGetPosFile |-> <<"find", "tell">>, FSSetPosFile |-> <<"find", "seek">>,
   FSGetStatFile |-> <<"find", "tell", "end", "size", "back">>,
   FSWriteFile |-> <<"find", "move">>, FSWriteFileWithPosAsync |-> <<"find", "seek", "find", "move">>,
   FSReadDir |-> <<"find", "move">>]

Moved(p) == Min({p + 1, FileSize})

\* Where a call that is alone with its stream is to leave it.
Meant(op, from, to) ==
  CASE op \in {"FSReadFile", "FSWriteFile", "FSReadDir"} -> Moved(from)
    [] op \in {"FSReadFileWithPos", "FSWriteFileWithPosAsync"} -> Moved(to)
    [] op = "FSSetPosFile" -> to
    [] OTHER -> from

\* The guest calls op on a handle it holds; of two calls at once on one handle no
\* position is expected.
Begin(t, op, g, to) ==
  /\ calls[t] = NoCall
  /\ g.kind = IF op = "FSReadDir" THEN "dir" ELSE "file"
  /\ to # 0 => "seek" \in Range(Script[op])
  /\ calls' = [calls EXCEPT ![t] =
       [todo |-> Script[op], grant |-> g, to |-> to, here |-> 0, stale |-> FALSE]]
  /\ cursor' = [cursor EXCEPT ![g.stream] =
       IF InCall(g) # {} \/ @ = Unknown THEN Unknown ELSE Meant(op, @, to)]
  /\ UNCHANGED <<table, capacity, streams, position, grants, intact>>

Advanced(t, c) == [calls EXCEPT ![t] = IF Len(c.todo) = 1 THEN NoCall ELSE [c EXCEPT !.todo = Tail(@)]]

\* fileFor and dirFor: the address of the slot.
Find(t) ==
  /\ calls[t] # NoCall /\ Head(calls[t].todo) = "find"
  /\ calls' = Advanced(t, [calls[t] EXCEPT !.stale = FALSE])
  /\ UNCHANGED <<table, capacity, streams, position, grants, cursor, intact>>

\* An operation of the C library on the stream in the slot that was found.
Use(t) ==
  LET c == calls[t]
      act == Head(c.todo)
      s == table[c.grant.kind][c.grant.handle] IN
  /\ c # NoCall /\ act # "find" /\ ~c.stale
  /\ position' = [position EXCEPT ![s] =
       CASE act = "move" -> Moved(@) [] act = "seek" -> c.to [] act = "end" -> FileSize
         [] act = "back" -> c.here [] act \in {"tell", "size"} -> @]
  /\ calls' = Advanced(t, IF act = "tell" THEN [c EXCEPT !.here = position[s]] ELSE c)
  /\ UNCHANGED <<table, capacity, streams, grants, cursor, intact>>

\* The slot that was found is freed memory, and what is read from it is no FILE:
\* anything may happen, and a behaviour is followed no further.
UseFreed(t) ==
  /\ calls[t] # NoCall /\ Head(calls[t].todo) # "find" /\ calls[t].stale
  /\ intact' = FALSE
  /\ UNCHANGED <<table, capacity, streams, position, grants, calls, cursor>>

FileNext ==
  /\ intact
  /\ \/ \E k \in Kind : Open(k)
     \/ \E g \in grants : Close(g)
     \/ FSShutdown
     \/ \E t \in FileThread :
          \/ \E op \in DOMAIN Script, g \in grants, to \in 0..FileSize : Begin(t, op, g, to)
          \/ Find(t) \/ Use(t) \/ UseFreed(t)
-------------------------------------------------------------------------------
\* A handle names the stream it was given for until it is closed, whatever else
\* is opened and closed, and no open stream is without a handle.
GrantsGood ==
  /\ \A g \in grants : g.handle \in DOMAIN table[g.kind] /\ table[g.kind][g.handle] = g.stream
  /\ streams = {g.stream : g \in grants}

\* A file goes on where the last call left it: a read or write at a position takes
\* place there, size and position are asked for without effect, and no call on
\* another handle moves it, unless two calls share the handle.
CursorsKept ==
  \A g \in grants : InCall(g) = {} /\ cursor[g.stream] # Unknown
                      => position[g.stream] = cursor[g.stream]
==============================================================================
