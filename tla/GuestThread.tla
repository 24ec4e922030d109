----------------------------- MODULE GuestThread -----------------------------
(***************************************************************************)
(* OSThread (source/thread.cpp): one HostThread, through the successive    *)
(* threads ("lives") that OSCreateThread makes of it.  Its fields are read *)
(* and written with no lock by the threads that control it and by the      *)
(* trampoline of the thread itself.                                        *)
(*                                                                         *)
(* The guest is assumed to keep three rules, which are Cafe OS's too: one  *)
(* thread at a time joins; an OSThread is created again once it has been   *)
(* joined or, detached, once its deallocator has been called; and no other *)
(* call on it is in progress then.  Left out are priority, affinity, name, *)
(* thread-specific slots and which callbacks are installed: nothing here   *)
(* depends on them.                                                        *)
(***************************************************************************)
EXTENDS Integers

CONSTANTS
  Controller,   \* guest threads that call thread.h on the OSThread
  MaxLives,     \* bound on the creations
  MaxSuspend    \* bound on suspendCount

ASSUME GuestThreadAssumption == MaxLives \in Nat \ {0} /\ MaxSuspend \in Nat \ {0}

Lives == 1..MaxLives

VARIABLES
  h,        \* the HostThread, but for its handle
  life,     \* the thread that its handle is of, 0 before the first
  kernel,   \* kernel[n]: "none", "created", "running" or "ended"
  closed,   \* the threads that threadClose has released
  place,    \* place[n]: where thread n is in its trampoline
  result,   \* result[n]: what thread n ended with, 0 when it was cancelled
  pc,       \* where each controller is in its call
  seen,     \* the suspendCount it has loaded, or stored
  answer    \* the latest join that answered 1: of which life, and what

threads == <<life, kernel, closed, place, result>>
vars == <<h, threads, pc, seen, answer>>

Init ==
  /\ h = [created |-> FALSE, started |-> FALSE, detached |-> FALSE, suspendCount |-> 0,
          exitResult |-> 0, cancelRequested |-> FALSE, cancelEnabled |-> TRUE]
  /\ life = 0 /\ closed = {}
  /\ kernel = [n \in Lives |-> "none"]
  /\ place = [n \in Lives |-> "entry"]
  /\ result = [n \in Lives |-> 0]
  /\ pc = [c \in Controller |-> "run"]
  /\ seen = [c \in Controller |-> 0]
  /\ answer = [of |-> 0, value |-> 0]

Goto(c, where) == pc' = [pc EXCEPT ![c] = where]

------------------------------------------------------------------------------
\* When the guest may create the OSThread (again).
MayCreate ==
  /\ \A c \in Controller : pc[c] = "run"
  /\ life < MaxLives
  /\ h.created => h.detached /\ place[life] = "leave"

\* threadCreate, which may fail, and what it answered in `created`.
ThreadCreate(fresh) ==
  /\ \/ /\ h' = [fresh EXCEPT !.created = TRUE]
        /\ life' = life + 1
        /\ kernel' = [kernel EXCEPT ![life + 1] = "created"]
     \/ h' = [fresh EXCEPT !.created = FALSE] /\ UNCHANGED <<life, kernel>>
  /\ UNCHANGED <<closed, place, result, pc, seen, answer>>

\* Mutation of Create: exitResult is not reset.
CreateStale(isDetached) ==
  /\ MayCreate
  /\ ThreadCreate([h EXCEPT !.started = FALSE, !.detached = isDetached, !.suspendCount = 1])

\* OSCreateThread: a suspended thread.  The two cancellation flags keep the
\* values that the previous life left.
Create(isDetached) ==
  /\ MayCreate
  /\ ThreadCreate([h EXCEPT !.started = FALSE, !.detached = isDetached, !.suspendCount = 1,
                            !.exitResult = 0])

\* OSResumeThread and OSSuspendThread load suspendCount ...
Load(c, next) ==
  /\ pc[c] = "run" /\ life > 0
  /\ next = "suspend" => h.suspendCount < MaxSuspend
  /\ seen' = [seen EXCEPT ![c] = h.suspendCount]
  /\ Goto(c, next)
  /\ UNCHANGED <<h, threads, answer>>

\* ... and store it; what others have stored in between is lost.
SuspendStore(c) ==
  /\ pc[c] = "suspend"
  /\ h' = [h EXCEPT !.suspendCount = seen[c] + 1]
  /\ Goto(c, "run")
  /\ UNCHANGED <<threads, seen, answer>>

\* Mutation of ResumeStore: the count is lowered whatever it is.
ResumeStoreBelow(c) ==
  /\ pc[c] = "resume"
  /\ h' = [h EXCEPT !.suspendCount = seen[c] - 1]
  /\ seen' = [seen EXCEPT ![c] = @ - 1]
  /\ Goto(c, "resumed")
  /\ UNCHANGED <<threads, answer>>

\* Mutation of ResumeStore: the value tested next is the one before the decrement.
ResumeStorePrevious(c) ==
  /\ pc[c] = "resume"
  /\ h' = [h EXCEPT !.suspendCount = IF seen[c] > 0 THEN seen[c] - 1 ELSE @]
  /\ Goto(c, "resumed")
  /\ UNCHANGED <<threads, seen, answer>>

ResumeStore(c) ==
  /\ pc[c] = "resume"
  /\ IF seen[c] > 0
     THEN /\ h' = [h EXCEPT !.suspendCount = seen[c] - 1]
          /\ seen' = [seen EXCEPT ![c] = @ - 1]
     ELSE UNCHANGED <<h, seen>>
  /\ Goto(c, "resumed")
  /\ UNCHANGED <<threads, answer>>

\* suspendCount == 0 && created && !started.  The compiler may keep the value
\* just stored, or load it again.
ResumeTest(c) ==
  /\ pc[c] = "resumed"
  /\ \E count \in {seen[c], h.suspendCount} :
       Goto(c, IF count = 0 /\ h.created /\ ~h.started THEN "start" ELSE "run")
  /\ UNCHANGED <<h, threads, seen, answer>>

\* threadStart succeeds on a thread that was created and never started.
ResumeStart(c) ==
  /\ pc[c] = "start"
  /\ IF kernel[life] = "created"
     THEN kernel' = [kernel EXCEPT ![life] = "running"] /\ Goto(c, "flag")
     ELSE Goto(c, "run") /\ UNCHANGED kernel
  /\ UNCHANGED <<h, life, closed, place, result, seen, answer>>

\* A store of one field, and on to `where`.
Store(c, from, stored, where) ==
  /\ pc[c] = from
  /\ h' = stored
  /\ Goto(c, where)
  /\ UNCHANGED <<threads, seen, answer>>

\* started = true, when the thread may long be running.
ResumeFlag(c) == Store(c, "flag", [h EXCEPT !.started = TRUE], "run")

\* OSJoinThread, up to threadWaitForExit; otherwise it answers 0 at once.
Join(c) ==
  /\ pc[c] = "run"
  /\ \A d \in Controller : pc[d] \notin {"join", "unstart", "uncreate"}
  /\ h.created /\ h.started /\ ~h.detached
  /\ Goto(c, "join")
  /\ UNCHANGED <<h, threads, seen, answer>>

\* Mutation of JoinCollect: threadWaitForExit is left out.
JoinUnwaited(c) ==
  /\ pc[c] = "join"
  /\ answer' = [of |-> life, value |-> h.exitResult]
  /\ closed' = closed \cup {life}
  /\ Goto(c, "unstart")
  /\ UNCHANGED <<h, life, kernel, place, result, seen>>

\* threadWaitForExit, the result read, threadClose ...
JoinCollect(c) ==
  /\ pc[c] = "join" /\ kernel[life] = "ended"
  /\ answer' = [of |-> life, value |-> h.exitResult]
  /\ closed' = closed \cup {life}
  /\ Goto(c, "unstart")
  /\ UNCHANGED <<h, life, kernel, place, result, seen>>

\* ... started = false, and created = false.
JoinUnstart(c) == Store(c, "unstart", [h EXCEPT !.started = FALSE], "uncreate")
JoinUncreate(c) == Store(c, "uncreate", [h EXCEPT !.created = FALSE], "run")

\* OSCancelThread and OSDetachThread.
Cancel(c) == life > 0 /\ Store(c, "run", [h EXCEPT !.cancelRequested = TRUE], "run")
Detach(c) == life > 0 /\ Store(c, "run", [h EXCEPT !.detached = TRUE], "run")

------------------------------------------------------------------------------
In(n, where) == kernel[n] = "running" /\ place[n] = where

\* Thread n ends, from inside its entry function.
End(n) ==
  /\ kernel' = [kernel EXCEPT ![n] = "ended"]
  /\ place' = [place EXCEPT ![n] = "leave"]

\* Its entry function returns n, and the trampoline stores that.
Return(n) ==
  /\ In(n, "entry")
  /\ h' = [h EXCEPT !.exitResult = n]
  /\ result' = [result EXCEPT ![n] = n]
  /\ place' = [place EXCEPT ![n] = "cleanup"]
  /\ UNCHANGED <<life, kernel, closed, pc, seen, answer>>

\* OSExitThread(n): no callback is called.
Exit(n) ==
  /\ In(n, "entry")
  /\ h' = [h EXCEPT !.exitResult = n]
  /\ result' = [result EXCEPT ![n] = n]
  /\ End(n)
  /\ UNCHANGED <<life, closed, pc, seen, answer>>

\* OSTestThreadCancel with a request pending; else it returns.
TestCancel(n) ==
  /\ In(n, "entry") /\ h.cancelRequested /\ h.cancelEnabled
  /\ End(n)
  /\ UNCHANGED <<h, life, closed, result, pc, seen, answer>>

SetCancelState(n, state) ==
  /\ In(n, "entry")
  /\ h' = [h EXCEPT !.cancelEnabled = state]
  /\ UNCHANGED <<threads, pc, seen, answer>>

\* The trampoline reads one callback from the HostThread after the other, calls
\* them with its guest and guestStack, and the thread ends.
Callback(n) ==
  /\ \/ In(n, "cleanup") /\ place' = [place EXCEPT ![n] = "deallocator"]
     \/ In(n, "deallocator") /\ place' = [place EXCEPT ![n] = "leave"]
  /\ UNCHANGED <<h, life, kernel, closed, result, pc, seen, answer>>

Leave(n) ==
  /\ In(n, "leave")
  /\ kernel' = [kernel EXCEPT ![n] = "ended"]
  /\ UNCHANGED <<h, life, closed, place, result, pc, seen, answer>>

------------------------------------------------------------------------------
Resuming(c) == ResumeStore(c) \/ ResumeTest(c) \/ ResumeStart(c) \/ ResumeFlag(c)
Joining(c) == JoinCollect(c) \/ JoinUnstart(c) \/ JoinUncreate(c)

Guest(c) == \/ Load(c, "resume") \/ Load(c, "suspend") \/ SuspendStore(c)
            \/ Join(c) \/ Cancel(c) \/ Detach(c)

Trampoline(n) == \/ Return(n) \/ Exit(n) \/ TestCancel(n)
                 \/ \E state \in BOOLEAN : SetCancelState(n, state)
                 \/ Callback(n) \/ Leave(n)

Next == \/ \E isDetached \in BOOLEAN : Create(isDetached)
        \/ \E c \in Controller : Guest(c) \/ Resuming(c) \/ Joining(c)
        \/ \E n \in Lives : Trampoline(n)

\* A thread that is inside a call is scheduled.
Fairness == \A c \in Controller : WF_vars(Resuming(c)) /\ WF_vars(Joining(c))

Spec == Init /\ [][Next]_vars /\ Fairness
------------------------------------------------------------------------------
HostType == [created : BOOLEAN, started : BOOLEAN, detached : BOOLEAN,
             suspendCount : 0..MaxSuspend, exitResult : {0} \cup Lives,
             cancelRequested : BOOLEAN, cancelEnabled : BOOLEAN]

\* suspendCount never drops below zero, whatever stores are lost.
TypeOK ==
  /\ h \in HostType
  /\ life \in {0} \cup Lives /\ closed \subseteq Lives
  /\ kernel \in [Lives -> {"none", "created", "running", "ended"}]
  /\ place \in [Lives -> {"entry", "cleanup", "deallocator", "leave"}]
  /\ result \in [Lives -> {0} \cup Lives]
  /\ pc \in [Controller -> {"run", "resume", "resumed", "start", "flag", "suspend",
                            "join", "unstart", "uncreate"}]
  /\ seen \in [Controller -> 0..MaxSuspend]
  /\ answer \in [of : {0} \cup Lives, value : {0} \cup Lives]

\* OSJoinThread answers what the very thread it joined ended with: a returned or
\* exit value, 0 for a cancelled one, and never a previous life's.
JoinAnswersOwn == answer.of # 0 => answer.value = result[answer.of]

\* The HostThread has one user: a thread that has yet to store its result or to
\* read its callbacks is the life that the fields are of, its handle is not
\* closed, and no join has taken its result.
SoleUser ==
  \A n \in Lives : kernel[n] = "running" /\ place[n] # "leave" =>
    n = life /\ n \notin closed /\ answer.of # n

\* A created thread with nothing holding it suspended is started, although
\* resumes and suspensions race on the count and the flags with no lock.
ResumedStarts ==
  h.created /\ ~h.started /\ h.suspendCount = 0
    ~> h.started \/ ~h.created \/ h.suspendCount > 0
==============================================================================
