--------------------------- MODULE GuestThreadProofs ---------------------------
(***************************************************************************)
(* Proofs about GuestThread, for any number of controllers, of lives and   *)
(* of nested suspensions: the types, what a join answers, and who uses the *)
(* HostThread; and about ThreadAttributes, for any number of threads: the  *)
(* order of their priorities.                                              *)
(*                                                                         *)
(* The fields are raced on with no lock.  What carries the proofs is that  *)
(* a life has left its trampoline before the HostThread is created again   *)
(* or given up, and that a join collects the result of a life whose kernel *)
(* thread has ended while the fields are still that life's.                *)
(***************************************************************************)
EXTENDS GuestThread, TLAPS

InJoin(c) == pc[c] \in {"join", "unstart", "uncreate"}

\* The lives before the present one have left their trampolines, those after it
\* do not exist, and the kernel's view of each agrees with its place.
LivesInOrder ==
  \A n \in Lives :
    /\ n < life => place[n] = "leave"
    /\ n > life => kernel[n] = "none"
    /\ kernel[n] = "ended" => place[n] = "leave"
    /\ kernel[n] \in {"none", "created"} => place[n] = "entry" /\ result[n] = 0
    /\ n \in closed => kernel[n] = "ended"

\* The fields are of the present life until they are given up, when it has left.
FieldsOfLife ==
  /\ h.created => life > 0 /\ h.exitResult = result[life]
  /\ ~h.created /\ life > 0 => place[life] = "leave"

\* A join has collected the result of a life that has ended, for good.
CollectedEnded ==
  answer.of # 0 => kernel[answer.of] = "ended" /\ answer.value = result[answer.of]

\* A call is about a life; one controller at a time joins, and the life it is about
\* to give up has ended.
CallsInOrder ==
  /\ \A c \in Controller :
       /\ pc[c] # "run" => life > 0
       /\ pc[c] = "suspend" => seen[c] < MaxSuspend
       /\ InJoin(c) => h.created
       /\ pc[c] \in {"unstart", "uncreate"} => kernel[life] = "ended"
  /\ \A c, d \in Controller : InJoin(c) /\ InJoin(d) => c = d

IInv == TypeOK /\ LivesInOrder /\ FieldsOfLife /\ CollectedEnded /\ CallsInOrder
------------------------------------------------------------------------------
\* A new life begins where the last has left its trampoline, with nobody in a call.
LEMMA CreateKeeps ==
  ASSUME IInv, NEW isDetached \in BOOLEAN, Create(isDetached)
  PROVE  IInv'
<1> USE GuestThreadAssumption DEF IInv, TypeOK, threads, MayCreate, ThreadCreate, Create
<1>1. TypeOK'
  <2>1. life + 1 \in Lives /\ 1 \in 0..MaxSuspend
    BY DEF Lives
  <2>2. h \in HostType
    OBVIOUS
  <2>3. \E made \in BOOLEAN :
          h' = [h EXCEPT !.started = FALSE, !.detached = isDetached, !.suspendCount = 1,
                         !.exitResult = 0, !.created = made]
    OBVIOUS
  <2>4. h' \in HostType
    BY ONLY <2>1, <2>2, <2>3, isDetached \in BOOLEAN DEF HostType
  <2> QED BY <2>1, <2>4 DEF Lives
<1>2. LivesInOrder'
  BY SMTT(60) DEF HostType, Lives, LivesInOrder, FieldsOfLife, CallsInOrder, InJoin
<1>3. FieldsOfLife'
  <2>1. /\ life \in Nat /\ life' \in {life, life + 1} /\ place' = place /\ result' = result
    BY DEF Lives
  <2>2. h'.exitResult = 0 /\ (life' = life + 1 <=> h'.created)
    <3>1. CASE life' = life + 1
      <4>1. h' = [h EXCEPT !.started = FALSE, !.detached = isDetached, !.suspendCount = 1,
                           !.exitResult = 0, !.created = TRUE]
        BY <2>1, <3>1
      <4> QED BY <3>1, <4>1 DEF HostType
    <3>2. CASE life' = life
      <4>1. h' = [h EXCEPT !.started = FALSE, !.detached = isDetached, !.suspendCount = 1,
                           !.exitResult = 0, !.created = FALSE]
        BY <2>1, <3>2
      <4> QED BY <2>1, <3>2, <4>1 DEF HostType
    <3> QED BY <2>1, <3>1, <3>2
  <2>3. life' = life + 1 => result[life + 1] = 0
    <3>1. life + 1 \in Lives /\ life + 1 > life
      BY <2>1 DEF Lives
    <3> QED BY <3>1 DEF LivesInOrder
  <2>4. life > 0 => place[life] = "leave"
    BY <2>1 DEF FieldsOfLife
  <2> QED BY <2>1, <2>2, <2>3, <2>4 DEF FieldsOfLife
<1>4. CollectedEnded'
  BY DEF HostType, Lives, LivesInOrder, FieldsOfLife, CollectedEnded, CallsInOrder, InJoin
<1>5. CallsInOrder'
  BY DEF HostType, Lives, LivesInOrder, FieldsOfLife, CallsInOrder, InJoin
<1> QED BY <1>1, <1>2, <1>3, <1>4, <1>5

\* A load of suspendCount changes nothing but what its caller has seen.
LEMMA LoadKeeps ==
  ASSUME IInv, NEW c \in Controller, NEW next \in {"resume", "suspend"}, Load(c, next)
  PROVE  IInv'
<1> USE GuestThreadAssumption DEF IInv, TypeOK, threads, Load, Goto
<1>1. TypeOK'
  BY DEF HostType, Lives, CallsInOrder
<1>2. LivesInOrder'
  BY DEF HostType, Lives, LivesInOrder, FieldsOfLife, CallsInOrder, InJoin
<1>3. FieldsOfLife'
  BY DEF HostType, Lives, LivesInOrder, FieldsOfLife, CallsInOrder, InJoin
<1>4. CollectedEnded'
  BY DEF HostType, Lives, LivesInOrder, FieldsOfLife, CollectedEnded, CallsInOrder, InJoin
<1>5. CallsInOrder'
  BY DEF HostType, Lives, LivesInOrder, FieldsOfLife, CallsInOrder, InJoin
<1> QED BY <1>1, <1>2, <1>3, <1>4, <1>5

\* The stored count is one more than a count that was below the bound.
LEMMA SuspendStoreKeeps ==
  ASSUME IInv, NEW c \in Controller, SuspendStore(c)
  PROVE  IInv'
<1> USE GuestThreadAssumption DEF IInv, TypeOK, threads, SuspendStore, Goto
<1>1. TypeOK'
  <2>1. seen[c] + 1 \in 0..MaxSuspend
    BY DEF CallsInOrder
  <2>2. h' \in HostType
    BY <2>1 DEF HostType
  <2> QED BY <2>2
<1>2. LivesInOrder'
  BY DEF HostType, Lives, LivesInOrder, FieldsOfLife, CallsInOrder, InJoin
<1>3. FieldsOfLife'
  BY DEF HostType, Lives, LivesInOrder, FieldsOfLife, CallsInOrder, InJoin
<1>4. CollectedEnded'
  BY DEF HostType, Lives, LivesInOrder, FieldsOfLife, CollectedEnded, CallsInOrder, InJoin
<1>5. CallsInOrder'
  BY DEF HostType, Lives, LivesInOrder, FieldsOfLife, CallsInOrder, InJoin
<1> QED BY <1>1, <1>2, <1>3, <1>4, <1>5

\* The stored count is one less than a count above zero, whatever was stored since.
LEMMA ResumeStoreKeeps ==
  ASSUME IInv, NEW c \in Controller, ResumeStore(c)
  PROVE  IInv'
<1> USE GuestThreadAssumption DEF IInv, TypeOK, threads, ResumeStore, Goto
<1>1. TypeOK'
  <2>1. seen[c] > 0 => seen[c] - 1 \in 0..MaxSuspend
    OBVIOUS
  <2>2. h' \in HostType
    BY <2>1 DEF HostType
  <2> QED BY <2>1, <2>2
<1>2. LivesInOrder'
  BY DEF HostType, Lives, LivesInOrder, FieldsOfLife, CallsInOrder, InJoin
<1>3. FieldsOfLife'
  <2>1. h'.created = h.created /\ h'.exitResult = h.exitResult
    BY DEF HostType
  <2> QED BY <2>1 DEF FieldsOfLife
<1>4. CollectedEnded'
  BY DEF HostType, Lives, LivesInOrder, FieldsOfLife, CollectedEnded, CallsInOrder, InJoin
<1>5. CallsInOrder'
  <2>1. /\ h'.created = h.created /\ UNCHANGED <<life, kernel>>
        /\ pc' = [pc EXCEPT ![c] = "resumed"]
        /\ \A d \in Controller : d # c => seen'[d] = seen[d]
    BY DEF HostType
  <2>2. pc[c] # "run"
    OBVIOUS
  <2>3. pc \in [Controller -> {"run", "resume", "resumed", "start", "flag", "suspend",
                               "join", "unstart", "uncreate"}]
    OBVIOUS
  <2>4. CallsInOrder
    OBVIOUS
  <2> QED BY ONLY <2>1, <2>2, <2>3, <2>4 DEF CallsInOrder, InJoin
<1> QED BY <1>1, <1>2, <1>3, <1>4, <1>5

\* The test only decides where its caller goes on.
LEMMA ResumeTestKeeps ==
  ASSUME IInv, NEW c \in Controller, ResumeTest(c)
  PROVE  IInv'
<1> USE GuestThreadAssumption DEF IInv, TypeOK, threads, ResumeTest, Goto
<1>1. TypeOK'
  BY DEF HostType, Lives, CallsInOrder
<1>2. LivesInOrder'
  BY DEF HostType, Lives, LivesInOrder, FieldsOfLife, CallsInOrder, InJoin
<1>3. FieldsOfLife'
  BY DEF HostType, Lives, LivesInOrder, FieldsOfLife, CallsInOrder, InJoin
<1>4. CollectedEnded'
  BY DEF HostType, Lives, LivesInOrder, FieldsOfLife, CollectedEnded, CallsInOrder, InJoin
<1>5. CallsInOrder'
  BY DEF HostType, Lives, LivesInOrder, FieldsOfLife, CallsInOrder, InJoin
<1> QED BY <1>1, <1>2, <1>3, <1>4, <1>5

\* Only the present life is started, and only once.
LEMMA ResumeStartKeeps ==
  ASSUME IInv, NEW c \in Controller, ResumeStart(c)
  PROVE  IInv'
<1> USE GuestThreadAssumption DEF IInv, TypeOK, threads, ResumeStart, Goto
<1>1. TypeOK'
  <2>1. life \in Lives
    BY DEF CallsInOrder
  <2>2. kernel' \in [Lives -> {"none", "created", "running", "ended"}]
    BY <2>1
  <2>3. /\ pc' = [pc EXCEPT ![c] = "flag"] \/ pc' = [pc EXCEPT ![c] = "run"]
        /\ UNCHANGED <<h, life, closed, place, result, seen, answer>>
    OBVIOUS
  <2> QED BY <2>2, <2>3
<1>2. LivesInOrder'
  BY DEF HostType, Lives, LivesInOrder, FieldsOfLife, CallsInOrder, InJoin
<1>3. FieldsOfLife'
  BY DEF HostType, Lives, LivesInOrder, FieldsOfLife, CallsInOrder, InJoin
<1>4. CollectedEnded'
  BY DEF HostType, Lives, LivesInOrder, FieldsOfLife, CollectedEnded, CallsInOrder, InJoin
<1>5. CallsInOrder'
  BY SMTT(60) DEF HostType, Lives, LivesInOrder, FieldsOfLife, CallsInOrder, InJoin
<1> QED BY <1>1, <1>2, <1>3, <1>4, <1>5

\* A join begins where no other is in progress.
LEMMA JoinKeeps ==
  ASSUME IInv, NEW c \in Controller, Join(c)
  PROVE  IInv'
<1> USE GuestThreadAssumption DEF IInv, TypeOK, threads, Join, Goto
<1>1. TypeOK'
  BY DEF HostType, Lives, CallsInOrder
<1>2. LivesInOrder'
  BY DEF HostType, Lives, LivesInOrder, FieldsOfLife, CallsInOrder, InJoin
<1>3. FieldsOfLife'
  BY DEF HostType, Lives, LivesInOrder, FieldsOfLife, CallsInOrder, InJoin
<1>4. CollectedEnded'
  BY DEF HostType, Lives, LivesInOrder, FieldsOfLife, CollectedEnded, CallsInOrder, InJoin
<1>5. CallsInOrder'
  BY DEF HostType, Lives, LivesInOrder, FieldsOfLife, CallsInOrder, InJoin
<1> QED BY <1>1, <1>2, <1>3, <1>4, <1>5

\* threadWaitForExit has returned, so the result read is the present life's last.
LEMMA JoinCollectKeeps ==
  ASSUME IInv, NEW c \in Controller, JoinCollect(c)
  PROVE  IInv'
<1> USE GuestThreadAssumption DEF IInv, TypeOK, threads, JoinCollect, Goto
<1>1. TypeOK'
  BY DEF HostType, Lives, CallsInOrder
<1>2. LivesInOrder'
  BY DEF HostType, Lives, LivesInOrder, FieldsOfLife, CallsInOrder, InJoin
<1>3. FieldsOfLife'
  BY DEF HostType, Lives, LivesInOrder, FieldsOfLife, CallsInOrder, InJoin
<1>4. CollectedEnded'
  BY DEF HostType, Lives, LivesInOrder, FieldsOfLife, CollectedEnded, CallsInOrder, InJoin
<1>5. CallsInOrder'
  BY DEF HostType, Lives, LivesInOrder, FieldsOfLife, CallsInOrder, InJoin
<1> QED BY <1>1, <1>2, <1>3, <1>4, <1>5

\* The life that returns is the present one: it stores its own result.
LEMMA ReturnKeeps ==
  ASSUME IInv, NEW n \in Lives, Return(n)
  PROVE  IInv'
<1> USE GuestThreadAssumption DEF IInv, TypeOK, threads, Return, In
<1>1. TypeOK'
  BY DEF HostType, Lives, CallsInOrder
<1>2. LivesInOrder'
  BY DEF HostType, Lives, LivesInOrder, FieldsOfLife, CallsInOrder, InJoin
<1>3. FieldsOfLife'
  <2>0. ~(n < life) /\ ~(n > life)
    BY DEF LivesInOrder
  <2>1. n = life /\ life > 0
    BY <2>0 DEF Lives
  <2>2. h'.created = h.created /\ h'.exitResult = n /\ result'[n] = n /\ h.created
    BY <2>1 DEF HostType, Lives, FieldsOfLife
  <2> QED BY <2>1, <2>2 DEF FieldsOfLife
<1>4. CollectedEnded'
  BY DEF HostType, Lives, LivesInOrder, FieldsOfLife, CollectedEnded, CallsInOrder, InJoin
<1>5. CallsInOrder'
  BY DEF HostType, Lives, LivesInOrder, FieldsOfLife, CallsInOrder, InJoin
<1> QED BY <1>1, <1>2, <1>3, <1>4, <1>5

\* So is the life that calls OSExitThread.
LEMMA ExitKeeps ==
  ASSUME IInv, NEW n \in Lives, Exit(n)
  PROVE  IInv'
<1> USE GuestThreadAssumption DEF IInv, TypeOK, threads, Exit, End, In
<1>1. TypeOK'
  BY DEF HostType, Lives, CallsInOrder
<1>2. LivesInOrder'
  BY DEF HostType, Lives, LivesInOrder, FieldsOfLife, CallsInOrder, InJoin
<1>3. FieldsOfLife'
  <2>0. ~(n < life) /\ ~(n > life)
    BY DEF LivesInOrder
  <2>1. n = life /\ life > 0
    BY <2>0 DEF Lives
  <2>2. h'.created = h.created /\ h'.exitResult = n /\ result'[n] = n /\ h.created
    BY <2>1 DEF HostType, Lives, FieldsOfLife
  <2> QED BY <2>1, <2>2 DEF FieldsOfLife
<1>4. CollectedEnded'
  BY DEF HostType, Lives, LivesInOrder, FieldsOfLife, CollectedEnded, CallsInOrder, InJoin
<1>5. CallsInOrder'
  BY DEF HostType, Lives, LivesInOrder, FieldsOfLife, CallsInOrder, InJoin
<1> QED BY <1>1, <1>2, <1>3, <1>4, <1>5

\* A cancelled life ends with the 0 of its creation.
LEMMA TestCancelKeeps ==
  ASSUME IInv, NEW n \in Lives, TestCancel(n)
  PROVE  IInv'
<1> USE GuestThreadAssumption DEF IInv, TypeOK, threads, TestCancel, End, In
<1>1. TypeOK'
  BY DEF HostType, Lives, CallsInOrder
<1>2. LivesInOrder'
  BY DEF HostType, Lives, LivesInOrder, FieldsOfLife, CallsInOrder, InJoin
<1>3. FieldsOfLife'
  BY DEF HostType, Lives, LivesInOrder, FieldsOfLife, CallsInOrder, InJoin
<1>4. CollectedEnded'
  BY DEF HostType, Lives, LivesInOrder, FieldsOfLife, CollectedEnded, CallsInOrder, InJoin
<1>5. CallsInOrder'
  BY DEF HostType, Lives, LivesInOrder, FieldsOfLife, CallsInOrder, InJoin
<1> QED BY <1>1, <1>2, <1>3, <1>4, <1>5

\* A flag of the fields changes.
LEMMA SetCancelStateKeeps ==
  ASSUME IInv, NEW n \in Lives, NEW state \in BOOLEAN, SetCancelState(n, state)
  PROVE  IInv'
<1> USE GuestThreadAssumption DEF IInv, TypeOK, threads, SetCancelState, In
<1>1. TypeOK'
  BY DEF HostType, Lives, CallsInOrder
<1>2. LivesInOrder'
  BY DEF HostType, Lives, LivesInOrder, FieldsOfLife, CallsInOrder, InJoin
<1>3. FieldsOfLife'
  BY DEF HostType, Lives, LivesInOrder, FieldsOfLife, CallsInOrder, InJoin
<1>4. CollectedEnded'
  BY DEF HostType, Lives, LivesInOrder, FieldsOfLife, CollectedEnded, CallsInOrder, InJoin
<1>5. CallsInOrder'
  BY DEF HostType, Lives, LivesInOrder, FieldsOfLife, CallsInOrder, InJoin
<1> QED BY <1>1, <1>2, <1>3, <1>4, <1>5

\* The trampoline goes on towards its end.
LEMMA CallbackKeeps ==
  ASSUME IInv, NEW n \in Lives, Callback(n)
  PROVE  IInv'
<1> USE GuestThreadAssumption DEF IInv, TypeOK, threads, Callback, In
<1>1. TypeOK'
  BY DEF HostType, Lives, CallsInOrder
<1>2. LivesInOrder'
  BY DEF HostType, Lives, LivesInOrder, FieldsOfLife, CallsInOrder, InJoin
<1>3. FieldsOfLife'
  BY DEF HostType, Lives, LivesInOrder, FieldsOfLife, CallsInOrder, InJoin
<1>4. CollectedEnded'
  BY DEF HostType, Lives, LivesInOrder, FieldsOfLife, CollectedEnded, CallsInOrder, InJoin
<1>5. CallsInOrder'
  BY DEF HostType, Lives, LivesInOrder, FieldsOfLife, CallsInOrder, InJoin
<1> QED BY <1>1, <1>2, <1>3, <1>4, <1>5

\* The kernel's thread ends.
LEMMA LeaveKeeps ==
  ASSUME IInv, NEW n \in Lives, Leave(n)
  PROVE  IInv'
<1> USE GuestThreadAssumption DEF IInv, TypeOK, threads, Leave, In
<1>1. TypeOK'
  BY DEF HostType, Lives, CallsInOrder
<1>2. LivesInOrder'
  BY DEF HostType, Lives, LivesInOrder, FieldsOfLife, CallsInOrder, InJoin
<1>3. FieldsOfLife'
  BY DEF HostType, Lives, LivesInOrder, FieldsOfLife, CallsInOrder, InJoin
<1>4. CollectedEnded'
  BY DEF HostType, Lives, LivesInOrder, FieldsOfLife, CollectedEnded, CallsInOrder, InJoin
<1>5. CallsInOrder'
  BY DEF HostType, Lives, LivesInOrder, FieldsOfLife, CallsInOrder, InJoin
<1> QED BY <1>1, <1>2, <1>3, <1>4, <1>5

\* Whether a life is started says nothing of whose the fields are.
LEMMA ResumeFlagKeeps ==
  ASSUME IInv, NEW c \in Controller, ResumeFlag(c)
  PROVE  IInv'
<1> USE GuestThreadAssumption DEF IInv, TypeOK, threads, ResumeFlag, Store, Goto
<1>1. TypeOK'
  BY DEF HostType, Lives, CallsInOrder
<1>2. LivesInOrder'
  BY DEF HostType, Lives, LivesInOrder, FieldsOfLife, CallsInOrder, InJoin
<1>3. FieldsOfLife'
  BY DEF HostType, Lives, LivesInOrder, FieldsOfLife, CallsInOrder, InJoin
<1>4. CollectedEnded'
  BY DEF HostType, Lives, LivesInOrder, FieldsOfLife, CollectedEnded, CallsInOrder, InJoin
<1>5. CallsInOrder'
  BY DEF HostType, Lives, LivesInOrder, FieldsOfLife, CallsInOrder, InJoin
<1> QED BY <1>1, <1>2, <1>3, <1>4, <1>5

\* Nor does it when a join clears the flag.
LEMMA JoinUnstartKeeps ==
  ASSUME IInv, NEW c \in Controller, JoinUnstart(c)
  PROVE  IInv'
<1> USE GuestThreadAssumption DEF IInv, TypeOK, threads, JoinUnstart, Store, Goto
<1>1. TypeOK'
  BY DEF HostType, Lives, CallsInOrder
<1>2. LivesInOrder'
  BY DEF HostType, Lives, LivesInOrder, FieldsOfLife, CallsInOrder, InJoin
<1>3. FieldsOfLife'
  BY DEF HostType, Lives, LivesInOrder, FieldsOfLife, CallsInOrder, InJoin
<1>4. CollectedEnded'
  BY DEF HostType, Lives, LivesInOrder, FieldsOfLife, CollectedEnded, CallsInOrder, InJoin
<1>5. CallsInOrder'
  BY DEF HostType, Lives, LivesInOrder, FieldsOfLife, CallsInOrder, InJoin
<1> QED BY <1>1, <1>2, <1>3, <1>4, <1>5

\* A join gives the fields up when their life has ended.
LEMMA JoinUncreateKeeps ==
  ASSUME IInv, NEW c \in Controller, JoinUncreate(c)
  PROVE  IInv'
<1> USE GuestThreadAssumption DEF IInv, TypeOK, threads, JoinUncreate, Store, Goto
<1>1. TypeOK'
  BY DEF HostType, Lives, CallsInOrder
<1>2. LivesInOrder'
  BY DEF HostType, Lives, LivesInOrder, FieldsOfLife, CallsInOrder, InJoin
<1>3. FieldsOfLife'
  BY DEF HostType, Lives, LivesInOrder, FieldsOfLife, CallsInOrder, InJoin
<1>4. CollectedEnded'
  BY DEF HostType, Lives, LivesInOrder, FieldsOfLife, CollectedEnded, CallsInOrder, InJoin
<1>5. CallsInOrder'
  BY DEF HostType, Lives, LivesInOrder, FieldsOfLife, CallsInOrder, InJoin
<1> QED BY <1>1, <1>2, <1>3, <1>4, <1>5

\* A request to cancel is a flag.
LEMMA CancelKeeps ==
  ASSUME IInv, NEW c \in Controller, Cancel(c)
  PROVE  IInv'
<1> USE GuestThreadAssumption DEF IInv, TypeOK, threads, Cancel, Store, Goto
<1>1. TypeOK'
  BY DEF HostType, Lives, CallsInOrder
<1>2. LivesInOrder'
  BY DEF HostType, Lives, LivesInOrder, FieldsOfLife, CallsInOrder, InJoin
<1>3. FieldsOfLife'
  BY DEF HostType, Lives, LivesInOrder, FieldsOfLife, CallsInOrder, InJoin
<1>4. CollectedEnded'
  BY DEF HostType, Lives, LivesInOrder, FieldsOfLife, CollectedEnded, CallsInOrder, InJoin
<1>5. CallsInOrder'
  BY DEF HostType, Lives, LivesInOrder, FieldsOfLife, CallsInOrder, InJoin
<1> QED BY <1>1, <1>2, <1>3, <1>4, <1>5

\* And so is being detached.
LEMMA DetachKeeps ==
  ASSUME IInv, NEW c \in Controller, Detach(c)
  PROVE  IInv'
<1> USE GuestThreadAssumption DEF IInv, TypeOK, threads, Detach, Store, Goto
<1>1. TypeOK'
  BY DEF HostType, Lives, CallsInOrder
<1>2. LivesInOrder'
  BY DEF HostType, Lives, LivesInOrder, FieldsOfLife, CallsInOrder, InJoin
<1>3. FieldsOfLife'
  BY DEF HostType, Lives, LivesInOrder, FieldsOfLife, CallsInOrder, InJoin
<1>4. CollectedEnded'
  BY DEF HostType, Lives, LivesInOrder, FieldsOfLife, CollectedEnded, CallsInOrder, InJoin
<1>5. CallsInOrder'
  BY DEF HostType, Lives, LivesInOrder, FieldsOfLife, CallsInOrder, InJoin
<1> QED BY <1>1, <1>2, <1>3, <1>4, <1>5


\* At first there is no life.
LEMMA InitIInv == Init => IInv
BY GuestThreadAssumption
DEF Init, IInv, TypeOK, HostType, Lives, LivesInOrder, FieldsOfLife, CollectedEnded, CallsInOrder, InJoin

\* Every step of a guest thread, and of those that act on it, keeps the invariant.
LEMMA StepIInv == IInv /\ [Next]_vars => IInv'
<1> SUFFICES ASSUME IInv, [Next]_vars PROVE IInv'
  OBVIOUS
<1>1. CASE \E isDetached \in BOOLEAN : Create(isDetached)
  BY <1>1, CreateKeeps
<1>2. ASSUME NEW c \in Controller, Guest(c) PROVE IInv'
  BY <1>2, LoadKeeps, SuspendStoreKeeps, JoinKeeps, CancelKeeps, DetachKeeps DEF Guest
<1>3. ASSUME NEW c \in Controller, Resuming(c) PROVE IInv'
  BY <1>3, ResumeStoreKeeps, ResumeTestKeeps, ResumeStartKeeps, ResumeFlagKeeps DEF Resuming
<1>4. ASSUME NEW c \in Controller, Joining(c) PROVE IInv'
  BY <1>4, JoinCollectKeeps, JoinUnstartKeeps, JoinUncreateKeeps DEF Joining
<1>5. ASSUME NEW n \in Lives, Trampoline(n) PROVE IInv'
  BY <1>5, ReturnKeeps, ExitKeeps, TestCancelKeeps, SetCancelStateKeeps, CallbackKeeps, LeaveKeeps
  DEF Trampoline
<1>6. CASE UNCHANGED vars
  BY <1>6 DEF vars, threads, IInv, TypeOK, LivesInOrder, FieldsOfLife, CollectedEnded, CallsInOrder, InJoin
<1> QED BY <1>1, <1>2, <1>3, <1>4, <1>5, <1>6 DEF Next

\* So the inductive invariant holds of every run.
LEMMA Invariance == Spec => []IInv
BY InitIInv, StepIInv, PTL DEF Spec
------------------------------------------------------------------------------
\* The fields keep their types: above all suspendCount never drops below zero,
\* whatever stores of racing OSResumeThread and OSSuspendThread are lost.
THEOREM TypeCorrect == Spec => []TypeOK
<1>1. IInv => TypeOK
  BY DEF IInv
<1> QED BY <1>1, Invariance, PTL

\* OSJoinThread answers what the thread it joined ended with, for ever after.
THEOREM JoinRight == Spec => []JoinAnswersOwn
<1>1. IInv => JoinAnswersOwn
  BY DEF IInv, CollectedEnded, JoinAnswersOwn
<1> QED BY <1>1, Invariance, PTL

\* A thread that has yet to use the HostThread is the one the fields are of; its
\* handle is not closed and no join has taken its result.
THEOREM OneUser == Spec => []SoleUser
<1>1. IInv => SoleUser
  BY GuestThreadAssumption
  DEF IInv, TypeOK, Lives, LivesInOrder, CollectedEnded, SoleUser
<1> QED BY <1>1, Invariance, PTL
-------------------------------------------------------------------------------
\* The priorities that threads are given, in ThreadAttributes.
CONSTANTS Thread, Main, Priorities, Cores, StackSizes, ProcessPriority, Lowest, MinHostStack, PageSize
VARIABLES given, asked, recorded

Attributes == INSTANCE ThreadAttributes

\* Priorities are numbers, and the process does not run below the lowest.
PrioritiesAreSound ==
  /\ ProcessPriority \in Int /\ Lowest \in Int /\ Priorities \subseteq Int
  /\ ProcessPriority <= Lowest

\* mapPriority, of the priority that the creator runs at and the one asked for.
InWindow(own, p) == own + (p * (Lowest - own)) \div 31

\* Every thread was created by a thread with a priority, in the window of that thread.
Mapped ==
  /\ Main \in DOMAIN given /\ DOMAIN asked \subseteq DOMAIN given
  /\ \A t \in DOMAIN given : given[t].priority \in Int /\ given[t].priority <= Lowest
  /\ \A t \in DOMAIN asked :
       /\ asked[t].priority \in 0..31 /\ asked[t].by \in DOMAIN given
       /\ given[t].priority = InWindow(given[asked[t].by].priority, asked[t].priority)

\* Quotients by 31 are in order, and whole multiples of it pass through the division.
LEMMA QuotientsOrdered ==
  ASSUME NEW a \in Nat, NEW b \in Nat, a <= b
  PROVE  a \div 31 <= b \div 31
OBVIOUS

LEMMA MultiplePasses ==
  ASSUME NEW a \in Nat, NEW d \in Nat
  PROVE  (a + 31 * d) \div 31 = a \div 31 + d
OBVIOUS

\* A product grows with each factor.
LEMMA ProductsOrdered ==
  ASSUME NEW p \in Nat, NEW q \in Nat, p <= q, NEW k \in Nat
  PROVE  p * k \in Nat /\ p * k <= q * k
<1>1. \A x, y \in Nat : x * y \in Nat
  OBVIOUS
<1>2. q * k = p * k + (q - p) * k /\ q - p \in Nat
  OBVIOUS
<1> QED BY <1>1, <1>2

\* The window starts at the creator's own priority and ends at the lowest.
LEMMA InWindowBounds ==
  ASSUME PrioritiesAreSound, NEW own \in Int, own <= Lowest, NEW p \in 0..31
  PROVE  InWindow(own, p) \in Int /\ own <= InWindow(own, p) /\ InWindow(own, p) <= Lowest
<1> DEFINE k == Lowest - own
<1>1. k \in Nat
  BY DEF PrioritiesAreSound
<1> HIDE DEF k
<1>2. p * k \in Nat /\ 31 * k \in Nat /\ p * k <= 31 * k
  BY <1>1, ProductsOrdered
<1>3. (31 * k) \div 31 = k
  BY <1>1
<1>4. (p * k) \div 31 <= k
  BY ONLY <1>2, <1>3, QuotientsOrdered
<1>5. (p * k) \div 31 \in Nat
  BY <1>2
<1> QED BY <1>4, <1>5 DEF InWindow, k, PrioritiesAreSound

\* mapPriority keeps the order of what is asked for, and that of the creators.
LEMMA InWindowOrdered ==
  ASSUME PrioritiesAreSound, NEW own \in Int, NEW other \in Int, own <= other, other <= Lowest,
         NEW p \in 0..31, NEW q \in 0..31, p <= q
  PROVE  InWindow(own, p) <= InWindow(other, q)
<1> DEFINE k == Lowest - other  d == other - own
<1>1. k \in Nat /\ d \in Nat /\ Lowest - own = k + d /\ other = own + d
  BY DEF PrioritiesAreSound
<1> HIDE DEF k, d
<1>2. k + d \in Nat /\ p * (k + d) \in Nat /\ p * (k + d) <= q * (k + d)
  BY <1>1, ProductsOrdered
<1>3. q * d \in Nat /\ q * d <= 31 * d /\ q * k \in Nat
  BY <1>1, ProductsOrdered
<1>4. q * (k + d) = q * k + q * d
  BY <1>1
<1>5. p * (k + d) <= q * k + 31 * d /\ q * k + 31 * d \in Nat
  BY <1>1, <1>2, <1>3, <1>4
<1>6. (p * (k + d)) \div 31 <= (q * k + 31 * d) \div 31
  BY ONLY <1>2, <1>5, QuotientsOrdered
<1>7. (q * k + 31 * d) \div 31 = (q * k) \div 31 + d
  BY ONLY <1>1, <1>3, MultiplePasses
<1>8. (p * (k + d)) \div 31 \in Int /\ (q * k) \div 31 \in Int
  BY <1>2, <1>3
<1> QED BY <1>1, <1>6, <1>7, <1>8 DEF InWindow, k

\* What MapPriority is of a creator and a number.
LEMMA MapPriorityIs ==
  ASSUME NEW creator \in DOMAIN given, NEW p \in Int
  PROVE  /\ Attributes!Clamped(p) \in 0..31
         /\ Attributes!MapPriority(creator, p)
              = InWindow(given[creator].priority, Attributes!Clamped(p))
BY DEF Attributes!Clamped, Attributes!MapPriority, InWindow

LEMMA CreateThreadKeeps ==
  ASSUME PrioritiesAreSound, Mapped, NEW creator, NEW t \in Thread, NEW p \in Priorities,
         NEW mask, NEW size, Attributes!CreateThread(creator, t, p, mask, size)
  PROVE  Mapped'
<1> DEFINE own == given[creator].priority  c == Attributes!Clamped(p)
<1>1. CASE UNCHANGED <<given, asked>>
  BY <1>1 DEF Mapped, InWindow
<1>2. CASE ~UNCHANGED <<given, asked>>
  <2>1. creator \in DOMAIN given /\ t \notin DOMAIN given /\ p \in Int
    BY DEF Attributes!CreateThread, PrioritiesAreSound
  <2>2. PICK core, stack :
          given' = [u \in DOMAIN given \cup {t} |->
                      IF u # t THEN given[u]
                      ELSE [priority |-> Attributes!MapPriority(creator, p),
                            core |-> core, stack |-> stack]]
    BY <1>2 DEF Attributes!CreateThread
  <2>3. asked' = [u \in DOMAIN asked \cup {t} |->
                    IF u # t THEN asked[u] ELSE [priority |-> c, by |-> creator]]
    BY <1>2 DEF Attributes!CreateThread
  <2>4. /\ c \in 0..31 /\ own \in Int /\ own <= Lowest
        /\ Attributes!MapPriority(creator, p) = InWindow(own, c)
    BY <2>1, MapPriorityIs DEF Mapped
  <2> HIDE DEF own, c
  <2>5. /\ DOMAIN given' = DOMAIN given \cup {t}
        /\ given'[t].priority = InWindow(own, c)
        /\ \A u \in DOMAIN given : given'[u] = given[u]
    BY ONLY <2>1, <2>2, <2>4
  <2>6. /\ DOMAIN asked' = DOMAIN asked \cup {t}
        /\ asked'[t].priority = c /\ asked'[t].by = creator
        /\ \A u \in DOMAIN asked : u # t => asked'[u] = asked[u]
    BY ONLY <2>3
  <2>7. InWindow(own, c) \in Int /\ InWindow(own, c) <= Lowest
    BY <2>4, InWindowBounds
  <2>8. /\ Main \in DOMAIN given' /\ DOMAIN asked' \subseteq DOMAIN given'
        /\ \A u \in DOMAIN given' : given'[u].priority \in Int /\ given'[u].priority <= Lowest
    BY <2>5, <2>6, <2>7 DEF Mapped
  <2>9. ASSUME NEW u \in DOMAIN asked'
        PROVE  /\ asked'[u].priority \in 0..31 /\ asked'[u].by \in DOMAIN given'
               /\ given'[u].priority = InWindow(given'[asked'[u].by].priority, asked'[u].priority)
    <3>1. CASE u = t
      <4>1. given'[creator].priority = own
        BY <2>1, <2>5 DEF own
      <4> QED BY ONLY <3>1, <4>1, <2>1, <2>4, <2>5, <2>6
    <3>2. CASE u # t
      <4>1. u \in DOMAIN asked /\ asked'[u] = asked[u]
        BY ONLY <2>6, <2>9, <3>2
      <4>2. asked[u].by \in DOMAIN given /\ u \in DOMAIN given
        BY <4>1 DEF Mapped
      <4>3. given'[u] = given[u] /\ given'[asked[u].by] = given[asked[u].by]
        BY ONLY <4>2, <2>5
      <4> QED BY <4>1, <4>2, <4>3, <2>5 DEF Mapped
    <3> QED BY <3>1, <3>2
  <2> QED BY <2>8, <2>9 DEF Mapped, InWindow
<1> QED BY <1>1, <1>2

\* It holds of every run.
LEMMA MappedAlways ==
  ASSUME PrioritiesAreSound
  PROVE  Attributes!Spec => []Mapped
<1>1. Attributes!Init => Mapped
  BY DEF Attributes!Init, Attributes!NotCreated, Mapped, PrioritiesAreSound
<1>2. Mapped /\ [Attributes!Next]_Attributes!attributeVars => Mapped'
  <2> SUFFICES ASSUME Mapped, [Attributes!Next]_Attributes!attributeVars PROVE Mapped'
    OBVIOUS
  <2>1. CASE UNCHANGED <<given, asked>>
    BY <2>1 DEF Mapped, InWindow
  <2>2. CASE ~UNCHANGED <<given, asked>>
    <3>1. PICK t \in Thread, creator \in Thread \cup {Main}, p \in Priorities,
               mask \in SUBSET Cores, size \in StackSizes :
            Attributes!CreateThread(creator, t, p, mask, size)
      BY <2>2 DEF Attributes!Next, Attributes!SetPriority, Attributes!SetAffinity,
           Attributes!attributeVars
    <3> QED BY <3>1, CreateThreadKeeps
  <2> QED BY <2>1, <2>2
<1> QED BY <1>1, <1>2, PTL DEF Attributes!Spec

\* mapPriority keeps the order of the priorities asked for among the threads of one creator,
\* and of creators that are in that order themselves, for every priority of the process:
\* what is left of README.md:134 once a created thread creates others.
THEOREM OrderKept ==
  ASSUME PrioritiesAreSound
  PROVE  Attributes!Spec => []Attributes!OrderedAsCreators
<1>1. ASSUME Mapped PROVE Attributes!OrderedAsCreators
  <2> SUFFICES ASSUME NEW t \in DOMAIN asked, NEW u \in DOMAIN asked,
                      asked[t].priority <= asked[u].priority,
                      given[asked[t].by].priority <= given[asked[u].by].priority
               PROVE  given[t].priority <= given[u].priority
    BY DEF Attributes!OrderedAsCreators
  <2>1. /\ given[asked[t].by].priority \in Int /\ given[asked[u].by].priority \in Int
        /\ given[asked[u].by].priority <= Lowest
        /\ asked[t].priority \in 0..31 /\ asked[u].priority \in 0..31
    BY <1>1 DEF Mapped
  <2>2. InWindow(given[asked[t].by].priority, asked[t].priority)
          <= InWindow(given[asked[u].by].priority, asked[u].priority)
    BY <2>1, InWindowOrdered
  <2> QED BY <1>1, <2>2 DEF Mapped
<1> QED BY <1>1, MappedAlways, PTL

\* No thread is more urgent than the one that created it, or less urgent than the lowest
\* priority of the host: the span in mapPriority is never negative.
THEOREM WindowKept ==
  ASSUME PrioritiesAreSound
  PROVE  Attributes!Spec => []Attributes!InCreatorsWindow
<1>1. ASSUME Mapped PROVE Attributes!InCreatorsWindow
  <2> SUFFICES ASSUME NEW t \in DOMAIN asked
               PROVE  given[asked[t].by].priority <= given[t].priority /\ given[t].priority <= Lowest
    BY DEF Attributes!InCreatorsWindow
  <2>1. /\ given[asked[t].by].priority \in Int /\ given[asked[t].by].priority <= Lowest
        /\ asked[t].priority \in 0..31
        /\ given[t].priority = InWindow(given[asked[t].by].priority, asked[t].priority)
    BY <1>1 DEF Mapped
  <2> QED BY <2>1, InWindowBounds
<1> QED BY <1>1, MappedAlways, PTL
==============================================================================
