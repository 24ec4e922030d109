----------------------------- MODULE BoundedQueue -----------------------------
(***************************************************************************)
(* What an OSMessageQueue promises: a bounded sequence of messages, grown  *)
(* by OSSendMessage at the back, or at the front for a high-priority       *)
(* message, taken and peeked at the front, emptied by an initialisation.   *)
(***************************************************************************)
EXTENDS Sequences, Naturals

CONSTANTS Msg, NoMsg, MaxSize

VARIABLES items,   \* the messages in the queue, front first
          size,    \* the most it can hold, 0 before the first initialisation
          got      \* the message that the latest receive or peek answered

vars == <<items, size, got>>

Init == items = <<>> /\ size = 0 /\ got = NoMsg

Reset(n) == items' = <<>> /\ size' = n /\ UNCHANGED got

PushBack(m) == Len(items) < size /\ items' = Append(items, m) /\ UNCHANGED <<size, got>>

PushFront(m) == Len(items) < size /\ items' = <<m>> \o items /\ UNCHANGED <<size, got>>

Take == items # <<>> /\ items' = Tail(items) /\ got' = Head(items) /\ UNCHANGED size

Look == items # <<>> /\ got' = Head(items) /\ UNCHANGED <<items, size>>

Next == \/ \E n \in 1..MaxSize : Reset(n)
        \/ \E m \in Msg : PushBack(m) \/ PushFront(m)
        \/ Take \/ Look

Spec == Init /\ [][Next]_vars
==============================================================================
