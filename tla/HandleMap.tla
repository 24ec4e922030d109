------------------------------ MODULE HandleMap ------------------------------
(***************************************************************************)
(* What a HandleTable<Host> promises its users, with no lock and no        *)
(* allocation order: a key is bound to one ready-made host object from its *)
(* first use until it is erased, and every get in between answers that     *)
(* object.                                                                 *)
(***************************************************************************)
CONSTANTS Thread, Key, Host, NoHost

VARIABLES bound,    \* bound[k]: the host object of key k, or NoHost
          answers   \* answers[t]: the key and host of thread t's last answer

vars == <<bound, answers>>

Answer == [key : Key, host : Host \cup {NoHost}]

Init ==
  /\ bound = [k \in Key |-> NoHost]
  /\ answers = [t \in Thread |-> {}]

Bind(t, k, h) ==
  /\ bound[k] = NoHost
  /\ \A j \in Key : bound[j] # h
  /\ bound' = [bound EXCEPT ![k] = h]
  /\ answers' = [answers EXCEPT ![t] = {[key |-> k, host |-> h]}]

Find(t, k) ==
  /\ bound[k] # NoHost
  /\ answers' = [answers EXCEPT ![t] = {[key |-> k, host |-> bound[k]]}]
  /\ UNCHANGED bound

Erase(t, k) ==
  /\ bound' = [bound EXCEPT ![k] = NoHost]
  /\ answers' = [answers EXCEPT ![t] = {}]

Next == \E t \in Thread, k \in Key :
          Find(t, k) \/ Erase(t, k) \/ \E h \in Host : Bind(t, k, h)

Spec == Init /\ [][Next]_vars
==============================================================================
