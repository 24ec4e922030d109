--------------------------- MODULE RegionAllocator ---------------------------
(***************************************************************************)
(* What a heap over a guest-supplied region promises: it hands out ranges  *)
(* of bytes that lie in the region and share none with the ranges still in *)
(* use, and takes back the range the guest names and no other.             *)
(***************************************************************************)
EXTENDS Integers

VARIABLES region,   \* region[1] to region[2] - 1 are the heap's bytes, or <<0, 0>>
          taken     \* the ranges in use

vars == <<region, taken>>

Init == region = <<0, 0>> /\ taken = {}

\* A new heap over a region, or none.
Open(lo, hi) == region' = <<lo, hi>> /\ taken' = {}

Apart(p, q) == p[2] <= q[1] \/ q[2] <= p[1]

Grant(p) ==
  /\ region[1] <= p[1] /\ p[1] < p[2] /\ p[2] <= region[2]
  /\ \A q \in taken : Apart(p, q)
  /\ taken' = taken \cup {p}
  /\ UNCHANGED region

Return(p) ==
  /\ p \in taken
  /\ taken' = taken \ {p}
  /\ UNCHANGED region

Step == \/ Open(region'[1], region'[2])
        \/ \E p \in taken' : Grant(p)
        \/ \E p \in taken : Return(p)

Spec == Init /\ [][Step]_vars
==============================================================================
