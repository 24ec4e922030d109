------------------------------- MODULE MCHeaps -------------------------------
(***************************************************************************)
(* A frame heap with 4 bytes after its header and its alignment, requests  *)
(* of 1 and 2 bytes, alignments from either end with one that is no power  *)
(* of two, two recorded states, and a second region too small for a heap.  *)
(* An expanded heap of 24 bytes with headers of 3, so that blocks fit      *)
(* several times, remainders fall on both sides of MinSplit = 7, and       *)
(* padding, absorbed remainders and both ends meet.                        *)
(***************************************************************************)
EXTENDS Heaps, TLC

MCAlignments == {1, 3, -2}
MCExpAlignments == {1, 8, -2, -3}
==============================================================================
