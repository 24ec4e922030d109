------------------------------ MODULE MCServices ------------------------------
(***************************************************************************)
(* Two threads with two streams of two items; with two clients, of whose  *)
(* directories the text of one begins that of the other; with one block in *)
(* each of two base heaps and one of the guest; and with two references    *)
(* each to a library.  Three threads on a pool of three flocks, and on a   *)
(* cache of 4 in words of 16, for which the sum of 2 and 15 wraps.  Two    *)
(* driver slots.  The calendar over 400 years from 1970, when it repeats,  *)
(* and from 31 BC, through the year 0; its day has eight seconds of seven  *)
(* ticks or four microseconds.  All properties are invariants, and the     *)
(* threads, streams and clients are alike.                                 *)
(***************************************************************************)
EXTENDS Services, TLC

MCAnchors == {0, -5}
\* The directories /vol/a and /vol/ab, and each mapped: the first prefix fits both.
MCDirectory == {<<"/vol", "/a">>, <<"/vol", "/a", "b">>}
MCPrefix == MCDirectory
MCRoot == {<<"sd:">>}
\* The first and last tick of the day, and of its first second; one amid each.
MCInstants == {0, 1, 6, 27, 55}

Alike == Permutations(Stream) \cup Permutations(Client) \cup Permutations(Pair)
==============================================================================
