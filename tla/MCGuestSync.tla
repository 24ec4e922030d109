------------------------------ MODULE MCGuestSync ------------------------------
(***************************************************************************)
(* Three guest threads: on one spin lock, or on one semaphore, with counts *)
(* up to 2, and one event, so that each has two waiters and a signaller.   *)
(* Or two of them racing on two addresses of the handle table, with one    *)
(* more host object, so that a leaked or doubled one has room to appear.   *)
(***************************************************************************)
EXTENDS GuestSync, TLC
==============================================================================
