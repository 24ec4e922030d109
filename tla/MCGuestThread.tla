---------------------------- MODULE MCGuestThread ----------------------------
(***************************************************************************)
(* Two guest threads control one OSThread through two lives.               *)
(***************************************************************************)
EXTENDS GuestThread, TLC
==============================================================================
