--------------------------- MODULE MCMessageQueue ----------------------------
(***************************************************************************)
(* Three guest threads, each free to send, receive, peek and initialise;   *)
(* two messages and rings of one to three slots, so that the ring wraps    *)
(* and both condition variables have several waiters.                      *)
(***************************************************************************)
EXTENDS MessageQueue, TLC
==============================================================================
