------------------------------- MODULE MCAlarm -------------------------------
(***************************************************************************)
(* One guest thread and the callbacks set, cancel and create two alarms,   *)
(* with room for a second scheduler thread.                                *)
(***************************************************************************)
EXTENDS Alarm, TLC
==============================================================================
