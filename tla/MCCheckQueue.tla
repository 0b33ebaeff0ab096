---------------------------- MODULE MCCheckQueue ----------------------------
(* A small instance of CheckQueue. *)
EXTENDS CheckQueue
=============================================================================
