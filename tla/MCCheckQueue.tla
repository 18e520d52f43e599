---------------------------- MODULE MCCheckQueue ----------------------------
(***************************************************************************)
(* Two workers and the master, two blocks of up to four checks.            *)
(***************************************************************************)
EXTENDS CheckQueue

MCWorkers == {"w1", "w2"}
=============================================================================
