---------------------------- MODULE MCSupervisor ----------------------------
(* A lineage of a few Runs, a daemon and its successor, for TLC. *)
EXTENDS Supervisor
=============================================================================
