------------------------------ MODULE MCSentinel ------------------------------
(* Sentinel for TLC.  Its runs check liveness, so no symmetry is declared. *)
EXTENDS Sentinel, TLC
===============================================================================
