---------------------------- MODULE MCSupervisor ----------------------------
(***************************************************************************)
(* Instances of Supervisor for TLC: sockets and query ids are model values *)
(* given in the configuration.  No symmetry: the run checks liveness too.  *)
(***************************************************************************)
EXTENDS Supervisor

=============================================================================
