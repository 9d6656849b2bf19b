---------------------------- MODULE MCOutputFlow ----------------------------
(***************************************************************************)
(* Instances of OutputFlow for TLC: senders are model values given in the  *)
(* configuration.  No symmetry: both runs check liveness.                  *)
(***************************************************************************)
EXTENDS OutputFlow

=============================================================================
