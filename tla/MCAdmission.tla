----------------------------- MODULE MCAdmission -----------------------------
(***************************************************************************)
(* Instances of Admission for TLC: requests and addresses are model values *)
(* given in the configuration.  No symmetry: the run checks liveness too.  *)
(***************************************************************************)
EXTENDS Admission

=============================================================================
