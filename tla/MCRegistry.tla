----------------------------- MODULE MCRegistry -----------------------------
(***************************************************************************)
(* Instances of Registry for TLC.  Sockets, devices and capability lists   *)
(* are interchangeable, so all three sets are symmetric.                   *)
(***************************************************************************)
EXTENDS Registry, TLC

Symmetry == Permutations(Conn) \cup Permutations(Device) \cup Permutations(Caps)

=============================================================================
