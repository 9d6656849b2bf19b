----------------------------- MODULE MCDownloads -----------------------------
(***************************************************************************)
(* Instances of Downloads for TLC.  Client sockets and download ids are    *)
(* interchangeable.                                                        *)
(***************************************************************************)
EXTENDS Downloads, TLC

\* Bounds: one request at a time has lost its entry and not been repeated, one
\* id is ever requested while it is in use, and two streams run at a time.
Bounds ==
  /\ Cardinality(lost \cup ousted) <= 1
  /\ Cardinality(reused) <= 1
  /\ Cardinality(streams) <= 2

Symmetry == Permutations(Client) \cup Permutations(Id)

=============================================================================
