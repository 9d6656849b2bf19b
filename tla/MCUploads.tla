------------------------------ MODULE MCUploads ------------------------------
(***************************************************************************)
(* Instances of Uploads for TLC.  Upload ids are interchangeable.          *)
(***************************************************************************)
EXTENDS Uploads, TLC

\* Entries that are past their begin.
Used == {u \in Keys(uploads) : \/ uploads[u].bytes > 0 \/ uploads[u].idle
                               \/ uploads[u].finished \/ uploads[u].taken > 0}

\* Bounds: one upload at a time has lost its entry and not been begun again, and
\* one entry at a time is past its begin.
Bounds ==
  /\ Cardinality(lost \cup ousted) <= 1
  /\ Cardinality(Used) <= 1

Symmetry == Permutations(Id)

=============================================================================
