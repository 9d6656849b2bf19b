------------------------------ MODULE MCReplay ------------------------------
(***************************************************************************)
(* Instances of Replay for TLC: client and desktop sockets are model       *)
(* values given in the configuration.  No symmetry: the run checks         *)
(* liveness too.                                                           *)
(***************************************************************************)
EXTENDS Replay

\* Without keeps what is not c, in its order.
ASSUME WithoutSelects ==
  \A n \in 0..3 : \A q \in [1..n -> Conn], c \in Conn :
    Without(q, c) = SelectSeq(q, LAMBDA x : x # c)

=============================================================================
