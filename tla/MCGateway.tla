----------------------------- MODULE MCGateway ------------------------------
(***************************************************************************)
(* Instance of Gateway for TLC.  Sockets are interchangeable; accounts are *)
(* not, since only some of them are guessed at.                            *)
(***************************************************************************)
EXTENDS Gateway

Sockets == Permutations(Conn)

=============================================================================
