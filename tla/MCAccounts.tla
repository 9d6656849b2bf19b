----------------------------- MODULE MCAccounts -----------------------------
(***************************************************************************)
(* Instance of Accounts for TLC.  Account names, sockets, endpoints and    *)
(* screenshot paths are interchangeable.                                   *)
(***************************************************************************)
EXTENDS Accounts, TLC

Symmetry == Permutations(User) \cup Permutations(Conn)
              \cup Permutations(Endpoint) \cup Permutations(File)

\* Bound: at most one of three things is under way: two sockets at a time, bug
\* reports, endpoints that their push service has dropped.
Apart ==
  /\ Cardinality(open) = 2 => files = {} /\ reports = <<>> /\ alive = Endpoint
  /\ files # {} \/ reports # <<>> => alive = Endpoint

=============================================================================
