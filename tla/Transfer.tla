------------------------------ MODULE Transfer ------------------------------
(***************************************************************************)
(* What the governance of file transfers promises, without handlers,       *)
(* buffers, declared sizes and the desktop: a bounded number of slots,     *)
(* each of one connection from its grant until it is free again, so many   *)
(* bytes through a slot and no more, and an answer to whoever waits.       *)
(* Uploads and Downloads both implement this specification.                *)
(*                                                                         *)
(* Any step may give up a set S of stale transfers as well: that is how    *)
(* idle ones are collected, by whichever call comes next.                  *)
(***************************************************************************)
EXTENDS Naturals, FiniteSets

CONSTANTS
  Conn,       \* connections
  Waiter,     \* those of them that wait for an answer to what they begin
  Ident,      \* transfer ids
  MaxActive,  \* slots
  MaxSize,    \* bytes that may pass through a slot
  Exclusive,  \* whether an id in use is refused, or taken from its owner
  None

VARIABLES
  live,    \* connections that are open
  owner,   \* the connection each transfer belongs to, None if there is none
  passed,  \* bytes passed for each transfer
  stale,   \* transfers that may be given up
  waits,   \* <<connection, transfer>> begun and not answered
  vain     \* those of them whose transfer was given up

vars == <<live, owner, passed, stale, waits, vain>>

Init ==
  /\ live \subseteq Conn
  /\ owner = [u \in Ident |-> None]
  /\ passed = [u \in Ident |-> 0]
  /\ stale = {} /\ waits = {} /\ vain = {}

Held == {u \in Ident : owner[u] # None}

\* The slots of S are free; whoever waits on for one of them waits in vain.
Freed(S)   == [u \in Ident |-> IF u \in S THEN None ELSE owner[u]]
Cleared(S) == [u \in Ident |-> IF u \in S THEN 0 ELSE passed[u]]
Vain(S)    == vain \cup {<<owner[u], u>> : u \in S}

Collect(S) ==
  /\ UNCHANGED <<live, waits>>
  /\ owner' = Freed(S) /\ passed' = Cleared(S) /\ stale' = stale \ S
  /\ vain' = Vain(S) \cap waits

\* Somebody who waits, p, is told to wait no longer.
Answer(S, p) ==
  /\ UNCHANGED live
  /\ waits' = waits \ {p}
  /\ owner' = Freed(S) /\ passed' = Cleared(S) /\ stale' = stale \ S
  /\ vain' = Vain(S) \cap waits'

\* A free slot for an open connection, and a free id if that is asked for;
\* otherwise whoever waits under the id waits in vain.  An id that another
\* connection has not done with is stale at once.
Grant(S, c, u) ==
  /\ UNCHANGED live
  /\ Exclusive => u \in S \/ owner[u] = None
  /\ Cardinality(Held \ S) < MaxActive
  /\ waits' = IF c \in Waiter THEN waits \cup {<<c, u>>} ELSE waits
  /\ owner' = [Freed(S) EXCEPT ![u] = c]
  /\ passed' = [Cleared(S) EXCEPT ![u] = 0]
  /\ stale' \in {stale \ S, (stale \ S) \cup {u}}
  /\ vain' = (Vain(S \cup (Held \cap {u})) \cap waits) \ {<<c, u>>}

Pass(S, u) ==
  /\ UNCHANGED <<live, waits>>
  /\ passed[u] < MaxSize
  /\ passed' = [Cleared(S) EXCEPT ![u] = @ + 1]
  /\ owner' = Freed(S) /\ stale' = stale \ S
  /\ vain' = Vain(S) \cap waits

\* A transfer ends, and its owner is answered.
End(S, u) ==
  LET T == S \cup {u} IN
  /\ UNCHANGED live
  /\ waits' = waits \ {<<owner[u], u>>}
  /\ owner' = Freed(T) /\ passed' = Cleared(T) /\ stale' = stale \ T
  /\ vain' = Vain(S) \cap waits'

Expire(u) ==
  /\ stale' = stale \cup {u}
  /\ UNCHANGED <<live, owner, passed, waits, vain>>

Connect(c) ==
  /\ live' = live \cup {c}
  /\ UNCHANGED <<owner, passed, stale, waits, vain>>

\* A connection ends, and with it all its transfers.
Disconnect(c) ==
  LET S == {u \in Held : owner[u] = c} IN
  /\ live' = live \ {c}
  /\ owner' = Freed(S) /\ passed' = Cleared(S) /\ stale' = stale \ S
  /\ waits' = {p \in waits : p[1] # c}
  /\ vain' = {p \in vain : p[1] # c}

Next ==
  \/ \E S \in SUBSET stale :
       \/ Collect(S)
       \/ \E p \in waits : Answer(S, p)
       \/ \E c \in live, u \in Ident : Grant(S, c, u)
       \/ \E u \in Held \ S : Pass(S, u) \/ End(S, u)
  \/ \E u \in Held : Expire(u)
  \/ \E c \in Conn : Connect(c) \/ Disconnect(c)

Spec == Init /\ [][Next]_vars

=============================================================================
