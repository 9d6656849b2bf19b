----------------------------- MODULE Supervisor -----------------------------
(***************************************************************************)
(* Supervisor queries: begin_supervisor_query / resolve_supervisor and the *)
(* table supervisor_pending (broker.rs), with the handlers of              *)
(* supervisor_query, supervisor_result and supervisor_error (server.rs).   *)
(*                                                                         *)
(* The handler of a query makes three broker calls (is_desktop_online,     *)
(* begin_supervisor_query, send_to_desktop), and everything else runs in   *)
(* between.  Replies are abstracted to their existence.                    *)
(*                                                                         *)
(* The programs at both ends are outside the repository.  A client program *)
(* re-issues a query under the same id, also on a new connection once it   *)
(* has given up the old one; a desktop answers the queries it was sent on  *)
(* its present connection, and may answer one twice.                       *)
(***************************************************************************)
EXTENDS Naturals, FiniteSets

CONSTANTS
  Client,      \* client sockets; each is connected once
  Id,          \* query ids
  MaxPending,  \* MAX_PENDING_SUPERVISOR
  None

ASSUME SupervisorAssumption ==
  /\ MaxPending \in Nat \ {0}
  /\ None \notin Id
  /\ None \notin [owner : Client, stored : BOOLEAN, old : BOOLEAN]

VARIABLES
  conn,     \* "open"; "dead": the peer is gone, the channel still takes
            \* messages; "closed": the receiver is dropped, sends fail
  pc, arg,  \* the broker call each handler makes next, and the id it is about
  online,   \* a desktop is registered
  asked,    \* queries the connected desktop has been sent and may answer
  sup,      \* AccountState.supervisor_pending
  waiting   \* per connection, queries it was neither answered nor refused

calls == <<pc, arg>>
desk  == <<online, asked>>
vars  == <<conn, calls, desk, sup, waiting>>

Entry == [owner : Client, stored : BOOLEAN, old : BOOLEAN]

\* The ids in a table.
Keys(t) == {i \in Id : t[i] # None}

\* Type correctness; the table respects its bound.
TypeOK ==
  /\ conn \in [Client -> {"open", "dead", "closed"}]
  /\ pc \in [Client -> {"idle", "begin", "forward"}]
  /\ arg \in [Client -> Id \cup {None}]
  /\ \A c \in Client : pc[c] # "idle" => arg[c] \in Id
  /\ online \in BOOLEAN
  /\ asked \subseteq Id
  /\ sup \in [Id -> Entry \cup {None}]
  /\ Cardinality(Keys(sup)) <= MaxPending
  /\ waiting \in [Client -> SUBSET Id]

Init ==
  /\ conn = [c \in Client |-> "open"]
  /\ pc = [c \in Client |-> "idle"]
  /\ arg = [c \in Client |-> None]
  /\ online = FALSE /\ asked = {}
  /\ sup = [i \in Id |-> None]
  /\ waiting = [c \in Client |-> {}]

Goto(c, l, i) ==
  /\ pc' = [pc EXCEPT ![c] = l]
  /\ arg' = [arg EXCEPT ![c] = i]

\* A reply or an error reaches the client.
Told(c, i) == waiting' = [waiting EXCEPT ![c] = @ \ {i}]

\* Mutant: entries are never collected.
GcNever == sup

\* gc_supervisor: drop what was created too long ago.
Gc == [i \in Id |-> IF sup[i] # None /\ sup[i].old THEN None ELSE sup[i]]

-----------------------------------------------------------------------------
(* supervisor_query                                                        *)

\* The query arrives; without a desktop it is refused at once.
Query(c, i) ==
  /\ conn[c] = "open" /\ pc[c] = "idle"
  /\ \A d \in Client \ {c} : i \in waiting[d] => conn[d] # "open"
  /\ IF online
       THEN /\ Goto(c, "begin", i)
            /\ waiting' = [waiting EXCEPT ![c] = @ \cup {i}]
       ELSE Told(c, i) /\ UNCHANGED calls
  /\ UNCHANGED <<conn, desk, sup>>

\* Mutant: the entry is re-owned before anybody looks for a parked reply.
BeginQueryReownFirst(c) ==
  LET i == arg[c]
      t == Gc
      e == t[i]
  IN /\ pc[c] = "begin"
     /\ \/ /\ e # None
           /\ sup' = [t EXCEPT ![i].owner = c]
           /\ Goto(c, "idle", None)
           /\ UNCHANGED waiting
        \/ /\ e = None /\ Cardinality(Keys(t)) >= MaxPending
           /\ sup' = t
           /\ Told(c, i)
           /\ Goto(c, "idle", None)
        \/ /\ e = None /\ Cardinality(Keys(t)) < MaxPending
           /\ sup' = [t EXCEPT ![i] = [owner |-> c, stored |-> FALSE, old |-> FALSE]]
           /\ Goto(c, "forward", i)
           /\ UNCHANGED waiting
     /\ UNCHANGED <<conn, desk>>

\* Mutant: off by one in the comparison with the cap.
BeginQueryOneMore(c) ==
  LET i == arg[c]
      t == Gc
  IN /\ pc[c] = "begin"
     /\ t[i] = None /\ Cardinality(Keys(t)) <= MaxPending
     /\ sup' = [t EXCEPT ![i] = [owner |-> c, stored |-> FALSE, old |-> FALSE]]
     /\ Goto(c, "forward", i)
     /\ UNCHANGED <<waiting, conn, desk>>

\* begin_supervisor_query: Replay, Reowned, Capacity or Forward.
BeginQuery(c) ==
  LET i == arg[c]
      t == Gc
      e == t[i]
  IN /\ pc[c] = "begin"
     /\ \/ /\ e # None /\ e.stored
           /\ sup' = [t EXCEPT ![i] = None]
           /\ Told(c, i)
           /\ Goto(c, "idle", None)
        \/ /\ e # None /\ ~e.stored
           /\ sup' = [t EXCEPT ![i].owner = c]
           /\ Goto(c, "idle", None)
           /\ UNCHANGED waiting
        \/ /\ e = None /\ Cardinality(Keys(t)) >= MaxPending
           /\ sup' = t
           /\ Told(c, i)
           /\ Goto(c, "idle", None)
        \/ /\ e = None /\ Cardinality(Keys(t)) < MaxPending
           /\ sup' = [t EXCEPT ![i] = [owner |-> c, stored |-> FALSE, old |-> FALSE]]
           /\ Goto(c, "forward", i)
           /\ UNCHANGED waiting
     /\ UNCHANGED <<conn, desk>>

\* send_to_desktop, whose error is ignored.
ForwardQuery(c) ==
  /\ pc[c] = "forward"
  /\ asked' = IF online THEN asked \cup {arg[c]} ELSE asked
  /\ Goto(c, "idle", None)
  /\ UNCHANGED <<conn, online, sup, waiting>>

-----------------------------------------------------------------------------
(* supervisor_result, supervisor_error                                     *)

\* Mutant: the entry is removed although the owner could not be reached.
ResolveNotParked(i) ==
  LET t == Gc IN
  /\ sup' = [t EXCEPT ![i] = None]
  /\ IF t[i] # None /\ conn[t[i].owner] = "open" THEN Told(t[i].owner, i)
     ELSE UNCHANGED waiting

\* resolve_supervisor: Unknown, Delivered (which a dying channel also reports)
\* or Stored.
Resolve(i) ==
  LET t == Gc
      e == t[i]
  IN \/ e = None /\ sup' = t /\ UNCHANGED waiting
     \/ /\ e # None /\ conn[e.owner] # "closed"
        /\ sup' = [t EXCEPT ![i] = None]
        /\ IF conn[e.owner] = "open" THEN Told(e.owner, i) ELSE UNCHANGED waiting
     \/ /\ e # None /\ conn[e.owner] = "closed"
        /\ sup' = [t EXCEPT ![i].stored = TRUE]
        /\ UNCHANGED waiting

\* The desktop answers.
Reply(i) ==
  /\ online /\ i \in asked
  /\ asked' \in {asked, asked \ {i}}
  /\ Resolve(i)
  /\ UNCHANGED <<conn, calls, online>>

-----------------------------------------------------------------------------
(* Surroundings                                                            *)

\* SUPERVISOR_GC_SECS have passed since the entry was created.
Age(i) ==
  /\ sup[i] # None /\ ~sup[i].old
  /\ sup' = [sup EXCEPT ![i].old = TRUE]
  /\ UNCHANGED <<conn, calls, desk, waiting>>

\* The peer vanishes.
Die(c) ==
  /\ conn[c] = "open"
  /\ conn' = [conn EXCEPT ![c] = "dead"]
  /\ UNCHANGED <<calls, desk, sup, waiting>>

\* The writer task ends and drops the receiver; no cleanup touches the table.
Close(c) ==
  /\ conn[c] # "closed"
  /\ conn' = [conn EXCEPT ![c] = "closed"]
  /\ UNCHANGED <<calls, desk, sup, waiting>>

\* A desktop registers or goes; neither touches the table.
Desktop(on) ==
  /\ on \/ online
  /\ online' = on /\ asked' = {}
  /\ UNCHANGED <<conn, calls, sup, waiting>>

Next ==
  \/ \E c \in Client : \/ BeginQuery(c) \/ ForwardQuery(c) \/ Die(c) \/ Close(c)
                       \/ \E i \in Id : Query(c, i)
  \/ \E i \in Id : Reply(i) \/ Age(i)
  \/ \E on \in BOOLEAN : Desktop(on)

Spec == Init /\ [][Next]_vars

\* Handlers run on, time passes and a client that waits asks again.  Nothing is
\* assumed of the desktop.
Fairness ==
  /\ \A c \in Client : WF_vars(BeginQuery(c)) /\ WF_vars(ForwardQuery(c))
  /\ \A i \in Id : WF_vars(Age(i))
  /\ \A c \in Client, i \in Id : SF_vars(i \in waiting[c] /\ Query(c, i))

FairSpec == Spec /\ Fairness

-----------------------------------------------------------------------------
(* Properties                                                              *)

\* A reply is parked only for a connection that can no longer take it: the
\* entry of a live connection never hides one.  Re-owning is thereby confined
\* to entries that still wait for the desktop.
ParkedOwnerGone ==
  \A i \in Keys(sup) : sup[i].stored => conn[sup[i].owner] = "closed"

\* How the entry of i may leave the table: collected, sent to the owner's
\* channel, or handed to the connection that asks again.
Accounted(i) ==
  sup[i] # None /\ sup'[i] = None =>
    \/ sup[i].old
    \/ ~sup[i].stored /\ conn[sup[i].owner] # "closed"
    \/ sup[i].stored /\ \E c \in Client :
                           pc[c] = "begin" /\ arg[c] = i /\ i \notin waiting'[c]

\* No reply gets lost inside the relay: an entry leaves the table only when its
\* reply went into a channel that took it, or after the collection interval.
\* (A channel takes messages until its writer notices that the peer is gone.)
ReplyAccounted == [][\A i \in Id : Accounted(i)]_vars

\* A client that keeps asking is answered or refused, or its query reaches the
\* registered desktop, whatever restarts and reconnects happened before: a
\* re-own that forwards nothing can not go on beyond the collection interval.
RetryReachesDesktop ==
  \A c \in Client, i \in Id :
    []<>(i \in asked \/ i \notin waiting[c] \/ conn[c] # "open" \/ ~online)

=============================================================================
