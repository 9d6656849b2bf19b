------------------------------ MODULE Presence ------------------------------
(***************************************************************************)
(* What the registry promises, without handlers, roles, devices, tokens    *)
(* and approvals: one desktop at a time, a bounded set of members that     *)
(* receive its output, and an announcement of every change in the very     *)
(* step that makes it.  Registry implements this specification.            *)
(***************************************************************************)
EXTENDS Naturals, FiniteSets

CONSTANTS Conn, Caps, MaxClients, None, NotTold, Offline

VARIABLES
  live,      \* sockets that are open
  desktop,   \* the desktop the members see, and its capabilities
  caps,
  members,   \* who receives output and announcements
  told       \* the last announcement each socket got

vars == <<live, desktop, caps, members, told>>

Init ==
  /\ live = {} /\ members = {}
  /\ desktop = None /\ caps = None
  /\ told = [c \in Conn |-> NotTold]

\* Every member hears v.
Announce(v) == told' = [c \in Conn |-> IF c \in members THEN v ELSE told[c]]

Connect(c) ==
  /\ c \notin live
  /\ live' = live \cup {c}
  /\ UNCHANGED <<desktop, caps, members, told>>

\* A desktop comes, and replaces the one before it if there is one.
Up(c, k) ==
  /\ c \in live
  /\ desktop' = c /\ caps' = k
  /\ Announce(k)
  /\ UNCHANGED <<live, members>>

\* A socket becomes a member if there is room, and hears of the desktop.
Join(c) ==
  /\ c \in members \/ Cardinality(members) < MaxClients
  /\ members' = members \cup {c}
  /\ told' = IF desktop = None THEN told ELSE [told EXCEPT ![c] = caps]
  /\ UNCHANGED <<live, desktop, caps>>

\* Members are removed; the desktop is not concerned.
Remove(S) ==
  /\ members' = members \ S
  /\ UNCHANGED <<live, desktop, caps, told>>

\* A socket ends: as a member, as the desktop (which nobody has replaced), or
\* as neither.
End(c) ==
  /\ c \in live
  /\ live' = live \ {c}
  /\ \/ members' = members \ {c} /\ UNCHANGED <<desktop, caps, told>>
     \/ /\ desktop \in {None, c}
        /\ desktop' = None /\ caps' = None
        /\ Announce(Offline)
        /\ UNCHANGED members
     \/ UNCHANGED <<desktop, caps, members, told>>

Next ==
  \/ \E c \in Conn : Connect(c) \/ Join(c) \/ End(c)
  \/ \E c \in Conn, k \in Caps : Up(c, k)
  \/ \E S \in SUBSET Conn : Remove(S)

Spec == Init /\ [][Next]_vars

=============================================================================
