------------------------------- MODULE Replay -------------------------------
(***************************************************************************)
(* Routing of scrollback replays: a client's session_list_request is noted *)
(* in replay_queue and forwarded; the desktop answers each request with a  *)
(* burst replay_begin, scrollback frames, session_list; the relay sends a  *)
(* burst to the connection at the front of the queue, or to everybody if   *)
(* there is none (broker.rs replay_queue / replay_target, server.rs        *)
(* SessionListRequest, ReplayBegin, SessionList, PTY_SCROLLBACK).          *)
(*                                                                         *)
(* The note and the forward are two broker calls, and so are the look at   *)
(* the target and the broadcast without one; other handlers run in         *)
(* between.  The desktop program is outside the repository: it answers     *)
(* the requests of a socket in order, one burst each.  Several desktop     *)
(* sockets can be open: an evicted one is read until it closes, and its    *)
(* handler still has the Desktop role.                                     *)
(*                                                                         *)
(* Its formulas have names of their own, so that the list request can be   *)
(* reasoned about together with OutputFlow.                                *)
(***************************************************************************)
EXTENDS Naturals, Sequences, FiniteSets

CONSTANTS
  Conn,         \* client sockets
  Desk,         \* desktop sockets; each connects once
  None,
  MaxQueue,     \* MAX_REPLAY_QUEUE
  MaxRequests   \* bound of the model: list requests in a run

ASSUME ReplayAssumption ==
  /\ None \notin Conn \cup Desk
  /\ MaxQueue \in Nat
  /\ MaxRequests \in Nat

VARIABLES
  sock,       \* life of each client socket: "new", "open", "closed"
  clients,    \* AccountState.clients
  desk,       \* life of each desktop socket
  desktopTx,  \* AccountState.desktop_tx
  queue,      \* AccountState.replay_queue
  target,     \* AccountState.replay_target
  noted,      \* client handlers between note_session_list_request and forward
  inbox,      \* requests each desktop socket has to answer (their number)
  burst,      \* desktop sockets between replay_begin and session_list
  sending,    \* what the handler of a desktop found no target for and is about
              \* to broadcast: "frame" or "list"
  left,       \* list requests that may still be made
  asked,      \* history: answers each client waits for
  partial,    \* history: clients that got replay frames and no list after them
  torn,       \* history: in this spell of overlapping bursts a desktop went away
              \* in the middle of its own
  cut,        \* history: clients whose last frames are of such a spell
  stray,      \* history: clients that got a replay they had not asked for
  disturbed   \* history: queue and desktop requests have fallen out of step

tables == <<queue, target>>
desks  == <<desk, desktopTx>>
peers  == <<sock, clients>>
replays == <<partial, torn, cut, stray>>
hist   == <<asked, replays>>
replayVars ==
  <<peers, desks, tables, noted, inbox, burst, sending, left, hist, disturbed>>

\* Type correctness of every variable; the queue respects its bound.
ReplayTypeOK ==
  /\ sock \in [Conn -> {"new", "open", "closed"}]
  /\ clients \subseteq Conn
  /\ desk \in [Desk -> {"new", "open", "closed"}]
  /\ desktopTx \in Desk \cup {None}
  /\ queue \in Seq(Conn) /\ Len(queue) <= MaxQueue
  /\ target \in Conn \cup {None}
  /\ noted \subseteq Conn
  /\ inbox \in [Desk -> Nat]
  /\ burst \subseteq Desk
  /\ sending \in [Desk -> {"no", "frame", "list"}]
  /\ left \in Nat
  /\ asked \in [Conn -> Nat]
  /\ partial \subseteq Conn /\ cut \subseteq Conn /\ stray \subseteq Conn
  /\ torn \in BOOLEAN /\ disturbed \in BOOLEAN

ReplayInit ==
  /\ sock = [c \in Conn |-> "new"] /\ clients = {}
  /\ desk = [d \in Desk |-> "new"] /\ desktopTx = None
  /\ queue = <<>> /\ target = None
  /\ noted = {} /\ inbox = [d \in Desk |-> 0] /\ burst = {}
  /\ sending = [d \in Desk |-> "no"]
  /\ left = MaxRequests
  /\ asked = [c \in Conn |-> 0]
  /\ partial = {} /\ cut = {} /\ stray = {}
  /\ torn = FALSE /\ disturbed = FALSE

\* The places of q that do not hold c.
Kept(q, c) == {i \in 1..Len(q) : q[i] # c}

\* The queue without c, in its order (VecDeque::retain): its k-th element is the
\* one with k kept places up to it.
Without(q, c) ==
  LET K == Kept(q, c)
      At(k) == CHOOSE i \in K : Cardinality(K \cap 1..i) = k
  IN  [k \in 1..Cardinality(K) |-> q[At(k)]]

-----------------------------------------------------------------------------
(* Clients                                                                 *)

\* register_client
Join(c) ==
  /\ sock[c] = "new"
  /\ sock' = [sock EXCEPT ![c] = "open"]
  /\ clients' = clients \cup {c}
  /\ UNCHANGED <<desks, tables, noted, inbox, burst, sending, left, hist, disturbed>>

\* Mutant: the request is forwarded but its connection is never queued.
NoteForgotten(c) ==
  /\ sock[c] = "open" /\ c \notin noted /\ left > 0
  /\ left' = left - 1
  /\ asked' = [asked EXCEPT ![c] = @ + 1]
  /\ noted' = noted \cup {c}
  /\ UNCHANGED <<peers, desks, tables, inbox, burst, sending, replays, disturbed>>

\* Mutant: off by one in the queue bound.
NoteOneMore(c) ==
  /\ sock[c] = "open" /\ c \notin noted /\ left > 0
  /\ left' = left - 1
  /\ asked' = [asked EXCEPT ![c] = @ + 1]
  /\ noted' = noted \cup {c}
  /\ IF Len(queue) <= MaxQueue
       THEN queue' = Append(queue, c) /\ UNCHANGED disturbed
       ELSE UNCHANGED queue /\ disturbed' = TRUE
  /\ UNCHANGED <<peers, desks, target, inbox, burst, sending, replays>>

\* SessionListRequest, first call: note_session_list_request.  A full queue
\* does not stop the request from being forwarded.
Note(c) ==
  /\ sock[c] = "open" /\ c \notin noted /\ left > 0
  /\ left' = left - 1
  /\ asked' = [asked EXCEPT ![c] = @ + 1]
  /\ noted' = noted \cup {c}
  /\ IF Len(queue) < MaxQueue
       THEN queue' = Append(queue, c) /\ UNCHANGED disturbed
       ELSE UNCHANGED queue /\ disturbed' = TRUE
  /\ UNCHANGED <<peers, desks, target, inbox, burst, sending, replays>>

\* SessionListRequest, second call: send_to_desktop, whose error is ignored.
Forward(c) ==
  /\ c \in noted
  /\ noted' = noted \ {c}
  /\ IF desktopTx = None
       THEN /\ asked' = [asked EXCEPT ![c] = IF @ > 0 THEN @ - 1 ELSE 0]
            /\ UNCHANGED inbox
       ELSE /\ inbox' = [inbox EXCEPT ![desktopTx] = @ + 1]
            /\ UNCHANGED asked
  /\ UNCHANGED <<peers, desks, tables, burst, sending, left, replays, disturbed>>

\* unregister_client; the target is left alone on purpose.
Leave(c) ==
  /\ sock[c] = "open" /\ c \notin noted
  /\ sock' = [sock EXCEPT ![c] = "closed"]
  /\ clients' = clients \ {c}
  /\ queue' = Without(queue, c)
  /\ disturbed' = (disturbed \/ queue' # queue)
  /\ UNCHANGED <<desks, target, noted, inbox, burst, sending, left, hist>>

\* unregister_device: out of the table and of the queue; the socket lives on.
Revoke(c) ==
  /\ c \in clients
  /\ clients' = clients \ {c}
  /\ queue' = Without(queue, c)
  /\ disturbed' = (disturbed \/ queue' # queue)
  /\ UNCHANGED <<sock, desks, target, noted, inbox, burst, sending, left, hist>>

-----------------------------------------------------------------------------
(* Desktops                                                                *)

\* Every client hears of the change and drops what it waited for, except a
\* request that is about to be forwarded to whatever desktop is there then.
DesktopChange ==
  /\ queue' = <<>> /\ target' = None
  /\ asked' = [c \in Conn |-> IF c \in noted THEN 1 ELSE 0]
  /\ disturbed' = (disturbed \/ noted # {} \/ \E d \in Desk : inbox[d] > 0 \/ d \in burst)

\* register_desktop
DesktopRegister(d) ==
  /\ desk[d] = "new"
  /\ desk' = [desk EXCEPT ![d] = "open"]
  /\ desktopTx' = d
  /\ DesktopChange
  /\ UNCHANGED <<peers, noted, inbox, burst, sending, left, replays>>

\* unregister_desktop; a stale desktop leaves the tables of its successor
\* alone, but not those of an account without a desktop.
DesktopGone(d) ==
  /\ desk[d] = "open" /\ sending[d] = "no"
  /\ desk' = [desk EXCEPT ![d] = "closed"]
  /\ inbox' = [inbox EXCEPT ![d] = 0]
  /\ burst' = burst \ {d}
  /\ IF desktopTx \in {d, None}
       THEN desktopTx' = None /\ DesktopChange
       ELSE UNCHANGED <<desktopTx, tables, asked, disturbed>>
  /\ IF d \in burst
       THEN torn' = (burst' # {}) /\ cut' = cut \cup partial
       ELSE UNCHANGED <<torn, cut>>
  /\ UNCHANGED <<peers, noted, sending, left, partial, stray>>

\* ReplayBegin: begin_replay pops the oldest requester.
BeginReplay(d) ==
  /\ desk[d] = "open" /\ d \notin burst /\ inbox[d] > 0
  /\ inbox' = [inbox EXCEPT ![d] = @ - 1]
  /\ burst' = burst \cup {d}
  /\ IF queue = <<>> THEN target' = None /\ UNCHANGED queue
     ELSE target' = Head(queue) /\ queue' = Tail(queue)
  /\ UNCHANGED <<peers, desks, noted, sending, left, hist, disturbed>>

Unasked(R) == {c \in R : asked[c] = 0}

\* A scrollback frame, or the list that closes a replay, reaches the clients R.
GetFrame(R) ==
  /\ partial' = partial \cup R
  /\ cut' = IF torn THEN cut \cup R ELSE cut \ R
  /\ stray' = stray \cup Unasked(R)
  /\ UNCHANGED <<asked, torn>>

GetList(R) ==
  /\ partial' = partial \ R
  /\ stray' = stray \cup Unasked(R)
  /\ asked' = [c \in Conn |-> IF c \in R \ Unasked(R) THEN asked[c] - 1 ELSE asked[c]]
  /\ UNCHANGED cut

\* The burst of d is over.
BurstOver(d) == burst' = burst \ {d} /\ torn' = (torn /\ burst' # {})

\* The target, if its socket still takes messages.
Target == {c \in {target} : sock[c] = "open"}

\* PTY_SCROLLBACK: replay_target, and without one a broadcast to come.
ReplayFrame(d) ==
  /\ d \in burst /\ sending[d] = "no"
  /\ IF target = None
       THEN sending' = [sending EXCEPT ![d] = "frame"] /\ UNCHANGED hist
       ELSE GetFrame(Target) /\ UNCHANGED sending
  /\ UNCHANGED <<peers, desks, tables, noted, inbox, burst, left, disturbed>>

\* Mutant: end_replay reads the target without taking it.
EndReplayKeeps(d) ==
  /\ d \in burst /\ sending[d] = "no"
  /\ IF target = None
       THEN sending' = [sending EXCEPT ![d] = "list"] /\ UNCHANGED <<burst, hist>>
       ELSE GetList(Target) /\ BurstOver(d) /\ UNCHANGED sending
  /\ UNCHANGED <<peers, desks, tables, noted, inbox, left, disturbed>>

\* SessionList: end_replay takes the target; without one a broadcast comes.
EndReplay(d) ==
  /\ d \in burst /\ sending[d] = "no"
  /\ target' = None
  /\ IF target = None
       THEN sending' = [sending EXCEPT ![d] = "list"] /\ UNCHANGED <<burst, hist>>
       ELSE GetList(Target) /\ BurstOver(d) /\ UNCHANGED sending
  /\ UNCHANGED <<peers, desks, queue, noted, inbox, left, disturbed>>

\* Mutant: without a target the message is dropped instead of broadcast.
NobodyElse == {}

\* Whom a broadcast reaches.
Everybody == clients

\* broadcast_to_clients, after the look at the target.
Broadcast(d) ==
  /\ \/ sending[d] = "frame" /\ GetFrame(Everybody) /\ UNCHANGED burst
     \/ sending[d] = "list" /\ GetList(Everybody) /\ BurstOver(d)
  /\ sending' = [sending EXCEPT ![d] = "no"]
  /\ UNCHANGED <<peers, desks, tables, noted, inbox, left, disturbed>>

ReplayNext ==
  \/ \E c \in Conn : Join(c) \/ Note(c) \/ Forward(c) \/ Leave(c) \/ Revoke(c)
  \/ \E d \in Desk : \/ DesktopRegister(d) \/ DesktopGone(d)
                     \/ BeginReplay(d) \/ ReplayFrame(d) \/ EndReplay(d)
                     \/ Broadcast(d)

ReplaySpec == ReplayInit /\ [][ReplayNext]_replayVars

\* A noted request is forwarded and a broadcast made (same handler, no further
\* input), and an open desktop works off its requests: a burst has finitely many
\* frames, so the list comes although frames keep the handler busy before it.
ReplayFairness ==
  /\ \A c \in Conn : WF_replayVars(Forward(c))
  /\ \A d \in Desk : /\ WF_replayVars(BeginReplay(d))
                     /\ SF_replayVars(EndReplay(d)) /\ WF_replayVars(Broadcast(d))

FairReplaySpec == ReplaySpec /\ ReplayFairness

-----------------------------------------------------------------------------
(* Properties                                                              *)

\* No replay is left open: a client that got replay frames has had a list since,
\* unless a burst is still running or a desktop went away in the middle of one.
\* That desktop sent the frames, or its burst overlapped the one that did: two
\* sockets of a desktop can run bursts at once and there is one target, so a
\* list may go where the other burst's was to go.  Then the last list goes to
\* everybody, and only the end of a desktop that still owed its list can leave
\* somebody else's client without one.
BurstsEnd ==
  \A c \in partial \cap clients : burst # {} \/ c \in cut

\* A replay reaches only a client that asked for one, as long as nothing has
\* put the queue and the desktop's requests out of step: no requester left the
\* queue before its burst, the queue did not overflow, and no desktop came or
\* went while requests were under way.
RequesterOnly == ~disturbed => stray = {}

\* Every list request of a registered client is answered with a list, or
\* voided by a desktop change, even if queue entries were lost on the way: a
\* burst that finds no entry is broadcast.
Answered ==
  \A c \in Conn : asked[c] > 0 ~> (asked[c] = 0 \/ c \notin clients)

=============================================================================
