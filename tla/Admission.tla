------------------------------ MODULE Admission ------------------------------
(***************************************************************************)
(* Admission of WebSocket requests and the life of a connection slot:      *)
(* ws_handler (connection limit, per-address rate limit, upgrade),         *)
(* handle_socket with its ping clock, and release_connection.              *)
(*                                                                         *)
(* Requests are handled by concurrent tasks.  try_acquire_connection loads *)
(* the counter and adds to it in two steps; the rate limiter runs under a  *)
(* mutex, awaited, and the task may be dropped there if the peer hangs up. *)
(***************************************************************************)
EXTENDS Integers, FiniteSets

CONSTANTS
  Req,        \* WebSocket requests
  Ip,         \* addresses they come from
  Workers,    \* threads of the runtime
  MaxTotal,   \* MAX_TOTAL_CONNECTIONS
  Limit,      \* WS_RATE_LIMIT_PER_MINUTE
  Window,     \* the minute of the rate limit, in clock units
  MaxMisses,  \* pings that may go unanswered (3)
  MaxTime     \* bound of the model: the clock stops here

ASSUME AdmissionAssumption ==
  /\ Workers \in Nat \ {0}
  /\ MaxTotal \in Nat /\ Limit \in Nat /\ Window \in Nat \ {0}
  /\ MaxMisses \in Nat /\ MaxTime \in Nat

VARIABLES
  now,     \* the clock
  total,   \* Broker.total_connections
  st,      \* how far each request has come
  ip,      \* address of each request
  stamps,  \* AppState.ws_rate_limits: per address, accepted requests by time
  misses,  \* ping_misses of each open connection
  silent,  \* peers that send nothing any more
  log      \* history: every acceptance as <<request, address, time>>

vars == <<now, total, st, ip, stamps, misses, silent, log>>

Stage == {"new", "loaded", "slot", "upgrade", "open", "lost", "done"}

\* Stages in which a request accounts for one unit of total_connections.
Holding == {"slot", "upgrade", "open", "lost"}

\* Type correctness; the unsigned counter never wraps below zero.
TypeOK ==
  /\ now \in 0..MaxTime
  /\ total \in Nat
  /\ st \in [Req -> Stage]
  /\ ip \in [Req -> Ip]
  /\ stamps \in [Ip -> SUBSET (Req \X (0..MaxTime))]
  /\ misses \in [Req -> 0..MaxMisses]
  /\ silent \subseteq Req
  /\ log \subseteq Req \X Ip \X (0..MaxTime)

Init ==
  /\ now = 0 /\ total = 0
  /\ st = [r \in Req |-> "new"]
  /\ ip \in [Req -> Ip]
  /\ stamps = [a \in Ip |-> {}]
  /\ misses = [r \in Req |-> 0]
  /\ silent = {} /\ log = {}

Count(S) == Cardinality({r \in Req : st[r] \in S})

Move(r, s) == st' = [st EXCEPT ![r] = s]

Tick ==
  /\ now < MaxTime
  /\ now' = now + 1
  /\ UNCHANGED <<total, st, ip, stamps, misses, silent, log>>

-----------------------------------------------------------------------------
(* ws_handler                                                              *)

\* Mutant: the comparison admits one connection too many.
LoadOneMore(r) ==
  /\ st[r] = "new" /\ Count({"loaded"}) < Workers
  /\ Move(r, IF total > MaxTotal THEN "done" ELSE "loaded")
  /\ UNCHANGED <<now, total, ip, stamps, misses, silent, log>>

\* try_acquire_connection: the load and the comparison.  No await separates
\* them from the add, so at most one task per thread is in between ...
Load(r) ==
  /\ st[r] = "new" /\ Count({"loaded"}) < Workers
  /\ Move(r, IF total >= MaxTotal THEN "done" ELSE "loaded")
  /\ UNCHANGED <<now, total, ip, stamps, misses, silent, log>>

\* ... and the add.
Acquire(r) ==
  /\ st[r] = "loaded"
  /\ total' = total + 1
  /\ Move(r, "slot")
  /\ UNCHANGED <<now, ip, stamps, misses, silent, log>>

\* Mutant: a minute-old stamp is forgotten one unit early.
FreshEarly(a) == {s \in stamps[a] : s[2] > now - Window + 1}

\* The stamps of an address that retain keeps.
Fresh(a) == {s \in stamps[a] : s[2] > now - Window}

\* Mutant: the slot of a rate-limited request is not given back.
RateLimitKeepsSlot(r) ==
  LET a == ip[r] IN
  /\ st[r] = "slot"
  /\ IF Cardinality(Fresh(a)) >= Limit
       THEN /\ stamps' = [stamps EXCEPT ![a] = Fresh(a)]
            /\ Move(r, "done")
            /\ UNCHANGED log
       ELSE /\ stamps' = [stamps EXCEPT ![a] = Fresh(a) \cup {<<r, now>>}]
            /\ Move(r, "upgrade")
            /\ log' = log \cup {<<r, a, now>>}
  /\ UNCHANGED <<now, total, ip, misses, silent>>

\* check_ws_rate_limit, under its mutex; a refusal releases the slot.
RateLimit(r) ==
  LET a == ip[r] IN
  /\ st[r] = "slot"
  /\ IF Cardinality(Fresh(a)) >= Limit
       THEN /\ stamps' = [stamps EXCEPT ![a] = Fresh(a)]
            /\ total' = total - 1
            /\ Move(r, "done")
            /\ UNCHANGED log
       ELSE /\ stamps' = [stamps EXCEPT ![a] = Fresh(a) \cup {<<r, now>>}]
            /\ Move(r, "upgrade")
            /\ log' = log \cup {<<r, a, now>>}
            /\ UNCHANGED total
  /\ UNCHANGED <<now, ip, misses, silent>>

\* on_upgrade succeeds and handle_socket starts; the first tick of its ping
\* interval is due at once.
Upgrade(r) ==
  /\ st[r] = "upgrade"
  /\ Move(r, "open")
  /\ UNCHANGED <<now, total, ip, stamps, misses, silent, log>>

\* The peer is gone before handle_socket runs: the handler is dropped at the
\* mutex, or the upgrade fails.  Nobody gives the slot back.
HangUpEarly(r) ==
  /\ st[r] \in {"slot", "upgrade"}
  /\ Move(r, "lost")
  /\ UNCHANGED <<now, total, ip, stamps, misses, silent, log>>

-----------------------------------------------------------------------------
(* handle_socket                                                           *)

\* Leaving the loop: cleanup by role (module Registry), then the slot.
Close(r) ==
  /\ total' = total - 1
  /\ Move(r, "done")

\* Mutant: the counter is only ever reset, never compared.
PingForever(r) ==
  /\ st[r] = "open"
  /\ misses' = [misses EXCEPT ![r] = IF @ = MaxMisses THEN @ ELSE @ + 1]
  /\ UNCHANGED <<now, total, st, ip, stamps, silent, log>>

\* The ping interval: count, give up beyond MaxMisses, otherwise send a ping.
Ping(r) ==
  /\ st[r] = "open"
  /\ IF misses[r] + 1 > MaxMisses
       THEN Close(r) /\ UNCHANGED misses
       ELSE misses' = [misses EXCEPT ![r] = @ + 1] /\ UNCHANGED <<st, total>>
  /\ UNCHANGED <<now, ip, stamps, silent, log>>

\* Any inbound frame counts as liveness.
Frame(r) ==
  /\ st[r] = "open" /\ r \notin silent
  /\ misses' = [misses EXCEPT ![r] = 0]
  /\ UNCHANGED <<now, total, st, ip, stamps, silent, log>>

\* Close frame, end of stream or socket error.
Hangup(r) ==
  /\ st[r] = "open" /\ r \notin silent
  /\ Close(r)
  /\ UNCHANGED <<now, ip, stamps, misses, silent, log>>

\* The network path dies without a word.
FallSilent(r) ==
  /\ st[r] = "open" /\ r \notin silent
  /\ silent' = silent \cup {r}
  /\ UNCHANGED <<now, total, st, ip, stamps, misses, log>>

Next ==
  \/ Tick
  \/ \E r \in Req : \/ Load(r) \/ Acquire(r) \/ RateLimit(r) \/ Upgrade(r)
                    \/ HangUpEarly(r) \/ Ping(r) \/ Frame(r) \/ Hangup(r)
                    \/ FallSilent(r)

Spec == Init /\ [][Next]_vars

\* The ping interval of an open connection keeps firing (tokio's timer).
FairSpec == Spec /\ \A r \in Req : WF_vars(Ping(r))

-----------------------------------------------------------------------------
(* Properties                                                              *)

\* The counter is exactly the number of slots taken: each is released at most
\* once, on every refusal and at the end of every connection; only requests
\* lost before handle_socket keep theirs.
SlotsAccounted == total = Count(Holding)

\* Load and add are not one step, so the limit can be passed, but only by the
\* tasks that can sit between the two at the same time.
OvershootBounded == total + Count({"loaded"}) <= MaxTotal + Workers - 1

\* No address gets more than Limit connections accepted within any window of
\* one minute, wherever the window starts.
RateLimited ==
  \A a \in Ip, t \in 0..MaxTime :
    Cardinality({e \in log : e[2] = a /\ e[3] > t - Window /\ e[3] <= t}) <= Limit

\* A peer that has fallen silent is disconnected and its slot released.
SilentDropped == \A r \in Req : r \in silent ~> st[r] = "done"

=============================================================================
