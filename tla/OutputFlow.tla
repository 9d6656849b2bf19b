----------------------------- MODULE OutputFlow -----------------------------
(***************************************************************************)
(* The outbound path of one client connection: ConnTx (byte accounting,    *)
(* dirty flag, live-output budget), broadcast_to_clients with its resync   *)
(* nudge (broker.rs), the connection's writer task and the client's list   *)
(* request that ends a dirty period (server.rs).                           *)
(*                                                                         *)
(* queued and dirty are relaxed atomics shared by tasks on several         *)
(* threads, so each load, store and add is a step of its own.  Every       *)
(* message counts one unit.  A broadcast of live output runs under the     *)
(* broker's read lock and note_session_list_request under its write lock.  *)
(* tokio's RwLock is first in, first out: the list request waits for the   *)
(* broadcasts that have started, and later ones wait for it.  Control      *)
(* sends, the nudge task and the writer hold no lock.                      *)
(***************************************************************************)
EXTENDS Naturals, Sequences, FiniteSets

CONSTANTS
  Sender,      \* tasks that send to this connection: the handlers of the desktop
               \* and of an evicted desktop whose socket is still being read
  Budget,      \* CLIENT_OUTPUT_BUDGET_BYTES, in units
  MaxQueued,   \* bounds of the model: no send is started with this much queued
  MaxNudges    \* or with this many nudge tasks unfinished

ASSUME FlowAssumption ==
  /\ IsFiniteSet(Sender)
  /\ Budget \in Nat \ {0}
  /\ MaxQueued \in Nat /\ MaxQueued > Budget
  /\ MaxNudges \in Nat \ {0}

VARIABLES
  queued,   \* ConnTx.queued
  dirty,    \* ConnTx.dirty
  chan,     \* the unbounded mpsc channel
  pc, msg,  \* what each sender does next, and with which message
  spawned,  \* nudge tasks waiting for the last_resync mutex
  passed,   \* nudge tasks that got past it, about to count resync_required
  added,    \* nudge tasks that have counted it and are about to enqueue it
  last,     \* ConnTx.last_resync: "never", "recent" (within the minimum
            \* interval) or "old"
  wr, held, \* the writer task, and the message it has received
  owed,     \* the client has seen resync_required and not yet answered it
  asks,     \* a list request of the client waits for the write lock
  missed    \* history: senders with a frame dropped since the last list request

senders == <<pc, msg>>
nudge   == <<spawned, passed, added, last>>
writer  == <<wr, held>>
client  == <<owed, asks>>
vars    == <<queued, dirty, chan, senders, nudge, writer, client, missed>>

Message == {"out", "ctl", "resync"}

\* Type correctness; queued stays a natural number, that is, the unsigned
\* counter never wraps below zero.
TypeOK ==
  /\ queued \in Nat
  /\ dirty \in BOOLEAN
  /\ chan \in Seq(Message)
  /\ pc \in [Sender -> {"idle", "dirty", "budget", "mark", "add", "push"}]
  /\ msg \in [Sender -> {"out", "ctl"}]
  /\ spawned \in Nat /\ passed \in Nat /\ added \in Nat
  /\ last \in {"never", "recent", "old"}
  /\ wr \in {"recv", "sub", "send", "dead"}
  /\ held \in Message
  /\ owed \in BOOLEAN /\ asks \in BOOLEAN
  /\ missed \in SUBSET Sender

Init ==
  /\ queued = 0 /\ dirty = FALSE /\ chan = <<>>
  /\ pc = [s \in Sender |-> "idle"] /\ msg = [s \in Sender |-> "ctl"]
  /\ spawned = 0 /\ passed = 0 /\ added = 0 /\ last = "never"
  /\ wr = "recv" /\ held = "ctl"
  /\ owed = FALSE /\ asks = FALSE /\ missed = {}

Room == queued < MaxQueued /\ spawned + passed + added < MaxNudges

Goto(s, l) == pc' = [pc EXCEPT ![s] = l]

\* Into the channel, unless the receiver is gone (the error is ignored).
Enqueue(m) == chan' = IF wr = "dead" THEN chan ELSE Append(chan, m)

-----------------------------------------------------------------------------
(* Senders                                                                 *)

\* broadcast_to_clients reaches this connection with a PTY_OUTPUT frame.
BroadcastOutput(s) ==
  /\ pc[s] = "idle" /\ Room /\ ~asks
  /\ msg' = [msg EXCEPT ![s] = "out"]
  /\ Goto(s, "dirty")
  /\ UNCHANGED <<queued, dirty, chan, nudge, writer, client, missed>>

\* ConnTx::send of control traffic or replay frames: no policy.
SendControl(s) ==
  /\ pc[s] = "idle" /\ Room
  /\ msg' = [msg EXCEPT ![s] = "ctl"]
  /\ Goto(s, "add")
  /\ UNCHANGED <<queued, dirty, chan, nudge, writer, client, missed>>

\* Mutant: the dirty flag is not looked at.
LoadDirtyIgnored(s) ==
  /\ pc[s] = "dirty"
  /\ Goto(s, "budget")
  /\ UNCHANGED <<queued, dirty, chan, msg, nudge, writer, client, missed>>

LoadDirty(s) ==
  /\ pc[s] = "dirty"
  /\ IF dirty THEN Goto(s, "idle") /\ missed' = missed \cup {s}
              ELSE Goto(s, "budget") /\ UNCHANGED missed
  /\ UNCHANGED <<queued, dirty, chan, msg, nudge, writer, client>>

\* Mutant: the budget comparison lets one frame too many through.
LoadQueuedOneMore(s) ==
  /\ pc[s] = "budget"
  /\ Goto(s, IF queued > Budget THEN "mark" ELSE "add")
  /\ UNCHANGED <<queued, dirty, chan, msg, nudge, writer, client, missed>>

LoadQueued(s) ==
  /\ pc[s] = "budget"
  /\ Goto(s, IF queued + 1 > Budget THEN "mark" ELSE "add")
  /\ UNCHANGED <<queued, dirty, chan, msg, nudge, writer, client, missed>>

\* Store the flag; send_output returns true and nudge_resync spawns a task.
MarkDirty(s) ==
  /\ pc[s] = "mark"
  /\ dirty' = TRUE
  /\ missed' = missed \cup {s}
  /\ spawned' = spawned + 1
  /\ Goto(s, "idle")
  /\ UNCHANGED <<queued, chan, msg, passed, added, last, writer, client>>

\* ConnTx::send counts first ...
Add(s) ==
  /\ pc[s] = "add"
  /\ queued' = queued + 1
  /\ Goto(s, "push")
  /\ UNCHANGED <<dirty, chan, msg, nudge, writer, client, missed>>

\* ... and enqueues second.
Push(s) ==
  /\ pc[s] = "push"
  /\ Enqueue(msg[s])
  /\ Goto(s, "idle")
  /\ UNCHANGED <<queued, dirty, msg, nudge, writer, client, missed>>

-----------------------------------------------------------------------------
(* nudge_resync                                                            *)

\* Mutant: the nudge is sent only to a connection nudged before.
NudgeCheckNeverFirst ==
  /\ spawned > 0
  /\ spawned' = spawned - 1
  /\ IF last # "old" THEN UNCHANGED <<passed, last>>
     ELSE last' = "recent" /\ passed' = passed + 1
  /\ UNCHANGED <<queued, dirty, chan, senders, added, writer, client, missed>>

\* Under the last_resync mutex: give up if the last nudge is recent.
NudgeCheck ==
  /\ spawned > 0
  /\ spawned' = spawned - 1
  /\ IF last = "recent" THEN UNCHANGED <<passed, last>>
     ELSE last' = "recent" /\ passed' = passed + 1
  /\ UNCHANGED <<queued, dirty, chan, senders, added, writer, client, missed>>

NudgeAdd ==
  /\ passed > 0
  /\ passed' = passed - 1 /\ added' = added + 1
  /\ queued' = queued + 1
  /\ UNCHANGED <<dirty, chan, senders, spawned, last, writer, client, missed>>

NudgePush ==
  /\ added > 0
  /\ added' = added - 1
  /\ Enqueue("resync")
  /\ UNCHANGED <<queued, dirty, senders, spawned, passed, last, writer, client,
                 missed>>

\* RESYNC_MIN_INTERVAL_SECS pass.
Elapse ==
  /\ last = "recent"
  /\ last' = "old"
  /\ UNCHANGED <<queued, dirty, chan, senders, spawned, passed, added, writer,
                 client, missed>>

-----------------------------------------------------------------------------
(* The writer task and the client                                          *)

WriterRecv ==
  /\ wr = "recv" /\ chan # <<>>
  /\ held' = Head(chan) /\ chan' = Tail(chan)
  /\ wr' = "sub"
  /\ UNCHANGED <<queued, dirty, senders, nudge, client, missed>>

\* Mutant: bytes are given back only for control text, not for binary frames.
WriterSubTextOnly ==
  /\ wr = "sub"
  /\ queued' = IF held = "out" THEN queued ELSE queued - 1
  /\ wr' = "send"
  /\ UNCHANGED <<dirty, chan, senders, nudge, held, client, missed>>

WriterSub ==
  /\ wr = "sub"
  /\ queued' = queued - 1
  /\ wr' = "send"
  /\ UNCHANGED <<dirty, chan, senders, nudge, held, client, missed>>

\* The frame is out; a client that reads resync_required owes a list request.
WriterSend ==
  /\ wr = "send"
  /\ wr' = "recv"
  /\ owed' = (owed \/ held = "resync")
  /\ UNCHANGED <<queued, dirty, chan, senders, nudge, held, asks, missed>>

\* The writer ends (socket error, Close, abort) and drops the receiver.
WriterStop ==
  /\ wr # "dead"
  /\ wr' = "dead" /\ chan' = <<>>
  /\ UNCHANGED <<queued, dirty, senders, nudge, held, client, missed>>

\* The client answers resync_required with a list request.
AnswerResync ==
  /\ owed /\ ~asks
  /\ owed' = FALSE /\ asks' = TRUE
  /\ UNCHANGED <<queued, dirty, chan, senders, nudge, writer, missed>>

\* The client asks by itself (it opens a session list, the page reloads).
Refresh ==
  /\ ~asks
  /\ asks' = TRUE
  /\ UNCHANGED <<queued, dirty, chan, senders, nudge, writer, owed, missed>>

\* note_session_list_request: clear_dirty under the write lock, which no
\* broadcast holds.
ListRequest ==
  /\ asks
  /\ \A s \in Sender : pc[s] # "idle" => msg[s] # "out"
  /\ asks' = FALSE
  /\ dirty' = FALSE
  /\ missed' = {}
  /\ UNCHANGED <<queued, chan, senders, nudge, writer, owed>>

Steps(s) == LoadDirty(s) \/ LoadQueued(s) \/ MarkDirty(s) \/ Add(s) \/ Push(s)

Next ==
  \/ \E s \in Sender : BroadcastOutput(s) \/ SendControl(s) \/ Steps(s)
  \/ NudgeCheck \/ NudgeAdd \/ NudgePush \/ Elapse
  \/ WriterRecv \/ WriterSub \/ WriterSend \/ WriterStop
  \/ AnswerResync \/ Refresh \/ ListRequest

Spec == Init /\ [][Next]_vars

\* Started sends and spawned tasks run on (the tokio scheduler), time passes,
\* the socket of a reading client drains, and the client answers the nudge.
\* Nobody has to send, and the client never has to refresh by itself.
Fairness ==
  /\ \A s \in Sender : WF_vars(Steps(s))
  /\ WF_vars(NudgeCheck) /\ WF_vars(NudgeAdd) /\ WF_vars(NudgePush)
  /\ WF_vars(Elapse)
  /\ WF_vars(WriterRecv) /\ WF_vars(WriterSub) /\ WF_vars(WriterSend)
  /\ WF_vars(AnswerResync) /\ WF_vars(ListRequest)

FairSpec == Spec /\ Fairness

-----------------------------------------------------------------------------
(* Properties                                                              *)

\* Messages counted by ConnTx::send and not yet in the channel.
InHand == Cardinality({s \in Sender : pc[s] = "push"}) + added

\* queued is exactly what was counted and not yet given back by the writer,
\* at every point of the concurrent add / enqueue / receive / subtract: no
\* unit leaks (a leak would freeze the client's live output for good) and
\* none is given back twice.
Accounting ==
  wr # "dead" => queued = Len(chan) + InHand + (IF wr = "sub" THEN 1 ELSE 0)

\* No hole in a live stream goes unmarked: once a frame of a desktop was
\* dropped, the connection is dirty, and no later frame of that desktop gets
\* into the channel, until the client asks for a list.
NoSilentGap ==
  \A s \in missed : /\ dirty
                    /\ pc[s] \in {"add", "push"} => msg[s] # "out"

\* The budget check and the send are not one step, but each sender can only
\* overshoot by the frame it has in hand.
OutputBounded ==
  Cardinality({i \in DOMAIN chan : chan[i] = "out"})
    <= Budget + Cardinality(Sender) - 1

\* resync_required is on its way to the client, or will be.
NudgeUnderWay ==
  \/ spawned > 0 /\ last # "recent"
  \/ passed > 0 \/ added > 0 \/ owed \/ asks
  \/ wr \in {"sub", "send"} /\ held = "resync"
  \/ \E i \in DOMAIN chan : chan[i] = "resync"

\* A nudge is not dropped on its way, although it passes from task to channel
\* to writer to client and back: until the connection is clean or its writer
\* dead, it is always in one of these hands.
NudgeKept ==
  [][dirty /\ NudgeUnderWay => NudgeUnderWay' \/ ~dirty' \/ wr' = "dead"]_vars

\* A dirty connection with a nudge under way becomes clean again.
NudgedConverges == (dirty /\ NudgeUnderWay) ~> (~dirty \/ wr = "dead")

\* ConnTx: "one `resync_required` is sent (rate-limited), and the client
\* converges via a scrollback replay".  Every dirty period ends.
DirtyConverges == dirty ~> (~dirty \/ wr = "dead")

=============================================================================
