# Verification of the command-center relay

The relay (Rust, `src/src/*.rs`) connects one desktop program per account with
the clients (phones, browser tabs) that watch and steer its terminal sessions.
Most of its logic is in two files: `broker.rs` (per-account state and routing)
and `server.rs` (one handler task and one writer task per WebSocket); around them
are the database, login, web push and the binary frames. This project models
that logic in TLA+, checks it with TLC on small instances and proves its safety
properties with TLAPS for all instances.

Contents: 1 Inventory, 2 How the code runs and how it is modelled, 3 Modules,
4 Runs, 5 Fairness, 6 Proofs, 7 What the checks found, 8 What is not modelled,
9 Plan.

## 1 Inventory

| Component | State | Operations | Hard behaviour | Correct when |
|---|---|---|---|---|
| Connection registry (`broker.rs` 257-515, `server.rs` 298-422, 529-564, 1182-1309) | `desktop_tx`, `desktop_capabilities`, `clients`; role of each handler | register/unregister desktop, client, device; status broadcast and replay | late cleanup of an evicted desktop, two sockets on one device, roles that change under a handler, full table | last desktop stays, statuses are true, no client drops out of the fan-out |
| Device approval (`server.rs` 1311-1427, 1057-1179, `device.rs`) | `pending_devices`, rows of `devices`, issued tokens | add/take pending, approve, reject, revoke | prompt sent before the device is listed, desktop reconnects, client leaves while it waits | a waiting device gets an answer; the table holds live sockets |
| Outbound path (`broker.rs` 9-97, 908-960, `server.rs` 306-331) | `queued`, `dirty`, `last_resync`, the channel | `send`, `send_output`, `nudge_resync`, `clear_dirty`, the writer | relaxed atomics of several tasks, rate-limited nudge | exact accounting, no unmarked hole in a stream, convergence |
| Scrollback replay (`broker.rs` 517-566, `server.rs` 816-831, 929-959, 1517-1545) | `replay_queue`, `replay_target` | note, forward, begin, frame, end, four cleanups | note and forward are two calls; stale desktops answer too; queue overflow | bursts end, reach requesters, every request is answered |
| Admission and heartbeat (`broker.rs` 324-342, `server.rs` 58-72, 236-265, 345-422) | `total_connections`, `ws_rate_limits`, `ping_misses` | acquire, rate-limit, upgrade, ping, release | load and add are separate; peers vanish at any stage | slots accounted for, limits bounded, silent peers dropped |
| File uploads and bug reports (`broker.rs` 134-151, 588-728, `server.rs` 579-742, 1443-1489, 1547-1607) | `uploads` with owner, budget, buffer | begin, mark, chunk, take, finish, resolve, idle collection | several calls per handler, ids shared by connections, retries, timeouts | limits hold, reports whole and taken once, no silent end |
| File downloads (`broker.rs` 153-168, 730-824, `server.rs` 744-814, 1490-1516) | `downloads` with owner, declared size, bytes | register, begin, chunk, resolve, idle collection | the desktop does not know what the relay gave up; a request may name an id that is in use | limits hold, a stream reaches who asked for it, no silent end |
| Supervisor queries (`broker.rs` 170-208, 826-906, `server.rs` 841-906) | `supervisor_pending` with owner, stored reply, age | query (three calls), resolve, collection | retries on new connections, replies to dead sockets, desktop restarts | no reply lost in the relay, retries get through |
| Authentication, login limiter (`auth.rs`, `server.rs` 1187-1427) | `rate_limits`, JWT secret, role of the socket | key, token, password and TOTP branches, record failure, lock, clear | check before, count after an awaited bcrypt; sockets that log in again as somebody else | accounts stay apart, bounded number of guesses, locks run out |
| Message forwarding (`server.rs` 565-578, 907-940, 1429-1545) | none | forward by role and account | tables outlive roles | only sockets that proved an account hear it |
| Web push (`push.rs`, `server.rs` 961-1045) | `push_subscriptions` table, VAPID key | subscribe, unsubscribe, fan-out with pruning | prune after an HTTP round trip, by device | a renewed subscription survives |
| Database (`db.rs`, `device.rs`), command line (`main.rs`) | `accounts`, `devices`, `push_subscriptions`, `config`, `bug_reports` | one SQL call at a time behind a mutex; `user add`, `user remove` in another process | crash and restart between any two calls, cascades under open sockets | no orphans, tokens and subscriptions outlive a restart, revoked devices are not served |
| Bug-report persistence and HTTP API (`server.rs` 121-234, 1547-1607) | files and rows | write file, insert row, list, deliver | file and row are two steps that may each fail | what is listed can be delivered, to its account only |
| Wire protocol (`protocol.rs`) | none | fixed-offset binary frames, serde derives | identifiers shorter, longer or cut | parse inverts build |
| Audit log (`audit.rs`) | append-only table | single inserts, errors swallowed | - | - |

Interaction: a handler reads one message at a time from its socket, calls the
broker (each call takes the accounts `RwLock` once), and puts messages into the
unbounded channels of other connections; their writer tasks drain them. There
are no callbacks and no shared state besides the broker, the SQLite database,
the rate-limit maps and the atomics of `ConnTx`. Nothing but the database and the
screenshot files survives a restart. For the broker's tables crash recovery is
therefore the recovery of its peers (they reconnect), modelled as disconnects
and new connections; what the next process makes of the database is `Accounts`.

The hazards (what a test would hardly reach) are listed line by line in
`PROJECT.json`, each with the properties aimed at it.

## 2 How the code runs, and how it is modelled

* **One action per broker call.** Handlers are tokio tasks on several threads.
  Between two `.await`s on the broker's lock anything may happen, within a call
  nothing. So an action is one broker call plus the synchronous code around it;
  a handler that makes several calls has a `pc` (and the id it works on in
  `arg`), and reads no message before it has returned to its loop.
* **Atomics are finer.** `queued`, `dirty` and `total_connections` are touched
  outside the lock. In OutputFlow and Admission every load, store, add and
  subtract is its own step.
* **One account** in the modules of the broker's tables: every table is per
  account and no operation touches two. That this separation holds, with sockets
  that log in to several accounts, is `Gateway`'s subject; `Accounts` has several
  accounts too.
* **Time** is abstracted to "too long has passed" (`GoIdle`, `Age`, `Elapse`)
  and may pass at any moment; Admission has a numeric clock, because the sliding
  window is about time, and Limiter counts the ticks of a lock.
* **Crash** in `Accounts` is the end of the process at any point. Committed
  transactions stay, as WAL guarantees for a process; the loss of the last ones
  in a power failure (`synchronous=NORMAL`) is not modelled.
* **Data.** Devices, ids, sockets and capability lists are model values; a
  message or a chunk has one unit of size; replies exist or do not.
* **Programs outside the repository** (desktop, client) are modelled from the
  messages the handlers accept, as freely as the property allows; each module's
  header says how.
* **History variables** record what somebody was sent or has lost. No action
  of the relay reads one (`waiting` of Supervisor also steers the client
  program, which knows what it waits for).
* **Exceptions are named.** Where the code has a case in which a property fails,
  a history variable records exactly that case (`turned`, `cut`, `lost`,
  `ousted`, `reused`, `overlap`, `readmitted`, `outrun`...), the model takes the
  steps that lead to it, and the property says that there is no other. Section 7
  lists the cases.

## 3 Modules

| Module | Models | State ↔ code |
|---|---|---|
| `Registry` | handlers of auth, desktop_register, device_* and disconnect over the registration tables | `desktopTx`, `desktopCaps`, `clients`, `pending` are the `AccountState` fields; `kind`/`dev` the `ConnectionRole`; `devices`, `tokens` the database and issued JWTs; `prompts` the `device_pending` messages a desktop has not answered |
| `Presence` | the abstract registry: one desktop, a bounded set of members, every change announced in the step that makes it | `live`, `desktop`, `caps`, `members`, `told`; `Registry` instantiates it with open sockets, `desktopTx`, `desktopCaps`, the sockets in `clients`, `status` |
| `Transfer` | the abstract transfer service: a bounded number of slots, each of one connection until it is free again, bounded bytes through it, an answer to who waits | `live`, `owner`, `passed`, `stale`, `waits`, `vain`; `Uploads` and `Downloads` instantiate it with open connections, owner and bytes of their entries (`Owner`, `Passed`), the entries that may be given up (`Stale`), the clients that wait, and those of them whose entry was given up or taken. `Exclusive` says whether an id in use is refused (uploads) or taken from its owner (downloads) |
| `RegistryProofs` | theorems about `Registry`, among them that it implements `Presence` | |
| `OutputFlow` | the `ConnTx` of one client: senders, nudge tasks, writer, the client's list request | `queued`, `dirty`, `last`, `chan` are its fields; `pc` is the place inside `send`/`send_output`; `asks` a list request waiting for the write lock |
| `OutputFlowProofs` | theorems about `OutputFlow` and `Replay` | |
| `Replay` | list requests, replay bursts and their routing | `queue`, `target`, `clients`, `desktopTx`; `noted` a client's handler between note and forward, `sending` a desktop's between the look at the target and the broadcast; `inbox`, `burst` the desktop programs |
| `Admission` | `ws_handler`, rate limiter, ping clock, slot release | `total`, `stamps`, `misses`; `st` how far a request has come |
| `Uploads` | governed uploads and bug reports | `uploads`; `open` the connections (clients and desktop choose ids from one set), `pc`, `arg` the handlers; `told` what the desktop still works on |
| `Downloads` | governed downloads | `downloads`; `pc` the request a handler is about to forward; `streams` what a desktop (or a stale one) still streams, and for whom |
| `Supervisor` | supervisor queries and parked replies | `sup` is `supervisor_pending`; `asked` what the present desktop was sent |
| `Limiter` | `check_rate_limit`, `record_failure`, `clear_rate_limit` and the clock of the locks | `failures`, `lock` are a `RateLimitEntry`; `judged`, `allow` are history |
| `Gateway` | `Limiter` with every branch of `handle_auth`, roles, approval, revocation and forwarding for several accounts | `role` is the `ConnectionRole`; `desktop`, `clients`, `pending` the tables of each account reduced to sockets; `auth[c]` the login between check and verdict |
| `Wire` | `parse_binary_frame`, `build_binary_frame` as operators over symbolic bytes | none |
| `Accounts` | database, screenshot files, tokens, keys, web push, HTTP API, command line, crash and restart | `accounts`, `row`, `subs`, `config`, `reports` are the tables; `loaded`, `open`, `role`, `clients`, `pending`, `fanout`, `filing` the process; `login`, `enrol`, `approving`, `revoking` its handlers between two calls; `tokens`, `alive` the outside |
| `AdmissionProofs`, `UploadsProofs`, `DownloadsProofs`, `SupervisorProofs`, `AccountsProofs` | theorems about the module each is named after | |
| `GatewayProofs` | theorems about `Gateway` with `Limiter`, and about `Wire` | |
| `MC*` | instances for TLC (symmetry where only safety is checked) | |

Composition: `Gateway` extends `Limiter` and `Wire`; `Registry` is an
implementation of `Presence`, `Uploads` and `Downloads` are two of `Transfer`. Each module is complete for the tables it owns:
every operation of the code that reads or writes them is an action. Where a
table is influenced by another component, the influence is an action of the
module too (a desktop that comes and goes, a client that disconnects or is
revoked), more freely ordered than the component itself would allow.
`Registry`'s constant `Disciplined` distinguishes peers that log in once per
socket (TRUE) from every order of messages the relay accepts (FALSE). It is TRUE
only in the two runs that show a violation, so that their traces need no
unusual peer; everything that holds is checked and proved without it.
Definitions named as mutants in a comment are deliberate bugs, each used to
confirm that one property can fail; no specification refers to them.

## 4 Runs

| Run | Checks | Bounds and why they are enough |
|---|---|---|
| `registry` | `ClientTable`, `StatusAgrees`, `LatestDesktopStays`, `FanOutComplete`, `OnlineDesktopIsConnected`, `ImplementsPresence` | 3 sockets that log in, and log in again, at will (two desktops and a client, or three clients that overfill the table), 1 device (two tabs of it tell device-keyed from connection-keyed code), 2 capability lists, table of 2; 263,000 states |
| `registry_zombie_client` | `ClientsConnected` is violated | 2 sockets, 1 device |
| `registry_unasked` | `PendingIsAsked` is violated | 2 sockets, 1 device |
| `output_flow` | `Accounting`, `NoSilentGap`, `OutputBounded`, `NudgedConverges` | 2 senders (the desktop and one it evicted), budget 1, queue bound 2, 2 nudge tasks: both senders can pass the budget check together and a nudge can meet another within the interval |
| `output_flow_suppressed` | `DirtyConverges` is violated | 1 sender |
| `replay` | `ReplayTypeOK`, `BurstsEnd`, `RequesterOnly`, `Answered` | 2 clients, 2 desktop sockets, queue bound 1, 3 requests: overflow, two simultaneous bursts, a requester or a bursting desktop leaving in each phase; 390,000 states. `WithoutSelects` also evaluates `Without`, the removal from the queue, against its definition by filtering for queues up to length 3 |
| `admission` | `SlotsAccounted`, `OvershootBounded`, `RateLimited`, `SilentDropped` | 3 requests, 2 addresses, 2 threads, limit 1, window 2, clock to 3: the limit is overshot, windows slide across their edge |
| `uploads` | `Governed`, `ReportWhole`, `ReportOnce`, `NoSilentEnd`, `ImplementsTransfer` | a client and the desktop sharing 3 ids, 2 slots, maximum 2, reports up to 1; declared sizes 1 and 3 lie within both limits and beyond both. `Bounds`: at a time one upload has lost its entry and was not begun again, and one entry is past its begin. More clients, and no such bounds, are for the theorems |
| `downloads` | `Governed`, `Solicited`, `NoSilentEnd`, `ImplementsTransfer` | 2 clients, 3 ids, 2 slots, maximum 1, declared size 0: a stream is severed by its first byte once it was declared, by its second otherwise, and it may have passed bytes before its begin. `Bounds`: at a time one request has lost its entry and was not repeated, and two streams run; one id is ever requested while in use. The theorems have no such bounds |
| `supervisor` | `TypeOK`, `ParkedOwnerGone`, `ReplyAccounted`, `RetryReachesDesktop` | 2 connections (old and new one of a client), 2 ids competing for a table of 1 |
| `gateway` | `Isolated`, `GuessesBounded`, `FramesRoundTrip`, `LockRunsOut` | 2 sockets, 2 accounts, limit 2, locks of 1 tick, wrong guesses on one account: both sockets can pass the check together, be desktop and client of either account, and change sides. Frames: slot of 2, identifiers to 4, payloads to 2 |
| `accounts` | `NoOrphans`, `KeysSurvive`, `RevokedNotServed`, `RenewalSurvives`, `ReportsServed` | 2 accounts, 1 device, 2 sockets (two tabs), table of 2, 2 endpoints (an old and a renewed one), 2 files, 2 reports, lists of 1 (the cap bites). `Apart`: at most one of three things is under way, two sockets at a time, bug reports, and endpoints dropped by their service; they touch different tables, and the theorems have no such bound. The refusal by a full client table happens in `registry` |

What the properties mean:

* Registry. `StatusAgrees`: the last `desktop_status` sent to a client in the
  table is true of the account, whichever of broadcast and replay came first; a
  socket whose device was revoked is out of the table and hears nothing more. `LatestDesktopStays`:
  the cleanup of an evicted desktop never removes its successor.
  `FanOutComplete`: a socket with a Client role is in the table unless the full
  table or a revocation explains why not. `OnlineDesktopIsConnected`: the desktop
  that counts as online has an open socket, unless that very socket authenticated
  again while it was registered and became a client (`turned`), whose cleanup is
  then a client's. `DesktopChangeIsAnnounced` (proved): a desktop
  changes only by replacement or by its own end, with every client told in the
  same step. `ImplementsPresence`: the registry as a whole, with its handlers
  interleaved call by call, looks to its members like `Presence`.
* OutputFlow. `Accounting`: `queued` equals what is counted and not given back.
  `NoSilentGap`: after a dropped frame nothing of that desktop is sent until the
  client asks for a list. `OutputBounded`: the budget is overshot by at most one
  frame per other sender. `NudgedConverges`: a dirty period with a
  nudge under way ends.
* Replay. `BurstsEnd`: replay frames are closed by a list, unless a burst is still
  running or a desktop went away in the middle of one: of the burst that sent the
  frames or of one that overlapped it, since there is one target for all (`cut`). `RequesterOnly`: replays reach requesters only, as long as
  nothing put queue and requests out of step. `Answered`: the broadcast fallback
  makes up for lost queue entries.
* Admission. `SlotsAccounted`, `OvershootBounded`, `RateLimited` (for every
  window, not only those the code computes), `SilentDropped`.
* Uploads, Downloads. `Governed`: slot and byte limits hold and no slot belongs
  to a closed connection. `ReportWhole`, `ReportOnce`: a report on file is exactly
  what its owner sent (an action property: it is about the moment the buffer is
  handed to `persist_bug_report`), and is taken once. `Solicited`: a stream
  belongs to the client that asked for it, and its messages go to that client
  while it waits or to nobody, for every id that was not requested while it was
  in use (`reused`); the relay does not look at who asked, only at the id.
  `NoSilentEnd`: a waiting client has an entry through which its result will find
  it. Two ends are silent: the entry was idle too long (`lost`), or another
  connection removed or replaced it under the same id (`ousted`).
  `ImplementsTransfer`: call by call, both tables are the service `Transfer`. A
  slot is granted only when one is free, in uploads only when the id is free too,
  keeps its owner and its count while it is held, and is given back in three ways
  only: with an answer to its owner, with the end of its owner's connection, or
  as stale. Stale is what was idle too long; in uploads also an id that another
  connection's handler is about to clear with `resolve_upload`, which does not
  look at the owner. In downloads a request may take an id from its owner, who
  then waits in vain.
* Supervisor. `ParkedOwnerGone`: a reply is parked only for a closed connection.
  `ReplyAccounted`: an entry goes only with its reply handed over or after the
  collection interval. `RetryReachesDesktop`: a client that keeps asking is not
  starved by entries that wait for a desktop that is gone.
* Gateway. `Isolated`: whoever speaks for an account, is its desktop or sits in
  its table has proved it, and no message of an account ever went to another
  socket. `GuessesBounded`: between a success or the end of a lock and the next
  lock, at most the limit's guesses plus one for every other socket are judged.
  `LockRunsOut`: while a lock holds, only logins that passed the check before it
  was set can restart it, and these only become fewer. `FramesRoundTrip`: a frame
  comes back from the parser with its parts, save an identifier that does not
  fill the slot; it is about operators and is evaluated
  wherever a socket is open.
* Accounts. `NoOrphans`: foreign keys hold against open sockets of removed
  devices and the command line. `KeysSurvive`: after any crash and restart, tokens
  and subscriptions match the loaded keys. `RevokedNotServed`: after a
  revocation or a rejection no socket of the device is in the fan-out, save a
  token login that ran at the same time (`overlap`) and a device that was revoked
  before its approval had ended (`readmitted`); a rejected device never gets in. `RenewalSurvives`: the endpoint a device subscribed with last is on file
  while its service accepts it, save a renewal during a fan-out that held the old
  one. `ReportsServed`: a token sees its account's reports only, and every
  screenshot listed can be delivered.

Bounds of the models (the code has none): `Device` (ids that can be minted),
`MaxQueued`, `MaxNudges`, `MaxRequests`, `MaxTime`, `Sizes`, `Guessed` (accounts
guessed at), `MaxReports`, `MaxPayload`, one push fan-out and one report being
filed at a time; `IdLen` is 36 in the code. `Accounts` further takes it that a
desktop revokes devices of its own account, the only ones whose ids it is told.
Deadlock checking is off where the system may really stop: in Registry, Replay
and Gateway sockets are used once, and in Replay and Admission requests run out.

## 5 Fairness

* `OutputFlow`: weak fairness of the steps of a started send, of spawned nudge
  tasks, of the writer (the tokio scheduler runs ready tasks; the client reads
  its socket), of time, of the client's answer to `resync_required`, and of the
  list request waiting for the lock (tokio's `RwLock` is fair, first in first
  out, so the request is not overtaken by later broadcasts). No sender has to
  send and the client never has to refresh by itself.
* `Replay`: a handler that noted a request forwards it, and one that found no
  target broadcasts (weak fairness: the handler waits for nothing else); an open
  desktop begins a burst for each request it has (weak) and ends it with a list.
  The last is strong fairness of `EndReplay`: frames of the same burst keep its
  handler busy in between, but a burst has finitely many. The last two are about
  the desktop program.
* `Admission`: the 30 s ping interval of an open connection keeps firing.
* `Supervisor`: handlers run on, time passes, and a client that waits asks
  again. The last is strong fairness: two ids compete for the same handler, and
  weak fairness would allow one of them never to be picked. Nothing is assumed
  of the desktop.

Registry, Uploads, Downloads, Gateway and Accounts are checked for safety only.

## 6 Proofs

Every invariant, action property and refinement that a run checks is also a
theorem; the type invariants of the larger models are theorems only. The theorems hold for every value of the constants that
satisfies the named assumption of the module that declares them: any sockets,
devices, accounts and ids, any limits. Finiteness is assumed only of the senders
of one connection (`FlowAssumption`) and of the sockets that log in
(`GatewayAssumption`), because `OutputBounded` and `GuessesBounded` count them;
elsewhere the tables are shown to stay finite, since a bound on the cardinality of
a table says nothing otherwise. The remaining parts of the assumptions say that
limits are numbers and that `None` is not an entry.

Each proof has the same shape: an inductive invariant, a lemma that every step
keeps it with one step per action, and the theorem. Below, what the
invariant adds to the property and why it has to.

`RegistryProofs`
* `TypeCorrect`: `TypeOK`, from one step per action (`TypeStep`).
* `StepKinds` sorts the fourteen actions into five kinds (quiet, a registration,
  a desktop registration, a revocation, a disconnect). The invariants below need
  one proof step per kind.
* `StatusTruthful`: `StatusAgrees`. Not inductive as it stands: a socket that
  registers while no desktop is there keeps its old status. `StatusInv` adds that
  an unregistered socket was told nothing.
* `LastWriterWins`: `LatestDesktopStays`, with `LatestInv` (a socket that was
  never accepted has no role).
* `NoSilentDrop`: the action property `DesktopChangeIsAnnounced`.
* `DesktopPresence`: `OnlineDesktopIsConnected`, with `PresenceInv`: the registered
  desktop has the Desktop role, so its own cleanup is the desktop's, or its socket
  has `turned`. A second login on the desktop's own socket is the only way to
  leave a dead desktop behind; nothing is assumed of the peers.
* `FanOutHolds`: `FanOutComplete`, with `FanOutInv`: a Client role is missing from
  the table only between its assignment and the awaited `register_client`.
* `TableBounded`: `ClientTable`, with the finiteness of the table (`TableKept`).
* `PresenceImplemented`: `Spec => ImplementsPresence`. `SocketSteps` says which
  actions open and close sockets, `RegistersJoins` that `register_client` is a
  `Join` (the table's bound on entries is a bound on sockets because there is one
  entry per socket), and `PresenceStep` maps each of the five kinds of step to one
  of `Presence` or to a stutter. It uses `TypeOK` and `TableInv` (one entry per
  socket, finitely many), and needs no discipline of the peers.

`OutputFlowProofs`
* `AccountingExact`, `TypeCorrect`: `TypeOK /\ Accounting` (`AccountInv`) by one
  case per action; `EnterPushing` and `LeavePushing` say how the number of messages
  in hand changes. Together with the types it implies that the unsigned counter
  never wraps, although adds and subtracts come from different tasks.
* `NoUnmarkedGap`: `NoSilentGap`, with `GapInv`: a sender with a drop behind it is
  not between the flag's load and the channel with an output frame. The argument
  rests on the lock: `clear_dirty` waits for broadcasts that have started.
* `NudgesKept`: the action property `NudgeKept`, the safety half of
  `NudgedConverges`: a nudge that got past the rate limit is never dropped on
  its way. Task, channel, writer, client and list request hand it on to each
  other, and the proof names for every action that lets go of it the one that
  holds it next (`NudgeStep`). That every holder moves on is fairness.
* `LiveOutputBounded`: `OutputBounded`. The frames in the channel alone are not
  inductive: `BoundInv` counts every frame from the moment its sender has passed
  the budget check. A sender passes it only when `queued`, which by
  `Accounting` covers the frames in the channel, is below the budget; the others
  that may be past it are at most the other senders.
* `Replay` takes part in this module: the list request of `OutputFlow` that ends
  a dirty period is the request `Replay` queues, and both proofs count the
  positions of an element in a queue (`PositionsFinite`, `PositionsGrow`,
  `PositionsShrink`). `Replay`'s formulas are called `ReplaySpec` and so on for
  that reason.
* `ReplayTypeCorrect`: `ReplayTypeOK`, with the bound on the queue. A leaving
  client is taken out of the middle of the queue (`Without`). The result is
  described by rank, the k-th position kept, rather than by recursion over the
  queue, so `KeptRanked` and `WithoutShrinks` need no induction: ranks are
  different for different positions, hence as many as the positions kept.
* `ReplaysEnd`: `BurstsEnd`, with `BurstInv`: while at most one desktop runs
  a burst, only the target can have frames whose list has not come; a burst that
  another one overlaps loses its target with the first list, so the last list
  goes to everybody. While there is a target some bursting handler is not about
  to broadcast, so no frame slips in after the list. The argument fails when a
  desktop leaves in mid-burst after taking the target; from then until all
  overlapping bursts have ended (`torn`) whoever gets frames is in `cut`.
* `ReplaysOnlyToRequesters`: `RequesterOnly`, with `InStep`: while undisturbed,
  only the registered desktop has requests, the queue has an entry for each of
  them and for each request noted and not yet forwarded, and every client has
  asked at least as often as it is in the queue, once more if it is the target.

`AdmissionProofs`
* `TypeCorrect`, `SlotsAlwaysAccounted`, `OvershootAlwaysBounded`: `TypeOK`,
  `SlotsAccounted`, `OvershootBounded` by one invariant, `SlotInv`. It adds that
  finitely many requests have begun (their set may be infinite) and that no more
  tasks are between the load and the add than there are threads: a task that has
  loaded the counter holds a thread until it adds. That the counter never wraps
  is part of `TypeOK` and follows from the accounting.
* `RatesLimited`: `RateLimited` for every window, with `RateInv`: each acceptance
  within the current window still has its stamp, since `retain` drops only stamps
  that no later window can contain.

`UploadsProofs`, `DownloadsProofs`
* `UploadsGoverned`, `DownloadsGoverned`: `Governed`; `EndsAreTold`: `NoSilentEnd`.
  `Sound` ties the table to the open connections, the clients that wait and those
  whose entry is gone (`Gone`, the union of `lost` and `ousted`); lemmas say that
  collecting, removing, updating and adding keep a table sound.
* `NothingUnsolicited`: `Solicited`, with `Routed`: for an id that was not reused
  the owner of the entry waits for it, and nobody else has a stream or a request
  on its way under that id. The second half is what makes an old stream harmless:
  `Request` can grant an id only to the client whose streams are left, or marks
  the id as reused.
* `ReportsWhole`, `ReportsOnce`: the action property `ReportWhole`, and
  `ReportOnce`. `Fresh` is about the handler suspended between `begin_upload` and
  `mark_bug_report_upload`: if it still owns the id, its upload has received
  nothing and nothing of it was taken. Without it the buffer could be created
  empty after the first chunk.
* `TypeCorrect` in both: the entries' types and the handlers' program counters.
* `TransferImplemented` in both: `Spec => ImplementsTransfer`, from the types and
  `Sound`. One lemma per kind of change maps it to a step of `Transfer`. Each
  call collects first: what it drops is the set S that any step of `Transfer`
  may give up, and it is stale because it was idle; `Gone` grows by just the
  owners that then wait in vain. What follows is a `Grant`,
  a `Pass`, an `End` (`Sound` says that the client answered is the owner) or, if
  the entry was already gone, an `Answer`. The abstract bound on slots is the
  cardinality of a subset of the table, which needs the table's finiteness.
  In Downloads (`Exclusive` is FALSE) a request under an id in use is a `Grant` that
  leaves the former owner in `vain`, and a second `file_download_begin` must be a
  `Collect` and nothing else: it neither resets the count nor moves the slot. In Uploads the handler of
  a refused upload still owes `resolve_upload`; by then its id may belong to
  somebody else, which is why the mapping makes it stale from the grant on.

`SupervisorProofs`
* `TypeCorrect`: `TypeOK` with the cap on the table, together with its finiteness.
* `ParkedOnlyForTheGone`: `ParkedOwnerGone`. `RepliesAccounted`: the action
  property `ReplyAccounted`, from `IInv` and what each call does to the table.

`GatewayProofs`
* `TypeCorrect`: `TypeOK`; the limiter's counter stops at the limit.
* `AccountsIsolated`: `Isolated`, with `IsoInv`. The pending tables have to be kept
  apart too, since an approval moves their sockets to the clients, and only
  an open socket judges a login, so a role is never assigned to a closed one.
* `GuessesStayBounded`: `GuessesBounded`, with `GuessInv`: without a lock the
  judged guesses are exactly the counted failures (or one is left after a lock
  ran out); with one, those judged and those in flight together stay within the
  allowance plus the sockets.
* `LocksRunOut`: the action property `LockRunsOut`.
* `FramesComeBack`: `FramesRoundTrip`, from `FormatInverts`: `Wire`'s `RoundTrip`
  for every slot length and payload bound. It needs
  no induction: a frame is described position by position (`Layout`), the
  slot's padding by where the identifier ends.

`AccountsProofs`
* `TypeCorrect`: `TypeOK`, with `Room`: a report being filed still has a row to go to.
* `WaitAlways` (a lemma): `WaitInv`, a device waits for its approval on one socket,
  and one that waits or was rejected has neither a token nor a place in the
  fan-out. So a rejection need not look into the client table, and a rejected
  device cannot log in later.
* `DatabaseHolds`: `NoOrphans`, with `Enrolled` (ids are minted once, so a revoked
  device never has a row again), which the proof of `RevokedStayOut` uses.
* `KeysAlwaysSurvive`: `KeysSurvive`, with `KeyInv`, which also says what holds while
  the process is down or halfway up: everything handed out was made with the
  stored key.
* `RevokedStayOut`: `RevokedNotServed`, with `ServeInv`, which also speaks of logins
  and revocations that are still under way: a socket whose device is revoked, or
  about to lose its row, is in the fan-out or on its way there only if it
  overlapped the revocation or was readmitted.
* `RenewalsSurvive`: `RenewalSurvives`, with `PushInv`: a fan-out holds the endpoint
  asked for last or has been outrun.
* `ReportsAlwaysServed`: `ReportsServed`, with `ShotInv`: a path is put into a row
  only after its file was written in full.

Only model-checked: the four liveness properties `NudgedConverges`, `Answered`,
`SilentDropped` and `RetryReachesDesktop`, because the prover handles neither
fairness nor ENABLED. Of the first, `NudgesKept` proves the part that is safety.

## 7 What the checks found

Three runs show the code doing something else than a comment says.

* `registry_zombie_client`: a socket that closes while its device is pending has
  no role, so nothing is cleaned up; the later approval registers the dead
  connection, which occupies one of the `MAX_CLIENTS` places until the device is
  revoked.
* `registry_unasked`: `device_pending` goes out before `add_pending_device`, so a
  quick answer is lost; and a desktop that reconnects is not asked again. Both
  leave a device waiting for ever.
* `output_flow_suppressed`: a nudge suppressed by the rate limit is never
  repeated; a client that falls behind twice within ten seconds gets no live
  output until it asks by itself.

Behaviour met while modelling that contradicts no documented promise, or is
bounded by a property that holds: a desktop socket that authenticates a second
time becomes a client and leaves a ghost desktop behind (`turned` of
`OnlineDesktopIsConnected`); an evicted desktop that still has requests to answer
pops the queue, takes the target and may close before its list, so that the list
of its successor goes to one client and another's replay stays open (`cut` of
`BurstsEnd`); a full client table answers a login with success and no output
(the `refused` of `FanOutComplete`); a burst whose queue entry was lost goes to
everybody (`disturbed` of `RequesterOnly`); the connection limit can be overshot
by the number of threads (`OvershootBounded`); a peer that hangs up before its
upgrade completes keeps its slot (stage `lost` of `SlotsAccounted`); a result
that comes after an upload was idle for a minute is dropped (`lost` of
`NoSilentEnd`); a report is answered with success although persisting it failed;
`resolve_upload` does not compare the owner, so the end of an upload under an id
that both ends use removes the other's entry without a word (`ousted` of
`NoSilentEnd`); `register_download` replaces an entry of the same id, whose owner
waits on (`ousted`) while its stream goes to the new one (`reused` of
`Solicited`); a supervisor query outlives the desktop it was
sent to, and its retries are re-owned as in-flight ones without being forwarded,
for up to 300 s (`RetryReachesDesktop` says it ends then); concurrent logins
exceed `MAX_FAILURES` by the number of sockets (`GuessesBounded`); a push fan-out
prunes by device, so a subscription renewed while its old endpoint is being
tried is deleted (`outrun` of `RenewalSurvives`); a token login during a
revocation leaves the device in the fan-out (`overlap` of `RevokedNotServed`), and
so does the approval of a device that was revoked while it was pending: its entry
in `pending_devices` survives the revocation, and the approval registers the
socket without a look at the row (`readmitted`); a
revoked socket keeps its role until it closes, and `user remove` does not
disconnect anybody; the desktop key and the bug reports of a removed account
stay and belong to an account created later under the same name; an identifier
that is not exactly 36 bytes long does not survive a binary frame, so chunks
under it match no entry; an error of `has_totp` counts as "no TOTP".

## 8 What is not modelled

* Cryptography (bcrypt, JWT, TOTP, AES-GCM, VAPID, push encryption) and its
  wording on the wire: beyond a model checker. A credential is right or wrong, a
  token names its account, device and key; the 24 hours of a token are left out
  (an expired one is a token nobody presents). A stored JWT secret that cannot
  be decoded is replaced by the code; the model never stores such a one.
* The JSON messages of `protocol.rs`: serde derives.
* Audit log (append-only, never read), account listing, health check: read-only.
* The message that graceful shutdown broadcasts, to the registered desktop and
  clients only; the end of the process itself is `Crash` and, for the peers, a
  disconnect.
* Loss of committed transactions by a power failure.
* Memory ordering weaker than interleaving of single operations: all shared
  atomics are accessed with read-modify-writes or by single loads whose staleness
  is one of the modelled interleavings.

## 9 Plan

Order of work: the registry first, because every other table hangs on its
connections; the outbound path second, since every message goes through it; then
the tables with several calls per handler; then login, forwarding, frames and
what survives a restart, then the abstract registry and the abstract transfer
service with the proofs that the detailed modules implement them. That is done,
and so are the proofs of the safety properties of every module (section 6). What
could be added:

1. Lemmas that relate components, such as that the slots of Admission bound the
   sockets of Registry.
2. An abstract specification of the supervisor queries in the manner of
   `Transfer`; `ReplyAccounted` states most of its content.
