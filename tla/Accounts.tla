------------------------------ MODULE Accounts ------------------------------
(***************************************************************************)
(* What survives the process, and what the process makes of it: the        *)
(* database of db.rs (accounts, devices, push subscriptions, keys, bug     *)
(* reports) with its foreign keys, the screenshot files beside it, device  *)
(* tokens, the web push fan-out of push.rs, the bug-report HTTP API, the   *)
(* command line, crash and restart.                                        *)
(*                                                                         *)
(* The database's mutex makes one call atomic; whatever lies between two   *)
(* calls (a broker call, an HTTP round trip, a file that is written) is a  *)
(* step of its own.  The command line is a process of its own and works on *)
(* the same database, with the relay up or down.                           *)
(***************************************************************************)
EXTENDS Naturals, Sequences, FiniteSets

CONSTANTS
  User,         \* account names
  Device,       \* device ids that register_device can mint
  Conn,         \* sockets a client may have open
  Endpoint,     \* push endpoints that pass is_valid_push_endpoint
  File,         \* screenshot paths; each is a fresh UUID
  MaxClients,   \* MAX_CLIENTS, per account
  MaxReports,   \* bound of the model: rows of bug_reports
  ListLimit,    \* what clamp_limit makes of a request's limit
  None

ASSUME AccountsAssumption ==
  /\ MaxClients \in Nat /\ MaxReports \in Nat /\ ListLimit \in Nat \ {0}
  /\ None \notin User \cup Device \cup Endpoint \cup File
  /\ None \notin [endpoint : Endpoint, key : Nat]

VARIABLES
  \* the database and the disk
  accounts,     \* rows of accounts
  row,          \* devices: owner of each device, None if there is no row
  subs,         \* push_subscriptions: endpoint of each device, and the key it
                \* was made for
  config,       \* config: the stored "vapid" and "jwt" keys, 0 if there is none
  reports,      \* bug_reports: user and screenshot path, by row id
  files,        \* screenshots that are there in full
  \* the process
  phase,        \* "down", "push" (PushManager is there), "up"
  loaded,       \* keys in memory
  open,         \* sockets whose handler has not ended
  role,         \* user and device of each socket's Client role, or None
  login,        \* device of a socket between its row check and register_client
  enrol,        \* device of a socket between its row and add_pending_device
  pending,      \* AccountState.pending_devices as <<socket, device>>
  approving,    \* the one taken from it, until its register_client
  clients,      \* AccountState.clients as <<socket, device>>
  revoking,     \* device about to lose its row by a revocation or a rejection
  fanout,       \* send_to_user: <<device, endpoint>> still to be sent to
  filing,       \* persist_bug_report: the row to be inserted, or None
  \* the outside
  tokens,       \* device tokens handed out
  alive,        \* endpoints their push service still accepts
  \* history
  minted,       \* account each device was registered for, None before that
  made,         \* how many keys of each kind were generated
  want,         \* endpoint each device subscribed with last, and still wants
  outrun,       \* devices that renewed while a fan-out held their old endpoint
  rejected,     \* devices that were rejected
  revoked,      \* devices whose revocation or rejection is complete
  overlap,      \* <<socket, device>> whose login overlapped a revocation
  readmitted    \* <<socket, device>> that an approval registered after the
                \* device was revoked, or while it was, but never rejected

db      == <<accounts, row, subs, reports, files>>
keys    == <<config, loaded, made>>
waits   == <<enrol, pending, approving>>
sockets == <<open, role, login, waits, clients, revoking, rejected, revoked,
             overlap, readmitted>>
push    == <<fanout, want, outrun>>
vars    == <<db, keys, sockets, push, phase, filing, tokens, alive, minted>>

Key   == {"vapid", "jwt"}
Token == [device : Device, user : User, key : Nat]
Sub   == [endpoint : Endpoint, key : Nat]

\* Type correctness of every variable.
TypeOK ==
  /\ accounts \subseteq User
  /\ row \in [Device -> User \cup {None}]
  /\ subs \in [Device -> Sub \cup {None}]
  /\ config \in [Key -> Nat] /\ loaded \in [Key -> Nat] /\ made \in [Key -> Nat]
  /\ reports \in Seq([user : User, shot : File \cup {None}])
  /\ Len(reports) <= MaxReports
  /\ files \subseteq File
  /\ phase \in {"down", "push", "up"}
  /\ role \in [Conn -> [user : User, device : Device] \cup {None}]
  /\ open \subseteq Conn
  /\ login \in [Conn -> Device \cup {None}]
  /\ enrol \in [Conn -> Device \cup {None}]
  /\ pending \subseteq Conn \X Device /\ approving \subseteq Conn \X Device
  /\ clients \subseteq Conn \X Device
  /\ revoking \in Device \cup {None}
  /\ fanout \subseteq Device \X Endpoint
  /\ filing \in [user : User, shot : File \cup {None}] \cup {None}
  /\ tokens \subseteq Token
  /\ alive \subseteq Endpoint
  /\ minted \in [Device -> User \cup {None}]
  /\ rejected \subseteq Device /\ revoked \subseteq Device /\ outrun \subseteq Device
  /\ want \in [Device -> Endpoint \cup {None}]
  /\ overlap \subseteq Conn \X Device /\ readmitted \subseteq Conn \X Device

Init ==
  /\ accounts = {} /\ reports = <<>> /\ files = {}
  /\ minted = [d \in Device |-> None]
  /\ row = [d \in Device |-> None] /\ subs = [d \in Device |-> None]
  /\ config = [k \in Key |-> 0] /\ loaded = [k \in Key |-> 0]
  /\ made = [k \in Key |-> 0]
  /\ phase = "down"
  /\ open = {} /\ role = [c \in Conn |-> None]
  /\ login = [c \in Conn |-> None] /\ enrol = [c \in Conn |-> None]
  /\ pending = {} /\ approving = {}
  /\ clients = {} /\ revoking = None /\ fanout = {} /\ filing = None
  /\ tokens = {} /\ alive = Endpoint
  /\ want = [d \in Device |-> None]
  /\ outrun = {} /\ rejected = {} /\ revoked = {} /\ overlap = {} /\ readmitted = {}

Up == phase = "up"

\* The handler of socket c is in its loop.
Reads(c) == Up /\ c \in open /\ login[c] = None /\ enrol[c] = None

-----------------------------------------------------------------------------
(* The database                                                            *)

\* Rows of D go, and (ON DELETE CASCADE) their subscriptions with them.
DeleteDevices(D) ==
  /\ row' = [d \in Device |-> IF d \in D THEN None ELSE row[d]]
  /\ subs' = [d \in Device |-> IF d \in D THEN None ELSE subs[d]]
  /\ want' = [d \in Device |-> IF d \in D THEN None ELSE want[d]]

\* user add
UserAdd(u) ==
  /\ u \notin accounts
  /\ accounts' = accounts \cup {u}
  /\ UNCHANGED <<row, subs, reports, files, keys, sockets, push, phase, filing,
                 tokens, alive, minted>>

\* user remove: the account, its devices, their subscriptions.  Nobody tells
\* the relay, and bug reports name their account without referring to it.
UserRemove(u) ==
  /\ u \in accounts
  /\ accounts' = accounts \ {u}
  /\ DeleteDevices({d \in Device : row[d] = u})
  /\ UNCHANGED <<reports, files, keys, sockets, fanout, outrun, phase, filing,
                 tokens, alive, minted>>

-----------------------------------------------------------------------------
(* Start and crash                                                         *)

\* Mutant: a key that is generated is not stored.
LoadKeyUnsaved(k) ==
  IF config[k] # 0
    THEN loaded' = [loaded EXCEPT ![k] = config[k]] /\ UNCHANGED <<config, made>>
    ELSE /\ made' = [made EXCEPT ![k] = @ + 1]
         /\ loaded' = [loaded EXCEPT ![k] = made'[k]]
         /\ UNCHANGED config

\* The stored key, or a new one, stored before it is used.
LoadKey(k) ==
  IF config[k] # 0
    THEN loaded' = [loaded EXCEPT ![k] = config[k]] /\ UNCHANGED <<config, made>>
    ELSE /\ made' = [made EXCEPT ![k] = @ + 1]
         /\ config' = [config EXCEPT ![k] = made'[k]]
         /\ loaded' = [loaded EXCEPT ![k] = made'[k]]

\* serve: PushManager::init, then AuthManager::new, then the server runs.
StartPush ==
  /\ phase = "down"
  /\ LoadKey("vapid")
  /\ phase' = "push"
  /\ UNCHANGED <<db, sockets, push, filing, tokens, alive, minted>>

StartAuth ==
  /\ phase = "push"
  /\ LoadKey("jwt")
  /\ phase' = "up"
  /\ UNCHANGED <<db, sockets, push, filing, tokens, alive, minted>>

\* The process ends, in whatever it was doing.  What is committed stays (WAL).
Crash ==
  /\ phase # "down"
  /\ phase' = "down"
  /\ loaded' = [k \in Key |-> 0]
  /\ open' = {} /\ role' = [c \in Conn |-> None]
  /\ login' = [c \in Conn |-> None] /\ enrol' = [c \in Conn |-> None]
  /\ pending' = {} /\ approving' = {}
  /\ clients' = {} /\ revoking' = None /\ overlap' = {} /\ readmitted' = {}
  /\ fanout' = {} /\ filing' = None
  /\ UNCHANGED <<db, config, made, want, outrun, tokens, alive, minted, rejected,
                 revoked>>

-----------------------------------------------------------------------------
(* Devices and tokens                                                      *)

\* A socket opens.  The name of one that has gone is used again when no table
\* holds its sender any more.
Connect(c) ==
  /\ Up /\ c \notin open
  /\ \A e \in clients \cup pending \cup approving : e[1] # c
  /\ open' = open \cup {c}
  /\ overlap' = {e \in overlap : e[1] # c}
  /\ readmitted' = {e \in readmitted : e[1] # c}
  /\ UNCHANGED <<db, keys, role, login, waits, clients, revoking, rejected,
                 revoked, push, phase, filing, tokens, alive, minted>>

\* register_client: in place for a socket the account's table holds already,
\* refused when the table is full (all callers ignore that).
RegisterClient(c, d) ==
  LET mine == {e \in clients : minted[e[2]] = minted[d]}
      same == {e \in mine : e[1] = c}
  IN  clients' = IF same # {} \/ Cardinality(mine) < MaxClients
                   THEN (clients \ same) \cup {<<c, d>>} ELSE clients

\* handle_auth with a password: register_device gives a new device its row (the
\* foreign key wants the account to be there) and the desktop hears its id ...
RegisterDevice(c, u, d) ==
  /\ Reads(c) /\ u \in accounts /\ minted[d] = None
  /\ minted' = [minted EXCEPT ![d] = u]
  /\ row' = [row EXCEPT ![d] = u]
  /\ enrol' = [enrol EXCEPT ![c] = d]
  /\ UNCHANGED <<accounts, subs, reports, files, keys, open, role, login,
                 pending, approving, clients, revoking, rejected, revoked,
                 overlap, readmitted, push, phase, filing, tokens, alive>>

\* ... then add_pending_device.
AddPending(c) ==
  /\ enrol[c] # None
  /\ pending' = pending \cup {<<c, enrol[c]>>}
  /\ enrol' = [enrol EXCEPT ![c] = None]
  /\ UNCHANGED <<db, keys, open, role, login, approving, clients, revoking,
                 rejected, revoked, overlap, readmitted, push, phase, filing,
                 tokens, alive, minted>>

\* create_jwt, for a device that is approved or logs in.
NewToken(d, u) == [device |-> d, user |-> u, key |-> loaded["jwt"]]

\* device_approved by a desktop of the device's account: take_pending_device and
\* a token for the socket that waits, if it is still there; nobody looks for the
\* row ...  Bound: one approval at a time.
ApproveDevice(c, d) ==
  /\ Up /\ <<c, d>> \in pending /\ approving = {}
  /\ pending' = pending \ {<<c, d>>}
  /\ approving' = {<<c, d>>}
  /\ tokens' = IF c \in open THEN tokens \cup {NewToken(d, minted[d])} ELSE tokens
  /\ UNCHANGED <<db, keys, open, role, login, enrol, clients, revoking, rejected,
                 revoked, overlap, readmitted, push, phase, filing, alive,
                 minted>>

\* ... then the broker is given the socket, there or not.
ApproveRegister(c, d) ==
  /\ <<c, d>> \in approving
  /\ RegisterClient(c, d)
  /\ approving' = {}
  /\ readmitted' = IF d \in (revoked \cup {revoking}) \ rejected
                     THEN readmitted \cup {<<c, d>>} ELSE readmitted
  /\ UNCHANGED <<db, keys, open, role, login, enrol, pending, revoking, rejected,
                 revoked, overlap, push, phase, filing, tokens, alive, minted>>

\* device_rejected: off the list; the row goes with RevokeRow.
RejectDevice(c, d) ==
  /\ Up /\ <<c, d>> \in pending /\ revoking = None
  /\ pending' = pending \ {<<c, d>>}
  /\ revoking' = d
  /\ rejected' = rejected \cup {d}
  /\ UNCHANGED <<db, keys, open, role, login, enrol, approving, clients, revoked,
                 overlap, readmitted, push, phase, filing, tokens, alive, minted>>

\* is_device_registered
IsDeviceRegistered(d, u) == row[d] = u

\* validate_jwt, and a row for its device.
Valid(t) == t.key = loaded["jwt"] /\ IsDeviceRegistered(t.device, t.user)

\* A token login sets the role ...
TokenLogin(c, t) ==
  /\ Reads(c)
  /\ Valid(t)
  /\ role' = [role EXCEPT ![c] = [user |-> t.user, device |-> t.device]]
  /\ login' = [login EXCEPT ![c] = t.device]
  /\ tokens' = tokens \cup {NewToken(t.device, t.user)}
  /\ overlap' = IF revoking = t.device THEN overlap \cup {<<c, t.device>>}
                                       ELSE overlap \ {<<c, t.device>>}
  /\ UNCHANGED <<db, keys, open, waits, clients, revoking, rejected, revoked,
                 readmitted, push, phase, filing, alive, minted>>

\* ... and then awaits register_client.
LoginRegister(c) ==
  /\ login[c] # None
  /\ RegisterClient(c, login[c])
  /\ login' = [login EXCEPT ![c] = None]
  /\ UNCHANGED <<db, keys, open, role, waits, revoking, rejected, revoked,
                 overlap, readmitted, push, phase, filing, tokens, alive,
                 minted>>

\* The socket ends: unregister_client for the account of its role, if it has
\* one; nothing takes it off the pending list.
Disconnect(c) ==
  /\ Reads(c)
  /\ open' = open \ {c}
  /\ role' = [role EXCEPT ![c] = None]
  /\ clients' = IF role[c] = None THEN clients
                 ELSE {e \in clients : e[1] # c \/ minted[e[2]] # role[c].user}
  /\ UNCHANGED <<db, keys, login, waits, revoking, rejected, revoked, overlap,
                 readmitted, push, phase, filing, tokens, alive, minted>>

\* Mutant: only the first of the device's tabs is removed.
UnregisterDeviceOnce(d) ==
  IF \A e \in clients : e[2] # d
    THEN UNCHANGED clients
    ELSE \E e \in clients : e[2] = d /\ clients' = clients \ {e}

\* unregister_device: every socket of the device.
UnregisterDevice(d) == clients' = {e \in clients : e[2] # d}

\* device_revoke by the desktop of the device's account (the one that ever
\* hears its id), also of one that still waits: the broker first ...  Bound: one
\* revocation or rejection at a time.
Revoke(d) ==
  /\ Up /\ revoking = None /\ minted[d] # None
  /\ UnregisterDevice(d)
  /\ revoking' = d
  /\ overlap' = overlap \cup {<<c, d>> : c \in {x \in Conn : login[x] = d}}
  /\ UNCHANGED <<db, keys, open, role, login, waits, rejected, revoked,
                 readmitted, push, phase, filing, tokens, alive, minted>>

\* ... then the row.
RevokeRow ==
  /\ revoking # None
  /\ DeleteDevices({revoking})
  /\ revoked' = revoked \cup {revoking}
  /\ revoking' = None
  /\ UNCHANGED <<accounts, reports, files, keys, open, role, login, waits,
                 clients, rejected, overlap, readmitted, fanout, outrun, phase,
                 filing, tokens, alive, minted>>

-----------------------------------------------------------------------------
(* Web push                                                                *)

\* Mutant: the row of the device is not asked for.
StoredAlways(d) == TRUE

\* upsert_push_subscription takes a subscription only for a device with a row
\* (foreign key); the error is logged.
Stored(d) == row[d] # None

\* push_subscribe, of a client: a renewal replaces what the device had.
Subscribe(c, e) ==
  /\ Reads(c) /\ role[c] # None
  /\ LET d == role[c].device
     IN  /\ Stored(d)
         /\ subs' = [subs EXCEPT ![d] = [endpoint |-> e, key |-> loaded["vapid"]]]
         /\ want' = [want EXCEPT ![d] = e]
         /\ outrun' = IF \E s \in fanout : s[1] = d /\ s[2] # e
                        THEN outrun \cup {d} ELSE outrun \ {d}
  /\ UNCHANGED <<accounts, row, reports, files, keys, sockets, fanout, phase,
                 filing, tokens, alive, minted>>

\* remove_push_subscription
Unsubscribe(c) ==
  /\ Reads(c) /\ role[c] # None
  /\ subs' = [subs EXCEPT ![role[c].device] = None]
  /\ want' = [want EXCEPT ![role[c].device] = None]
  /\ UNCHANGED <<accounts, row, reports, files, keys, sockets, fanout, outrun,
                 phase, filing, tokens, alive, minted>>

\* session_notification spawns send_to_user, which lists the subscriptions.
\* Bound: one fan-out at a time.
Notify(u) ==
  /\ Up /\ fanout = {}
  /\ fanout' = {<<d, subs[d].endpoint>> :
                  d \in {x \in Device : subs[x] # None /\ row[x] = u}}
  /\ fanout' # {}
  /\ UNCHANGED <<db, keys, sockets, want, outrun, phase, filing, tokens, alive,
                 minted>>

\* Mutant: every refusal counts as gone.
GoneOnRefusal(e) == TRUE

\* What the push service answers with 404 or 410 (a malformed subscription is
\* treated the same way).
Gone(e) == e \notin alive

\* One answer: the device's subscription is pruned if its endpoint has gone,
\* and kept after a success, another refusal or a failed request.
PushAnswer(s) ==
  /\ s \in fanout
  /\ fanout' = fanout \ {s}
  /\ subs' = IF Gone(s[2]) THEN [subs EXCEPT ![s[1]] = None] ELSE subs
  /\ UNCHANGED <<accounts, row, reports, files, keys, sockets, want, outrun, phase,
                 filing, tokens, alive, minted>>

\* The push service drops an endpoint.
Retire(e) ==
  /\ e \in alive
  /\ alive' = alive \ {e}
  /\ UNCHANGED <<db, keys, sockets, push, phase, filing, tokens, minted>>

-----------------------------------------------------------------------------
(* Bug reports                                                             *)

\* Paths that were ever named.
Used == files \cup {reports[i].shot : i \in 1..Len(reports)}

\* Mutant: the path goes into the row whether or not the file was written.
WriteShotUnchecked(f) ==
  {[files |-> files \cup {f}, shot |-> f], [files |-> files, shot |-> f]}

\* create_dir_all and fs::write: the path of the file, or None after an error.
WriteShot(f) ==
  {[files |-> files \cup {f}, shot |-> f], [files |-> files, shot |-> None]}

\* persist_bug_report, for a socket of account u (which may be gone by now):
\* first the screenshot, if there is one ...  Bound: one report at a time.
FileShot(u) ==
  /\ Up /\ filing = None /\ Len(reports) < MaxReports
  /\ u \in accounts \/ \E c \in Conn : role[c] # None /\ role[c].user = u
  /\ \E w \in {[files |-> files, shot |-> None]}
                \cup UNION {WriteShot(f) : f \in File \ Used} :
       /\ files' = w.files
       /\ filing' = [user |-> u, shot |-> w.shot]
  /\ UNCHANGED <<accounts, row, subs, reports, keys, sockets, push, phase, tokens,
                 alive, minted>>

\* ... then the row, or an error that is logged.
FileRow ==
  /\ filing # None
  /\ reports' \in {Append(reports, filing), reports}
  /\ filing' = None
  /\ UNCHANGED <<accounts, row, subs, files, keys, sockets, push, phase, tokens,
                 alive, minted>>

\* authenticate_bearer
Bearer(t) == IF Up /\ Valid(t) THEN t.user ELSE None

\* list_bug_reports: the ids of u's newest rows, as many as the limit allows.
ListBugReports(u) ==
  {i \in 1..Len(reports) :
     /\ reports[i].user = u
     /\ Cardinality({j \in (i + 1)..Len(reports) : reports[j].user = u}) < ListLimit}

\* get_bug_report: the path in row i, if u owns that row.
GetBugReport(u, i) ==
  IF i \in 1..Len(reports) /\ reports[i].user = u THEN reports[i].shot ELSE None

\* GET /bug-reports: what each listed report says of itself.
ListHandler(t) ==
  {[id |-> i, hasScreenshot |-> reports[i].shot # None] :
     i \in IF Bearer(t) = None THEN {} ELSE ListBugReports(Bearer(t))}

\* GET /bug-reports/{id}/screenshot: the file, or None for 401 and 404.
ScreenshotHandler(t, i) ==
  IF Bearer(t) # None /\ GetBugReport(Bearer(t), i) \in files
    THEN GetBugReport(Bearer(t), i) ELSE None

Next ==
  \/ StartPush \/ StartAuth \/ Crash \/ RevokeRow \/ FileRow
  \/ \E u \in User : \/ UserAdd(u) \/ UserRemove(u) \/ Notify(u) \/ FileShot(u)
                     \/ \E c \in Conn, d \in Device : RegisterDevice(c, u, d)
  \/ \E d \in Device : Revoke(d)
  \/ \E c \in Conn, d \in Device :
       ApproveDevice(c, d) \/ ApproveRegister(c, d) \/ RejectDevice(c, d)
  \/ \E c \in Conn : \/ Connect(c) \/ AddPending(c)
                     \/ LoginRegister(c) \/ Disconnect(c) \/ Unsubscribe(c)
                     \/ \E t \in tokens : TokenLogin(c, t)
                     \/ \E e \in Endpoint : Subscribe(c, e)
  \/ \E s \in fanout : PushAnswer(s)
  \/ \E e \in Endpoint : Retire(e)

Spec == Init /\ [][Next]_vars

-----------------------------------------------------------------------------
(* Properties                                                              *)

\* The database holds together: a device belongs to an account that exists, a
\* subscription to a device that exists.  A revoked device's socket that is
\* still open and subscribes again, and a device that is enrolled while the
\* command line removes its account, leave nothing behind.
NoOrphans ==
  \A d \in Device : /\ row[d] # None => row[d] \in accounts
                    /\ subs[d] # None => row[d] # None

\* Restarts are invisible: once the relay is up again, with whatever crashes
\* in between, start-up included, every token handed out and every subscription
\* on file was made with the keys that it has loaded.
KeysSurvive ==
  Up => /\ \A t \in tokens : t.key = loaded["jwt"]
        /\ \A d \in Device : subs[d] # None => subs[d].key = loaded["vapid"]

\* A revocation disconnects the device everywhere and a rejection keeps it out:
\* when its row is gone, no socket of it is in the fan-out, save in the two cases
\* that the code lets through.  One is a login under way at the revocation (the
\* row was still there when it was checked).  The other is a device revoked while
\* it waited for its approval, or during it: device_revoke leaves the pending
\* list alone and device_approved does not ask for the row, so the approval puts
\* the waiting socket into the fan-out all the same.
RevokedNotServed ==
  \A e \in clients : e[2] \in revoked => e \in overlap \/ e \in readmitted

\* A subscription is not lost: what a device subscribed with last is on file
\* as long as the push service accepts it, save when a fan-out that still held
\* the device's previous endpoint was under way at the renewal (the prune goes
\* by device, not by endpoint).
RenewalSurvives ==
  \A d \in Device :
    want[d] \in alive /\ d \notin outrun
      => subs[d] # None /\ subs[d].endpoint = want[d]

\* What the API lists it can deliver: a holder of a valid token sees only
\* reports of its own account, and each one listed with a screenshot has it on
\* disk, whichever write failed and wherever the process died.
ReportsServed ==
  \A t \in tokens : \A v \in ListHandler(t) :
    /\ reports[v.id].user = t.user
    /\ v.hasScreenshot => ScreenshotHandler(t, v.id) = reports[v.id].shot

=============================================================================
