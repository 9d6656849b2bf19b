------------------------------ MODULE Registry ------------------------------
(***************************************************************************)
(* Who is connected to one account of the relay, and as what: the socket   *)
(* handlers of server.rs (authentication, desktop registration, device     *)
(* approval and revocation, cleanup on disconnect) over the registration   *)
(* tables of broker.rs (desktop_tx, clients, pending_devices).             *)
(*                                                                         *)
(* Every handler runs in its own task and gives up control at each         *)
(* `.await`; the broker's RwLock makes one broker call atomic.  An action  *)
(* below is therefore one broker call together with the synchronous code   *)
(* around it, and pc[c] says which call the handler of connection c makes  *)
(* next.  A handler with pc[c] # "idle" has not returned, so its loop      *)
(* reads no further message and cannot end.                                *)
(*                                                                         *)
(* Credentials are abstracted to their outcome: an action is the run of    *)
(* the handler in which the checks succeed (the failing runs change no     *)
(* variable of this module).                                               *)
(***************************************************************************)
EXTENDS Naturals, FiniteSets

CONSTANTS
  Conn,         \* sockets; each is accepted once
  Device,       \* device ids that register_device can mint (bounds the model)
  Caps,         \* capability lists a desktop may advertise
  MaxClients,   \* MAX_CLIENTS
  DesktopId,    \* the synthetic device id "desktop" of a desktop-key login
  None,
  NotTold,      \* no desktop_status was ever sent to the connection
  Offline,      \* the last one said online: false
  Disciplined   \* TRUE: a socket authenticates once, and only a socket that
                \* presented the desktop key registers as the desktop.
                \* FALSE: every order of messages the relay accepts.

ASSUME RegistryAssumption ==
  /\ MaxClients \in Nat
  /\ Disciplined \in BOOLEAN
  /\ None \notin Conn \cup Device \cup Caps
  /\ DesktopId \notin Device \cup {None}
  /\ NotTold \notin Caps
  /\ Offline \notin Caps \cup {NotTold}

VARIABLES
  sock,         \* life of the socket: "new", "open", "closed"
  kind,         \* ConnectionRole of the handler
  dev,          \* device_id carried by the Client role
  pc,           \* the broker call the handler makes next
  arg,          \* device id that call is about
  peer,         \* connection that call registers (device approval)
  devices,      \* rows of the devices table
  minted,       \* ids register_device has ever returned (UUIDs never repeat)
  tokens,       \* devices a JWT was issued for
  desktopTx,    \* AccountState.desktop_tx
  desktopCaps,  \* AccountState.desktop_capabilities
  clients,      \* AccountState.clients
  pending,      \* AccountState.pending_devices
  prompts,      \* device_pending messages a desktop has not answered yet
  status,       \* last desktop_status sent to each connection
  latest,       \* history: the last connection that registered as desktop
  refused,      \* history: TooManyClients returned for them, and ignored
  kicked,       \* history: removed from clients by unregister_device
  turned        \* history: authenticated again while registered as the desktop

auth   == <<kind, dev, turned>>
calls  == <<pc, arg, peer>>
db     == <<devices, minted, tokens>>
deskst == <<desktopTx, desktopCaps, latest>>
table  == <<clients, status, refused>>
vars   == <<sock, auth, calls, db, deskst, table, pending, prompts, kicked>>

Entry == [tx : Conn, device : Device]

Registered(c) == \E e \in clients : e.tx = c

\* Type correctness of every variable; a suspended handler always holds the
\* device (and, for an approval, the waiting connection) its next call needs.
TypeOK ==
  /\ sock \in [Conn -> {"new", "open", "closed"}]
  /\ kind \in [Conn -> {"Unauthenticated", "Client", "Desktop"}]
  /\ dev \in [Conn -> Device \cup {DesktopId, None}]
  /\ pc \in [Conn -> {"idle", "authRegister", "authNotify", "authPend",
                      "approveRegister", "revokeRow"}]
  /\ arg \in [Conn -> Device \cup {None}]
  /\ peer \in [Conn -> Conn \cup {None}]
  /\ \A c \in Conn :
       /\ pc[c] \in {"authRegister", "authPend", "approveRegister", "revokeRow"}
            => arg[c] \in Device
       /\ pc[c] = "approveRegister" => peer[c] \in Conn
  /\ devices \subseteq minted
  /\ minted \subseteq Device
  /\ tokens \subseteq Device
  /\ desktopTx \in Conn \cup {None}
  /\ desktopCaps \in IF desktopTx = None THEN {None} ELSE Caps
  /\ clients \subseteq Entry
  /\ pending \subseteq Entry
  /\ prompts \in [Conn -> SUBSET Device]
  /\ status \in [Conn -> Caps \cup {NotTold, Offline}]
  /\ latest \in Conn \cup {None}
  /\ refused \subseteq Conn
  /\ kicked \subseteq Conn /\ turned \subseteq Conn

Init ==
  /\ sock = [c \in Conn |-> "new"]
  /\ kind = [c \in Conn |-> "Unauthenticated"]
  /\ dev = [c \in Conn |-> None]
  /\ pc = [c \in Conn |-> "idle"]
  /\ arg = [c \in Conn |-> None]
  /\ peer = [c \in Conn |-> None]
  /\ devices = {} /\ minted = {} /\ tokens = {}
  /\ desktopTx = None /\ desktopCaps = None /\ latest = None
  /\ clients = {} /\ pending = {}
  /\ prompts = [c \in Conn |-> {}]
  /\ status = [c \in Conn |-> NotTold]
  /\ refused = {} /\ kicked = {} /\ turned = {}

\* The handler of c is in its receive loop and takes the next message.
Reads(c) == sock[c] = "open" /\ pc[c] = "idle"

\* What a protocol-following peer may authenticate on: a socket with no role.
MayAuth(c) == Reads(c) /\ (Disciplined => kind[c] = "Unauthenticated")

Return(c) ==
  /\ pc' = [pc EXCEPT ![c] = "idle"]
  /\ arg' = [arg EXCEPT ![c] = None]
  /\ peer' = [peer EXCEPT ![c] = None]

Call(c, next, d, p) ==
  /\ pc' = [pc EXCEPT ![c] = next]
  /\ arg' = [arg EXCEPT ![c] = d]
  /\ peer' = [peer EXCEPT ![c] = p]

-----------------------------------------------------------------------------
(* Broker calls                                                            *)

\* Mutant: the status replay of a (re)joining client is dropped.
ReplayStatusMissing(tx) == UNCHANGED status

\* replay_desktop_status: tell one client what desktop is online, if any.
ReplayStatus(tx) ==
  status' = IF desktopTx = None THEN status
            ELSE [status EXCEPT ![tx] = desktopCaps]

\* Mutant: off by one in the MAX_CLIENTS comparison.
RegisterClientOneTooMany(tx, d) ==
  IF Registered(tx) \/ Cardinality(clients) <= MaxClients
    THEN /\ clients' = {e \in clients : e.tx # tx}
                         \cup {[tx |-> tx, device |-> d]}
         /\ ReplayStatus(tx)
         /\ refused' = refused \ {tx}
    ELSE /\ refused' = refused \cup {tx}
         /\ UNCHANGED <<clients, status>>

\* register_client: keyed by the connection; a full table is an error that
\* both callers discard.
RegisterClient(tx, d) ==
  IF Registered(tx) \/ Cardinality(clients) < MaxClients
    THEN /\ clients' = {e \in clients : e.tx # tx}
                         \cup {[tx |-> tx, device |-> d]}
         /\ ReplayStatus(tx)
         /\ refused' = refused \ {tx}
    ELSE /\ refused' = refused \cup {tx}
         /\ UNCHANGED <<clients, status>>

\* register_desktop: last writer wins, every client hears the new state.
RegisterDesktop(c, k) ==
  /\ desktopTx' = c
  /\ desktopCaps' = k
  /\ latest' = c
  /\ status' = [x \in Conn |-> IF Registered(x) THEN k ELSE status[x]]
  /\ UNCHANGED <<clients, refused>>

\* Mutant: every desktop cleanup counts as the registered desktop's own.
AlreadyReplacedNever(c) == FALSE

\* Mutant: the registered desktop's own cleanup is taken for a stale one.
AlreadyReplacedAlways(c) == desktopTx # None

\* The test that makes unregister_desktop return early.
AlreadyReplaced(c) == desktopTx \notin {None, c}

\* unregister_desktop
UnregisterDesktop(c) ==
  /\ UNCHANGED <<clients, refused, latest>>
  /\ IF AlreadyReplaced(c)
       THEN UNCHANGED <<desktopTx, desktopCaps, status>>
       ELSE /\ desktopTx' = None
            /\ desktopCaps' = None
            /\ status' = [x \in Conn |-> IF Registered(x) THEN Offline
                                         ELSE status[x]]

\* Mutant: cleanup keyed by the device, as it once was: the twin tab of the
\* closing one is evicted too.
UnregisterClientDevice(c) ==
  /\ clients' = {e \in clients : e.device # dev[c]}
  /\ UNCHANGED <<status, refused, deskst>>

\* unregister_client: one connection, whatever device it is on.
UnregisterClient(c) ==
  /\ clients' = {e \in clients : e.tx # c}
  /\ UNCHANGED <<status, refused, deskst>>

-----------------------------------------------------------------------------
(* Handlers                                                                *)

\* An authentication gives the handler of c a Client role, whatever role it
\* had; desktop_tx is not looked at.
BecomesClient(c, d) ==
  /\ kind' = [kind EXCEPT ![c] = "Client"]
  /\ dev' = [dev EXCEPT ![c] = d]
  /\ turned' = IF desktopTx = c THEN turned \cup {c} ELSE turned

Accept(c) ==
  /\ sock[c] = "new"
  /\ sock' = [sock EXCEPT ![c] = "open"]
  /\ UNCHANGED <<auth, calls, db, deskst, table, pending, prompts, kicked>>

\* handle_auth with a valid desktop key: role Client on the synthetic device,
\* and no entry in clients.
AuthDesktopKey(c) ==
  /\ MayAuth(c)
  /\ BecomesClient(c, DesktopId)
  /\ UNCHANGED <<sock, calls, db, deskst, table, pending, prompts, kicked>>

\* handle_auth with a valid token of a registered device: the role is set
\* before register_client is awaited.
AuthToken(c, d) ==
  /\ MayAuth(c)
  /\ d \in tokens \cap devices
  /\ BecomesClient(c, d)
  /\ Call(c, "authRegister", d, None)
  /\ UNCHANGED <<sock, db, deskst, table, pending, prompts, kicked>>

AuthRegister(c) ==
  /\ pc[c] = "authRegister"
  /\ RegisterClient(c, arg[c])
  /\ Return(c)
  /\ UNCHANGED <<sock, auth, db, deskst, pending, prompts, kicked>>

\* handle_auth with password and TOTP accepted: a new device needs a desktop
\* online to approve it.
AuthCredentials(c) ==
  /\ MayAuth(c)
  /\ desktopTx # None
  /\ Call(c, "authNotify", None, None)
  /\ UNCHANGED <<sock, auth, db, deskst, table, pending, prompts, kicked>>

\* register_device, then device_pending to whatever desktop is there now.  A
\* failing insert answers internal_error.
AuthNotify(c) ==
  /\ pc[c] = "authNotify"
  /\ \/ \E d \in Device \ minted :
          /\ minted' = minted \cup {d}
          /\ devices' = devices \cup {d}
          /\ prompts' = [x \in Conn |-> IF x = desktopTx /\ sock[x] = "open"
                                        THEN prompts[x] \cup {d}
                                        ELSE prompts[x]]
          /\ Call(c, "authPend", d, None)
          /\ UNCHANGED tokens
     \/ Return(c) /\ UNCHANGED <<db, prompts>>
  /\ UNCHANGED <<sock, auth, deskst, table, pending, kicked>>

\* add_pending_device, after the desktop was told.
AuthPend(c) ==
  /\ pc[c] = "authPend"
  /\ pending' = pending \cup {[tx |-> c, device |-> arg[c]]}
  /\ Return(c)
  /\ UNCHANGED <<sock, auth, db, deskst, table, prompts, kicked>>

\* desktop_register: accepted from any authenticated socket that is not the
\* desktop already.
DesktopRegister(c, k) ==
  /\ Reads(c)
  /\ kind[c] = "Client"
  /\ Disciplined => dev[c] = DesktopId
  /\ RegisterDesktop(c, k)
  /\ kind' = [kind EXCEPT ![c] = "Desktop"]
  /\ dev' = [dev EXCEPT ![c] = None]
  /\ turned' = turned \ {c}
  /\ UNCHANGED <<sock, calls, db, pending, prompts, kicked>>

\* The desktop answers one of the device_pending messages it was sent.
Answers(c, d) ==
  /\ Reads(c)
  /\ kind[c] = "Desktop"
  /\ d \in prompts[c]
  /\ prompts' = [prompts EXCEPT ![c] = @ \ {d}]

\* device_approved: take_pending_device, a token for the waiting client, and
\* (next call) its registration.  Nothing happens for an unknown device.
DeviceApproved(c, d) ==
  /\ Answers(c, d)
  /\ \/ \E p \in pending :
          /\ p.device = d
          /\ pending' = pending \ {p}
          /\ tokens' = tokens \cup {d}
          /\ Call(c, "approveRegister", d, p.tx)
     \/ /\ \A p \in pending : p.device # d
        /\ UNCHANGED <<pending, tokens, calls>>
  /\ UNCHANGED <<sock, auth, devices, minted, deskst, table, kicked>>

ApproveRegister(c) ==
  /\ pc[c] = "approveRegister"
  /\ RegisterClient(peer[c], arg[c])
  /\ Return(c)
  /\ UNCHANGED <<sock, auth, db, deskst, pending, prompts, kicked>>

\* device_rejected: the row goes with the pending entry.
DeviceRejected(c, d) ==
  /\ Answers(c, d)
  /\ LET mine == {p \in pending : p.device = d}
     IN  /\ pending' = pending \ mine
         /\ devices' = IF mine = {} THEN devices ELSE devices \ {d}
  /\ UNCHANGED <<sock, auth, calls, minted, tokens, deskst, table, kicked>>

\* device_revoke: device_revoked to its sockets (a message only) and
\* unregister_device, then (after the await) the row.  An id that was never
\* minted matches nothing in either.
DeviceRevoke(c, d) ==
  /\ Reads(c)
  /\ kind[c] = "Desktop"
  /\ d \in minted
  /\ clients' = {e \in clients : e.device # d}
  /\ kicked' = kicked \cup {e.tx : e \in {x \in clients : x.device = d}}
  /\ Call(c, "revokeRow", d, None)
  /\ UNCHANGED <<sock, auth, db, deskst, status, refused, pending, prompts>>

RevokeRow(c) ==
  /\ pc[c] = "revokeRow"
  /\ devices' = devices \ {arg[c]}
  /\ Return(c)
  /\ UNCHANGED <<sock, auth, minted, tokens, deskst, table, pending, prompts,
                 kicked>>

\* The receive loop ends (close frame, error, missed pongs); handle_socket
\* cleans up after the role the connection has now.  Role and unread messages
\* go with the task.
Disconnect(c) ==
  /\ Reads(c)
  /\ sock' = [sock EXCEPT ![c] = "closed"]
  /\ \/ kind[c] = "Desktop" /\ UnregisterDesktop(c)
     \/ kind[c] = "Client" /\ UnregisterClient(c)
     \/ kind[c] = "Unauthenticated" /\ UNCHANGED <<table, deskst>>
  /\ kind' = [kind EXCEPT ![c] = "Unauthenticated"]
  /\ dev' = [dev EXCEPT ![c] = None]
  /\ prompts' = [prompts EXCEPT ![c] = {}]
  /\ UNCHANGED <<calls, db, pending, kicked, turned>>

Next ==
  \E c \in Conn :
    \/ Accept(c) \/ AuthDesktopKey(c) \/ AuthRegister(c)
    \/ AuthCredentials(c) \/ AuthNotify(c) \/ AuthPend(c)
    \/ ApproveRegister(c) \/ RevokeRow(c) \/ Disconnect(c)
    \/ \E d \in Device : \/ AuthToken(c, d) \/ DeviceApproved(c, d)
                         \/ DeviceRejected(c, d) \/ DeviceRevoke(c, d)
    \/ \E k \in Caps : DesktopRegister(c, k)

Spec == Init /\ [][Next]_vars

-----------------------------------------------------------------------------
(* Properties                                                              *)

\* What a desktop_status sent now would say.
Truth == IF desktopTx = None THEN Offline ELSE desktopCaps

\* register_client keeps one entry per connection, and never more than
\* MAX_CLIENTS of them, however approval, token login and re-login interleave.
ClientTable ==
  /\ \A e, f \in clients : e.tx = f.tx => e = f
  /\ Cardinality(clients) <= MaxClients

\* The last desktop_status a registered client got is the account's present
\* state: the status sent by register_desktop and unregister_desktop and the
\* one replayed by register_client can not leave a stale screen behind,
\* whichever comes first.  A client that joined while no desktop was there
\* may not have been told anything, and one that a revocation once took out of
\* the table, and that got back in, missed what was sent in between.
StatusAgrees ==
  \A e \in clients :
    sock[e.tx] = "open" /\ e.tx \notin kicked
      => \/ status[e.tx] = Truth
         \/ desktopTx = None /\ status[e.tx] = NotTold

\* Last writer wins: the connection that registered last is the desktop for
\* as long as it stays one.  The late cleanup of a socket it evicted never
\* takes it off (unregister_desktop, "stale desktop disconnect ignored").
LatestDesktopStays ==
  \A c \in Conn :
    latest = c /\ sock[c] = "open" /\ kind[c] = "Desktop" => desktopTx = c

\* A connection whose handler holds the Client role of a device is in the
\* output fan-out, unless the full table refused it or a revocation removed
\* it; the end of a twin tab on the same device does not.
FanOutComplete ==
  \A c \in Conn :
    Reads(c) /\ kind[c] = "Client" /\ dev[c] \in Device
      => Registered(c) \/ c \in refused \/ c \in kicked

\* is_desktop_online: "Check if a desktop is connected for a given account."
\* A registered desktop_tx belongs to a socket that is still open, in every
\* order of messages, evictions and late cleanups, but for one: a desktop that
\* authenticates again on its socket has the role of a client from then on, and
\* its end is cleaned up as a client's (handle_auth, handle_socket).
OnlineDesktopIsConnected ==
  \A c \in Conn : desktopTx = c => sock[c] = "open" \/ c \in turned

\* A step that takes the registered desktop away puts a later one in its
\* place or ends the very connection that was registered.
Announced ==
  desktopTx' # desktopTx =>
    /\ \/ desktopTx' # None
       \/ sock[desktopTx] = "open" /\ sock'[desktopTx] = "closed"
    /\ \A e \in clients : status'[e.tx] = Truth'

\* A desktop is never dropped silently (register_desktop, unregister_desktop):
\* it gives way only to a later one or to the end of its own connection, and
\* the same step tells every client in the table.
DesktopChangeIsAnnounced == [][Announced]_vars

\* ClientConnection: "A connected client with its sender channel and info."
\* Every entry of the table belongs to a socket that is still open.
ClientsConnected == \A e \in clients : sock[e.tx] = "open"

\* handle_auth: "The auth_result will be sent when the desktop
\* approves/rejects".  A device that waits while a desktop is online is one
\* that this desktop has been asked about and has not answered yet.
PendingIsAsked ==
  \A p \in pending : desktopTx # None => p.device \in prompts[desktopTx]

\* The sockets in the table.
Members == {e.tx : e \in clients}

\* The abstract registry: handlers, roles, devices and approvals are hidden.
Abstract == INSTANCE Presence WITH
  live <- {c \in Conn : sock[c] = "open"}, desktop <- desktopTx,
  caps <- desktopCaps, members <- Members, told <- status

\* The registry implements Presence: however handlers interleave, every step is
\* one announced change of desktop, one membership change within MAX_CLIENTS,
\* the end of one socket, or invisible (register_*, unregister_*).
ImplementsPresence == Abstract!Spec

=============================================================================
