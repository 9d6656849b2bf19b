------------------------------ MODULE Gateway -------------------------------
(***************************************************************************)
(* The way from a socket into the accounts and between them: handle_auth   *)
(* with its credentials and the login limiter, the role it gives, and the  *)
(* forwarding of messages by role, for several accounts served by one      *)
(* relay.  Registry refines the tables of one account; here an entry is    *)
(* the socket alone, and the question is who may speak for an account, who *)
(* hears its traffic, and how many guesses the limiter lets through.       *)
(*                                                                         *)
(* The step that matters for this is the one between the limiter's check   *)
(* and the verdict on the credential, where other handlers run: auth[c] is *)
(* the account whose check the handler of c has passed.  The broker calls  *)
(* that follow a verdict are one step here; Registry has them apart.       *)
(* What an open socket sends in binary has the frame format of Wire.       *)
(***************************************************************************)
EXTENDS Limiter, Wire, FiniteSets

CONSTANTS
  Conn,      \* sockets; each is accepted once
  Guessed,   \* accounts somebody presents wrong credentials for (bound)
  None

ASSUME GatewayAssumption ==
  /\ Guessed \subseteq User /\ None \notin Conn \cup User
  /\ IsFiniteSet(Conn)

VARIABLES
  sock,      \* "new", "open", "closed"
  role,      \* ConnectionRole: its kind and its username
  auth,      \* account whose login the handler is judging, or None
  desktop,   \* AccountState.desktop_tx, per account
  clients,   \* AccountState.clients, per account
  pending,   \* AccountState.pending_devices, per account
  proved,    \* history: accounts the socket presented a right credential for
  strayed    \* history: messages sent to a socket that had presented no
             \* right credential for their account

tables == <<desktop, clients, pending>>
vars   == <<limiter, sock, role, auth, tables, proved, strayed>>

Nobody == [kind |-> "Unauthenticated", user |-> None]
Role   == {Nobody} \cup [kind : {"Client", "Desktop"}, user : User]
Client(u) == [kind |-> "Client", user |-> u]

\* What an auth message carries, by the branch of handle_auth that judges it: a
\* desktop key, a token issued to account sub, a password (with its TOTP code,
\* or without), or a wrong one of these.
Credential ==
  [by : {"key", "password", "noTotp", "wrong"}, sub : {None}]
    \cup [by : {"token"}, sub : User]

TypeOK ==
  /\ LimiterTypeOK
  /\ sock \in [Conn -> {"new", "open", "closed"}]
  /\ role \in [Conn -> Role]
  /\ auth \in [Conn -> User \cup {None}]
  /\ desktop \in [User -> Conn \cup {None}]
  /\ clients \in [User -> SUBSET Conn]
  /\ pending \in [User -> SUBSET Conn]
  /\ proved \in [Conn -> SUBSET User]
  /\ strayed \subseteq Conn \X User

Init ==
  /\ LimiterInit
  /\ sock = [c \in Conn |-> "new"]
  /\ role = [c \in Conn |-> Nobody]
  /\ auth = [c \in Conn |-> None]
  /\ desktop = [u \in User |-> None]
  /\ clients = [u \in User |-> {}]
  /\ pending = [u \in User |-> {}]
  /\ proved = [c \in Conn |-> {}]
  /\ strayed = {}

\* The handler of c takes the next message of its socket.
Reads(c) == sock[c] = "open" /\ auth[c] = None

\* A message of account u is sent to the sockets of S that are still there.
Tell(S, u) ==
  strayed' = strayed \cup
    {<<c, u>> : c \in {x \in S : sock[x] = "open" /\ u \notin proved[x]}}

DesktopOf(u) == {c \in Conn : desktop[u] = c}

Accept(c) ==
  /\ sock[c] = "new"
  /\ sock' = [sock EXCEPT ![c] = "open"]
  /\ UNCHANGED <<limiter, role, auth, tables, proved, strayed>>

-----------------------------------------------------------------------------
(* handle_auth                                                             *)

\* Mutant: an attempt that the lock refuses counts as one more failure.
AuthCounted(c, u) ==
  /\ Reads(c)
  /\ IF Locked(u) THEN RecordFailure(u) /\ UNCHANGED auth
                  ELSE auth' = [auth EXCEPT ![c] = u] /\ UNCHANGED limiter
  /\ UNCHANGED <<sock, role, tables, proved, strayed>>

\* An auth message, of a socket in any role, passes check_rate_limit; a locked
\* account answers rate_limited at once.
Auth(c, u) ==
  /\ Reads(c)
  /\ ~Locked(u)
  /\ auth' = [auth EXCEPT ![c] = u]
  /\ UNCHANGED <<limiter, sock, role, tables, proved, strayed>>

\* A right credential: the failures are forgotten.
Succeeds(c, u) ==
  /\ ClearRateLimit(u)
  /\ proved' = [proved EXCEPT ![c] = @ \cup {u}]

\* Desktop key: the role at once, and no entry in clients.
JudgeKey(c, u) ==
  /\ Succeeds(c, u)
  /\ role' = [role EXCEPT ![c] = Client(u)]
  /\ UNCHANGED <<tables, strayed>>

\* Mutant: the account a token was issued to is not compared with the one
\* that logs in.
JudgeTokenAnySub(c, u, sub) ==
  /\ Succeeds(c, sub)
  /\ role' = [role EXCEPT ![c] = Client(u)]
  /\ clients' = [clients EXCEPT ![u] = @ \cup {c}]
  /\ UNCHANGED <<desktop, pending, strayed>>

\* Token of a registered device of this account: role and register_client.
\* Any other token falls through to the password, which the message does not
\* carry; nothing is counted.
JudgeToken(c, u, sub) ==
  IF sub = u
    THEN /\ Succeeds(c, u)
         /\ role' = [role EXCEPT ![c] = Client(u)]
         /\ clients' = [clients EXCEPT ![u] = @ \cup {c}]
         /\ UNCHANGED <<desktop, pending, strayed>>
    ELSE UNCHANGED <<limiter, role, tables, proved, strayed>>

\* Password, and TOTP where the account has it.  A new device needs a desktop
\* that can approve it: device_pending to the desktop, and the entry that its
\* answer will find.  The role stays as it was.
JudgePassword(c, u) ==
  /\ Succeeds(c, u)
  /\ \/ desktop[u] = None /\ UNCHANGED <<pending, strayed>>
     \/ /\ desktop[u] # None
        /\ Tell(DesktopOf(u), u)
        /\ pending' = [pending EXCEPT ![u] = @ \cup {c}]
  /\ UNCHANGED <<role, desktop, clients>>

\* Wrong key, password or TOTP code.
JudgeWrong(c, u) ==
  /\ u \in Guessed
  /\ RecordFailure(u)
  /\ UNCHANGED <<role, tables, proved, strayed>>

\* The verdict on the message's credential (nothing before depends on it).  A
\* TOTP code that is missing is neither a failure nor a success.
Judge(c, cred) ==
  /\ auth[c] # None
  /\ LET u == auth[c]
     IN  CASE cred.by = "key"      -> JudgeKey(c, u)
           [] cred.by = "token"    -> JudgeToken(c, u, cred.sub)
           [] cred.by = "password" -> JudgePassword(c, u)
           [] cred.by = "wrong"    -> JudgeWrong(c, u)
           [] OTHER -> UNCHANGED <<limiter, role, tables, proved, strayed>>
  /\ auth' = [auth EXCEPT ![c] = None]
  /\ UNCHANGED sock

-----------------------------------------------------------------------------
(* The other messages                                                      *)

\* desktop_register: the clients of the account hear of it.
DesktopRegister(c) ==
  /\ Reads(c)
  /\ role[c].kind = "Client"
  /\ LET u == role[c].user
     IN  /\ desktop' = [desktop EXCEPT ![u] = c]
         /\ role' = [role EXCEPT ![c].kind = "Desktop"]
         /\ Tell(clients[u], u)
  /\ UNCHANGED <<limiter, sock, auth, clients, pending, proved>>

\* device_approved, device_rejected: the waiting socket x gets its answer, and
\* a place in the table if it is approved.
Answer(c, x) ==
  /\ Reads(c)
  /\ role[c].kind = "Desktop"
  /\ LET u == role[c].user
     IN  /\ x \in pending[u]
         /\ pending' = [pending EXCEPT ![u] = @ \ {x}]
         /\ clients' \in {clients, [clients EXCEPT ![u] = @ \cup {x}]}
         /\ Tell({x}, u)
  /\ UNCHANGED <<limiter, sock, role, auth, desktop, proved>>

\* device_revoke of the device x is on: told, and out of the table.  The socket
\* and its role stay.
Revoke(c, x) ==
  /\ Reads(c)
  /\ role[c].kind = "Desktop"
  /\ LET u == role[c].user
     IN  /\ x \in clients[u]
         /\ clients' = [clients EXCEPT ![u] = @ \ {x}]
         /\ Tell({x, c}, u)
  /\ UNCHANGED <<limiter, sock, role, auth, desktop, pending, proved>>

\* Control messages and binary frames that are forwarded or answered without
\* any change of state.
Message == {"request", "rename", "event", "deviceList", "input", "output",
            "scrollback"}

\* Who gets message m of a socket in role r (handle_control_message,
\* handle_binary_message).
Receivers(r, m) ==
  CASE r.kind = "Client" /\ m \in {"request", "rename", "input"} ->
         DesktopOf(r.user)
    [] r.kind = "Desktop" /\ m \in {"rename", "event", "output", "scrollback"} ->
         clients[r.user]
    [] OTHER -> {}

Forward(c, m) ==
  /\ Reads(c)
  /\ role[c] # Nobody
  /\ Tell(IF role[c].kind = "Desktop" /\ m = "deviceList" THEN {c}
          ELSE Receivers(role[c], m), role[c].user)
  /\ UNCHANGED <<limiter, sock, role, auth, tables, proved>>

\* The loop ends; cleanup goes by the role the socket has now, and does not
\* take off a desktop that is not c.
Disconnect(c) ==
  /\ Reads(c)
  /\ sock' = [sock EXCEPT ![c] = "closed"]
  /\ LET u == role[c].user
     IN  CASE role[c].kind = "Client" ->
                /\ clients' = [clients EXCEPT ![u] = @ \ {c}]
                /\ UNCHANGED <<desktop, strayed>>
           [] role[c].kind = "Desktop" /\ desktop[u] \in {None, c} ->
                /\ desktop' = [desktop EXCEPT ![u] = None]
                /\ Tell(clients[u], u)
                /\ UNCHANGED clients
           [] OTHER -> UNCHANGED <<desktop, clients, strayed>>
  /\ role' = [role EXCEPT ![c] = Nobody]
  /\ proved' = [proved EXCEPT ![c] = {}]
  /\ UNCHANGED <<limiter, auth, pending>>

Tick == TickLocks /\ UNCHANGED <<sock, role, auth, tables, proved, strayed>>

Next ==
  \/ \E c \in Conn :
       \/ Accept(c) \/ DesktopRegister(c) \/ Disconnect(c)
       \/ \E u \in User : Auth(c, u)
       \/ \E cred \in Credential : Judge(c, cred)
       \/ \E x \in Conn : Answer(c, x) \/ Revoke(c, x)
       \/ \E m \in Message : Forward(c, m)
  \/ Tick

Spec == Init /\ [][Next]_vars

-----------------------------------------------------------------------------
(* Properties                                                              *)

\* Accounts are kept apart: whoever speaks for an account, is its desktop or is
\* in its table has presented a right credential for it, and messages of an
\* account were only ever sent to such sockets.  Sockets that log in again as
\* somebody else, replaced desktops and late approvals included.
Isolated ==
  /\ \A c \in Conn : role[c] = Nobody \/ role[c].user \in proved[c]
  /\ \A u \in User : \A c \in clients[u] \cup DesktopOf(u) :
       sock[c] = "open" => u \in proved[c]
  /\ strayed = {}

\* MAX_FAILURES is checked before a guess is judged and counted after it, so
\* guesses judged at the same time exceed it; but by no more than the sockets
\* there are: between a success or the end of a lock and the next one, at most
\* that many guesses beyond the limit's last are judged.
GuessesBounded ==
  \A u \in User : judged[u] <= allow[u] - 1 + Cardinality(Conn)

\* Logins to u that have passed the check and wait for their verdict.
InFlight(u) == {c \in Conn : auth[c] = u}

\* A lock runs out whatever keeps trying: only an attempt that had passed the
\* check before the lock was set can start it anew, and each only once.  Refused
\* attempts neither count nor join the ones in flight.
LockRunsOut ==
  [][\A u \in User :
       Locked(u) /\ Locked(u)' =>
         /\ InFlight(u)' \subseteq InFlight(u)
         /\ judged'[u] # judged[u] => InFlight(u)' # InFlight(u)]_vars

\* Every frame an open socket may exchange with the relay: built and parsed
\* again (build_binary_frame, parse_binary_frame) it is what it was, save an
\* identifier that does not fill the slot.  Wire's RoundTrip says this part by
\* part, for short, exact and cut identifiers.
FramesRoundTrip == \A c \in Conn : sock[c] = "open" => RoundTrip

=============================================================================
