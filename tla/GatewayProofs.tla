---------------------------- MODULE GatewayProofs ----------------------------
(***************************************************************************)
(* Proofs about Gateway and its Limiter, for any finite set of sockets,    *)
(* any set of accounts, guessed at or not, any MAX_FAILURES and any        *)
(* LOCKOUT_DURATION; and about the frames of Wire, for a slot of any width *)
(* and payloads of any length.                                             *)
(***************************************************************************)
EXTENDS Gateway, FiniteSetTheorems, SequenceTheorems, TLAPS

-----------------------------------------------------------------------------
(* Isolation.                                                              *)

\* Whoever has a role proved the account.
Speaks == \A c \in Conn : role[c] = Nobody \/ role[c].user \in proved[c]

\* A socket in a table of the account u, the approvals it may still get
\* included, has been accepted, and while it is open it has proved u.
Listed ==
  \A u \in User : \A c \in clients[u] \cup pending[u] \cup DesktopOf(u) :
    /\ sock[c] # "new"
    /\ sock[c] = "open" => u \in proved[c]

\* A handler that judges a credential belongs to an open socket.
Judging == \A c \in Conn : auth[c] # None => sock[c] = "open"

\* The inductive invariant behind Isolated: the tables of pending devices
\* have to be kept apart too, for an approval moves their sockets into
\* clients; and no socket is in a table before it is accepted.
IsoInv ==
  /\ TypeOK
  /\ Speaks
  /\ Listed
  /\ Judging
  /\ strayed = {}

\* A message for sockets that proved the account strays nowhere.
LEMMA TellStays ==
  ASSUME strayed = {}, NEW S, NEW u, Tell(S, u),
         \A x \in S : sock[x] = "open" => u \in proved[x]
  PROVE  strayed' = {}
BY DEF Tell

\* The five verdicts.
LEMMA Verdicts ==
  ASSUME NEW c \in Conn, NEW cred \in Credential, Judge(c, cred)
  PROVE  \/ JudgeKey(c, auth[c])
         \/ cred.sub \in User \cup {None} /\ JudgeToken(c, auth[c], cred.sub)
         \/ JudgePassword(c, auth[c])
         \/ JudgeWrong(c, auth[c])
         \/ UNCHANGED <<limiter, role, tables, proved, strayed>>
<1>1. /\ cred.by \in {"key", "password", "noTotp", "wrong", "token"}
      /\ cred.sub \in User \cup {None}
  BY DEF Credential
<1>2. CASE cred.by = "key"
  BY <1>2 DEF Judge
<1>3. CASE cred.by = "token"
  BY <1>1, <1>3 DEF Judge
<1>4. CASE cred.by = "password"
  BY <1>4 DEF Judge
<1>5. CASE cred.by = "wrong"
  BY <1>5 DEF Judge
<1>6. CASE cred.by = "noTotp"
  BY <1>6 DEF Judge
<1>7. QED
  BY <1>1, <1>2, <1>3, <1>4, <1>5, <1>6

\* What a step of the limiter leaves typed.
LEMMA LimiterTyped ==
  ASSUME LimiterTypeOK, NEW u \in User
  PROVE  /\ RecordFailure(u) => LimiterTypeOK'
         /\ ClearRateLimit(u) => LimiterTypeOK'
         /\ TickLocks => LimiterTypeOK'
         /\ UNCHANGED limiter => LimiterTypeOK'
<1> USE LimiterAssumption DEF LimiterTypeOK
<1>1. ASSUME RecordFailure(u) PROVE LimiterTypeOK'
  <2>1. failures' \in [User -> 0..MaxFailures]
    BY <1>1 DEF RecordFailure
  <2>2. lock' \in [User -> 0..LockTicks]
    BY <1>1 DEF RecordFailure
  <2>3. judged' \in [User -> Nat] /\ allow' = allow
    BY <1>1 DEF RecordFailure
  <2>4. QED
    BY <2>1, <2>2, <2>3
<1>2. ASSUME ClearRateLimit(u) PROVE LimiterTypeOK'
  BY <1>2 DEF ClearRateLimit
<1>3. ASSUME TickLocks PROVE LimiterTypeOK'
  <2>1. lock' \in [User -> 0..LockTicks]
    BY <1>3 DEF TickLocks
  <2>2. judged' \in [User -> Nat] /\ allow' \in [User -> {1, MaxFailures}]
    BY <1>3 DEF TickLocks
  <2>3. failures' = failures
    BY <1>3 DEF TickLocks
  <2>4. QED
    BY <2>1, <2>2, <2>3
<1>4. ASSUME UNCHANGED limiter PROVE LimiterTypeOK'
  BY <1>4 DEF limiter
<1>5. QED
  BY <1>1, <1>2, <1>3, <1>4

\* Every step keeps the accounts apart.
LEMMA IsoStep == IsoInv /\ [Next]_vars => IsoInv'
<1> SUFFICES ASSUME IsoInv, [Next]_vars PROVE IsoInv'
  OBVIOUS
<1> USE GatewayAssumption, LimiterAssumption
<1>0. TypeOK /\ LimiterTypeOK /\ Speaks /\ Listed /\ Judging /\ strayed = {}
  BY DEF IsoInv, TypeOK
<1>1. ASSUME NEW c \in Conn, Accept(c) PROVE IsoInv'
  <2>1. LimiterTypeOK'
    BY <1>0, <1>1 DEF Accept, limiter, LimiterTypeOK
  <2>2. TypeOK' /\ Speaks' /\ Judging'
    BY <1>0, <1>1, <2>1 DEF Accept, TypeOK, Speaks, Judging, tables
  <2>3. Listed'
    BY <1>0, <1>1 DEF Accept, TypeOK, Listed, DesktopOf, tables
  <2>4. QED
    BY <1>0, <1>1, <2>2, <2>3 DEF IsoInv, Accept
<1>2. ASSUME NEW c \in Conn, NEW u \in User, Auth(c, u) PROVE IsoInv'
  <2>1. LimiterTypeOK'
    BY <1>0, <1>2 DEF Auth, limiter, LimiterTypeOK
  <2>2. TypeOK' /\ Speaks' /\ Judging'
    BY <1>0, <1>2, <2>1 DEF Auth, Reads, TypeOK, Speaks, Judging, tables
  <2>3. Listed'
    BY <1>0, <1>2 DEF Auth, Listed, DesktopOf, tables
  <2>4. QED
    BY <1>0, <1>2, <2>2, <2>3 DEF IsoInv, Auth
<1>3. ASSUME NEW c \in Conn, NEW cred \in Credential, Judge(c, cred) PROVE IsoInv'
  <2> DEFINE u == auth[c]
  <2>1. u \in User /\ sock[c] = "open" /\ UNCHANGED sock
        /\ auth' \in [Conn -> User \cup {None}] /\ Judging'
    BY <1>0, <1>3 DEF Judge, Judging, TypeOK
  <2>2. ASSUME Succeeds(c, u)
        PROVE  /\ LimiterTypeOK'
               /\ proved' \in [Conn -> SUBSET User]
               /\ \A x \in Conn : proved[x] \subseteq proved'[x]
               /\ u \in proved'[c]
    BY <1>0, <2>1, <2>2, LimiterTyped DEF Succeeds, TypeOK
  <2>3. ASSUME Succeeds(c, u), role' = [role EXCEPT ![c] = Client(u)]
        PROVE  role' \in [Conn -> Role] /\ Speaks'
    BY <1>0, <2>1, <2>2, <2>3 DEF TypeOK, Speaks, Client, Role, Nobody
  <2>4. CASE JudgeKey(c, u)
    <3>1. Succeeds(c, u) /\ role' = [role EXCEPT ![c] = Client(u)]
          /\ UNCHANGED <<tables, strayed>>
      BY <2>4 DEF JudgeKey
    <3>2. TypeOK' /\ Speaks'
      BY <1>0, <2>1, <2>2, <2>3, <3>1 DEF TypeOK, tables
    <3>3. Listed'
      BY <1>0, <2>1, <2>2, <3>1 DEF TypeOK, Listed, DesktopOf, tables
    <3>4. QED
      BY <1>0, <2>1, <3>1, <3>2, <3>3 DEF IsoInv
  <2>5. CASE cred.sub \in User \cup {None} /\ JudgeToken(c, u, cred.sub)
    <3>1. CASE cred.sub = u
      <4>1. /\ Succeeds(c, u) /\ role' = [role EXCEPT ![c] = Client(u)]
            /\ clients' = [clients EXCEPT ![u] = @ \cup {c}]
            /\ UNCHANGED <<desktop, pending, strayed>>
        BY <2>5, <3>1 DEF JudgeToken
      <4>2. TypeOK' /\ Speaks'
        BY <1>0, <2>1, <2>2, <2>3, <4>1 DEF TypeOK
      <4>3. Listed'
        BY <1>0, <2>1, <2>2, <4>1 DEF TypeOK, Listed, DesktopOf
      <4>4. QED
        BY <1>0, <2>1, <4>1, <4>2, <4>3 DEF IsoInv
    <3>2. CASE cred.sub # u
      <4>1. UNCHANGED <<limiter, role, tables, proved, strayed>>
        BY <2>5, <3>2 DEF JudgeToken
      <4>2. TypeOK' /\ Speaks'
        BY <1>0, <2>1, <4>1, LimiterTyped DEF TypeOK, Speaks, tables
      <4>3. Listed'
        BY <1>0, <2>1, <4>1 DEF Listed, DesktopOf, tables
      <4>4. QED
        BY <1>0, <2>1, <4>1, <4>2, <4>3 DEF IsoInv
    <3>3. QED
      BY <3>1, <3>2
  <2>6. CASE JudgePassword(c, u)
    <3>1. /\ Succeeds(c, u) /\ role' = role /\ desktop' = desktop /\ clients' = clients
          /\ pending' = pending \/ pending' = [pending EXCEPT ![u] = @ \cup {c}]
      BY <2>6 DEF JudgePassword
    <3>2. strayed' = {}
      <4>1. \A x \in DesktopOf(u) : sock[x] = "open" => u \in proved[x]
        BY <1>0, <2>1 DEF Listed
      <4>2. CASE Tell(DesktopOf(u), u)
        BY <1>0, <4>1, <4>2, TellStays
      <4>3. CASE UNCHANGED strayed
        BY <1>0, <4>3
      <4>4. QED
        BY <2>6, <4>2, <4>3 DEF JudgePassword
    <3>3. TypeOK' /\ Speaks'
      BY <1>0, <2>1, <2>2, <3>1, <3>2 DEF TypeOK, Speaks, Role
    <3>4. Listed'
      BY <1>0, <2>1, <2>2, <3>1 DEF TypeOK, Listed, DesktopOf
    <3>5. QED
      BY <2>1, <3>2, <3>3, <3>4 DEF IsoInv
  <2>7. CASE JudgeWrong(c, u)
    <3>1. RecordFailure(u) /\ UNCHANGED <<role, tables, proved, strayed>>
      BY <2>7 DEF JudgeWrong
    <3>2. TypeOK' /\ Speaks'
      BY <1>0, <2>1, <3>1, LimiterTyped DEF TypeOK, Speaks, tables
    <3>3. Listed'
      BY <1>0, <2>1, <3>1 DEF Listed, DesktopOf, tables
    <3>4. QED
      BY <1>0, <2>1, <3>1, <3>2, <3>3 DEF IsoInv
  <2>8. CASE UNCHANGED <<limiter, role, tables, proved, strayed>>
    <3>1. TypeOK' /\ Speaks'
      BY <1>0, <2>1, <2>8, LimiterTyped DEF TypeOK, Speaks, tables
    <3>2. Listed'
      BY <1>0, <2>1, <2>8 DEF Listed, DesktopOf, tables
    <3>3. QED
      BY <1>0, <2>1, <2>8, <3>1, <3>2 DEF IsoInv
  <2>9. QED
    BY <1>3, <2>4, <2>5, <2>6, <2>7, <2>8, Verdicts
<1>4. ASSUME NEW c \in Conn, role[c] # Nobody
      PROVE  role[c].user \in User /\ role[c].user \in proved[c]
             /\ role[c] \in [kind : {"Client", "Desktop"}, user : User]
  BY <1>0, <1>4 DEF TypeOK, Role, Speaks
<1>5. ASSUME NEW c \in Conn, DesktopRegister(c) PROVE IsoInv'
  <2> DEFINE u == role[c].user
  <2>1. /\ role[c] # Nobody /\ u \in User /\ u \in proved[c] /\ sock[c] = "open"
        /\ role[c] \in [kind : {"Client", "Desktop"}, user : User]
    BY <1>4, <1>5 DEF DesktopRegister, Reads, Nobody
  <2>2. /\ desktop' = [desktop EXCEPT ![u] = c]
        /\ role' = [role EXCEPT ![c] = [role[c] EXCEPT !.kind = "Desktop"]]
        /\ Tell(clients[u], u)
        /\ UNCHANGED <<limiter, sock, auth, clients, pending, proved>>
    BY <1>5 DEF DesktopRegister
  <2>3. strayed' = {}
    <3>1. \A x \in clients[u] : sock[x] = "open" => u \in proved[x]
      BY <1>0, <2>1 DEF Listed
    <3>2. QED
      BY <1>0, <2>2, <3>1, TellStays
  <2>4. /\ [role[c] EXCEPT !.kind = "Desktop"] \in Role
        /\ [role[c] EXCEPT !.kind = "Desktop"].user = u
    BY <2>1 DEF Role
  <2>5. role' \in [Conn -> Role] /\ Speaks'
    BY <1>0, <2>1, <2>2, <2>4 DEF TypeOK, Speaks
  <2>6. TypeOK' /\ Judging'
    BY <1>0, <2>1, <2>2, <2>3, <2>5, LimiterTyped DEF TypeOK, Judging
  <2>7. Listed'
    BY <1>0, <2>1, <2>2 DEF TypeOK, Listed, DesktopOf
  <2>8. QED
    BY <2>3, <2>5, <2>6, <2>7 DEF IsoInv
<1>6. ASSUME NEW c \in Conn, NEW x \in Conn, Answer(c, x) PROVE IsoInv'
  <2> DEFINE u == role[c].user
  <2>1. role[c] # Nobody /\ u \in User
    BY <1>4, <1>6 DEF Answer, Nobody
  <2>2. /\ x \in pending[u]
        /\ pending' = [pending EXCEPT ![u] = @ \ {x}]
        /\ clients' = clients \/ clients' = [clients EXCEPT ![u] = @ \cup {x}]
        /\ Tell({x}, u)
        /\ UNCHANGED <<limiter, sock, role, auth, desktop, proved>>
    BY <1>6 DEF Answer
  <2>3. sock[x] # "new" /\ (sock[x] = "open" => u \in proved[x])
    BY <1>0, <2>1, <2>2 DEF Listed
  <2>4. strayed' = {}
    BY <1>0, <2>2, <2>3, TellStays
  <2>5. TypeOK' /\ Speaks' /\ Judging'
    BY <1>0, <2>1, <2>2, <2>4, LimiterTyped DEF TypeOK, Speaks, Judging
  <2>6. Listed'
    BY <1>0, <2>1, <2>2, <2>3 DEF TypeOK, Listed, DesktopOf
  <2>7. QED
    BY <2>4, <2>5, <2>6 DEF IsoInv
<1>7. ASSUME NEW c \in Conn, NEW x \in Conn, Revoke(c, x) PROVE IsoInv'
  <2> DEFINE u == role[c].user
  <2>1. role[c] # Nobody /\ u \in User /\ u \in proved[c]
    BY <1>4, <1>7 DEF Revoke, Nobody
  <2>2. /\ x \in clients[u]
        /\ clients' = [clients EXCEPT ![u] = @ \ {x}]
        /\ Tell({x, c}, u)
        /\ UNCHANGED <<limiter, sock, role, auth, desktop, pending, proved>>
    BY <1>7 DEF Revoke
  <2>3. \A y \in {x, c} : sock[y] = "open" => u \in proved[y]
    BY <1>0, <2>1, <2>2 DEF Listed
  <2>4. strayed' = {}
    BY <1>0, <2>2, <2>3, TellStays
  <2>5. TypeOK' /\ Speaks' /\ Judging'
    BY <1>0, <2>1, <2>2, <2>4, LimiterTyped DEF TypeOK, Speaks, Judging
  <2>6. Listed'
    BY <1>0, <2>1, <2>2 DEF TypeOK, Listed, DesktopOf
  <2>7. QED
    BY <2>4, <2>5, <2>6 DEF IsoInv
<1>8. ASSUME NEW c \in Conn, NEW m \in Message, Forward(c, m) PROVE IsoInv'
  <2> DEFINE u == role[c].user
             S == IF role[c].kind = "Desktop" /\ m = "deviceList" THEN {c}
                  ELSE Receivers(role[c], m)
  <2>1. role[c] # Nobody /\ u \in User /\ u \in proved[c]
    BY <1>4, <1>8 DEF Forward
  <2>2. S \subseteq {c} \cup clients[u] \cup DesktopOf(u)
    BY DEF Receivers
  <2>3. \A y \in S : sock[y] = "open" => u \in proved[y]
    BY <1>0, <2>1, <2>2 DEF Listed
  <2>4. Tell(S, u) /\ UNCHANGED <<limiter, sock, role, auth, tables, proved>>
    BY <1>8 DEF Forward
  <2> HIDE DEF S
  <2>5. strayed' = {}
    BY <1>0, <2>3, <2>4, TellStays
  <2>6. TypeOK' /\ Speaks' /\ Judging'
    BY <1>0, <2>1, <2>4, <2>5, LimiterTyped DEF TypeOK, Speaks, Judging, tables
  <2>7. Listed'
    BY <1>0, <2>4 DEF Listed, DesktopOf, tables
  <2>8. QED
    BY <2>5, <2>6, <2>7 DEF IsoInv
<1>9. ASSUME NEW c \in Conn, Disconnect(c) PROVE IsoInv'
  <2> DEFINE u == role[c].user
  <2>1. /\ sock' = [sock EXCEPT ![c] = "closed"]
        /\ role' = [role EXCEPT ![c] = Nobody]
        /\ proved' = [proved EXCEPT ![c] = {}]
        /\ auth' = auth /\ auth[c] = None /\ UNCHANGED limiter /\ pending' = pending
    BY <1>9 DEF Disconnect, Reads
  <2>2. /\ strayed' = {}
        /\ clients' \in [User -> SUBSET Conn]
        /\ desktop' \in [User -> Conn \cup {None}]
        /\ \A v \in User : /\ clients'[v] \subseteq clients[v]
                           /\ desktop'[v] \in {desktop[v], None}
    <3>1. CASE role[c].kind = "Client"
      <4>1. role[c] # Nobody /\ u \in User
        BY <1>4, <3>1 DEF Nobody
      <4>2. clients' = [clients EXCEPT ![u] = @ \ {c}] /\ UNCHANGED <<desktop, strayed>>
        BY <1>9, <3>1 DEF Disconnect
      <4>3. QED
        BY <1>0, <4>1, <4>2 DEF TypeOK
    <3>2. CASE role[c].kind = "Desktop" /\ desktop[u] \in {None, c}
      <4>1. role[c] # Nobody /\ u \in User
        BY <1>4, <3>2 DEF Nobody
      <4>2. /\ desktop' = [desktop EXCEPT ![u] = None]
            /\ Tell(clients[u], u) /\ UNCHANGED clients
        BY <1>9, <3>2 DEF Disconnect
      <4>3. \A x \in clients[u] : sock[x] = "open" => u \in proved[x]
        BY <1>0, <4>1 DEF Listed
      <4>4. strayed' = {}
        BY <1>0, <4>2, <4>3, TellStays
      <4>5. QED
        BY <1>0, <4>1, <4>2, <4>4 DEF TypeOK
    <3>3. CASE /\ role[c].kind # "Client"
               /\ ~(role[c].kind = "Desktop" /\ desktop[u] \in {None, c})
      <4>1. UNCHANGED <<desktop, clients, strayed>>
        BY <1>9, <3>3 DEF Disconnect
      <4>2. QED
        BY <1>0, <4>1 DEF TypeOK
    <3>4. QED
      BY <3>1, <3>2, <3>3
  <2>3. TypeOK' /\ Judging'
    <3>1. LimiterTypeOK'
      BY <1>0, <2>1 DEF limiter, LimiterTypeOK
    <3>2. QED
      BY <1>0, <2>1, <2>2, <3>1 DEF TypeOK, Judging, Role
  <2>4. Speaks'
    BY <1>0, <2>1 DEF TypeOK, Speaks
  <2>5. Listed'
    BY <1>0, <2>1, <2>2 DEF TypeOK, Listed, DesktopOf
  <2>6. QED
    BY <2>2, <2>3, <2>4, <2>5 DEF IsoInv
<1>10. CASE Tick
  <2>1. TickLocks /\ UNCHANGED <<sock, role, auth, tables, proved, strayed>>
    BY <1>10 DEF Tick
  <2>2. LimiterTypeOK'
    <3>1. \E u \in User : TRUE
      BY <2>1 DEF TickLocks
    <3>2. QED
      BY <1>0, <2>1, <3>1, LimiterTyped
  <2>3. TypeOK' /\ Speaks' /\ Judging'
    BY <1>0, <2>1, <2>2 DEF TypeOK, Speaks, Judging, tables
  <2>4. Listed'
    BY <1>0, <2>1 DEF Listed, DesktopOf, tables
  <2>5. QED
    BY <1>0, <2>1, <2>3, <2>4 DEF IsoInv
<1>11. CASE UNCHANGED vars
  <2>1. UNCHANGED <<limiter, sock, role, auth, tables, proved, strayed>>
    BY <1>11 DEF vars
  <2>2. LimiterTypeOK'
    BY <1>0, <2>1 DEF limiter, LimiterTypeOK
  <2>3. TypeOK' /\ Speaks' /\ Judging'
    BY <1>0, <2>1, <2>2 DEF TypeOK, Speaks, Judging, tables
  <2>4. Listed'
    BY <1>0, <2>1 DEF Listed, DesktopOf, tables
  <2>5. QED
    BY <1>0, <2>1, <2>3, <2>4 DEF IsoInv
<1>12. QED
  BY <1>1, <1>2, <1>3, <1>5, <1>6, <1>7, <1>8, <1>9, <1>10, <1>11 DEF Next

\* Nobody has proved anything yet, and the tables are empty.
LEMMA IsoInit == Init => IsoInv
<1> SUFFICES ASSUME Init PROVE IsoInv
  OBVIOUS
<1> USE GatewayAssumption, LimiterAssumption
<1>1. LimiterTypeOK
  BY DEF Init, LimiterInit, LimiterTypeOK
<1>2. TypeOK
  BY <1>1 DEF Init, TypeOK, Role
<1>3. Speaks /\ Judging
  BY DEF Init, Speaks, Judging
<1>4. Listed
  BY DEF Init, Listed, DesktopOf
<1>5. QED
  BY <1>2, <1>3, <1>4 DEF Init, IsoInv

\* Roles, tables, limiter and logins in flight are well typed.
THEOREM TypeCorrect == Spec => []TypeOK
<1>1. IsoInv => TypeOK
  BY DEF IsoInv
<1>2. QED
  BY <1>1, IsoInit, IsoStep, PTL DEF Spec

\* The accounts of one relay are kept apart, for any number of accounts and
\* sockets: a socket that proved no credential of an account neither speaks for
\* it, nor is in its tables, nor was ever sent a message of it.
THEOREM AccountsIsolated == Spec => []Isolated
<1>1. IsoInv => Isolated
  BY DEF IsoInv, Isolated, Speaks, Listed
<1>2. QED
  BY <1>1, IsoInit, IsoStep, PTL DEF Spec

-----------------------------------------------------------------------------
(* Guesses.                                                                *)

\* The account u is not locked: its failures are the guesses judged in this
\* period, fewer than the limit; or a lock has run out, the failures are still
\* at the limit and the next guess will lock again.
Counting(u) ==
  \/ allow[u] = MaxFailures /\ failures[u] = judged[u] /\ judged[u] < MaxFailures
  \/ allow[u] = 1 /\ failures[u] = MaxFailures /\ judged[u] = 0

\* The account u is locked: every guess that may still be judged is in flight.
Closing(u) ==
  /\ failures[u] = MaxFailures
  /\ judged[u] + Cardinality(InFlight(u)) <= allow[u] - 1 + Cardinality(Conn)

\* The inductive invariant behind GuessesBounded.
GuessInv ==
  /\ TypeOK
  /\ \A u \in User : IF Locked(u) THEN Closing(u) ELSE Counting(u)

\* The logins in flight are finitely many, no more than there are sockets.
LEMMA Flying ==
  ASSUME NEW u
  PROVE  /\ IsFiniteSet(InFlight(u)) /\ IsFiniteSet(Conn)
         /\ Cardinality(InFlight(u)) \in Nat /\ Cardinality(Conn) \in Nat
         /\ Cardinality(InFlight(u)) <= Cardinality(Conn)
<1>1. InFlight(u) \subseteq Conn /\ IsFiniteSet(Conn)
  BY GatewayAssumption DEF InFlight
<1>2. IsFiniteSet(InFlight(u)) /\ Cardinality(InFlight(u)) <= Cardinality(Conn)
  BY <1>1, FS_Subset
<1>3. QED
  BY <1>1, <1>2, FS_CardinalityType

\* A verdict on a login to u takes it out of those in flight.
LEMMA Landed ==
  ASSUME TypeOK, NEW c \in Conn, NEW u \in User, auth[c] = u,
         auth' = [auth EXCEPT ![c] = None]
  PROVE  /\ Cardinality(InFlight(u)') = Cardinality(InFlight(u)) - 1
         /\ \A v \in User \ {u} : InFlight(v)' = InFlight(v)
<1> USE GatewayAssumption
<1>1. InFlight(u)' = InFlight(u) \ {c} /\ c \in InFlight(u)
  BY DEF InFlight, TypeOK
<1>2. \A v \in User \ {u} : InFlight(v)' = InFlight(v)
  BY DEF InFlight, TypeOK
<1>3. Cardinality(InFlight(u)') = Cardinality(InFlight(u)) - 1
  BY <1>1, Flying, FS_RemoveElement
<1>4. QED
  BY <1>2, <1>3

\* A wrong guess.
LEMMA FailureGuess ==
  ASSUME GuessInv, NEW c \in Conn, auth[c] \in User, auth' = [auth EXCEPT ![c] = None],
         RecordFailure(auth[c]), NEW v \in User
  PROVE  IF Locked(v)' THEN Closing(v)' ELSE Counting(v)'
<1> USE LimiterAssumption
<1> DEFINE u == auth[c]
<1>0. TypeOK /\ LimiterTypeOK
  BY DEF GuessInv, TypeOK
<1>1. /\ v # u => InFlight(v)' = InFlight(v)
      /\ v = u => Cardinality(InFlight(v)') = Cardinality(InFlight(v)) - 1
      /\ Cardinality(InFlight(v)) \in Nat /\ Cardinality(Conn) \in Nat
      /\ Cardinality(InFlight(v)) <= Cardinality(Conn)
  BY <1>0, Landed, Flying
<1>2. /\ allow' = allow
      /\ failures'[v] = IF v = u /\ failures[v] < MaxFailures THEN failures[v] + 1
                        ELSE failures[v]
      /\ lock'[v] = IF v = u /\ failures'[v] = MaxFailures THEN LockTicks ELSE lock[v]
      /\ judged'[v] = IF v = u THEN judged[v] + 1 ELSE judged[v]
  BY <1>0 DEF RecordFailure, LimiterTypeOK
<1>3. /\ failures[v] \in 0..MaxFailures /\ judged[v] \in Nat /\ allow[v] \in {1, MaxFailures}
      /\ lock[v] \in 0..LockTicks
  BY <1>0 DEF LimiterTypeOK
<1>4. IF Locked(v) THEN Closing(v) ELSE Counting(v)
  BY DEF GuessInv
<1>5. CASE v # u
  BY <1>1, <1>2, <1>4, <1>5 DEF Locked, Closing, Counting
<1>6. CASE v = u /\ Locked(v)
  BY <1>1, <1>2, <1>3, <1>4, <1>6 DEF Locked, Closing
<1>7. CASE v = u /\ ~Locked(v)
  <2>1. CASE failures'[v] = MaxFailures
    <3>1. lock'[v] > 0
      BY <1>2, <1>7, <2>1
    <3>2. judged'[v] + Cardinality(InFlight(v)') <= allow'[v] - 1 + Cardinality(Conn)
      BY <1>1, <1>2, <1>3, <1>4, <1>7, <2>1 DEF Counting
    <3>3. QED
      BY <2>1, <3>1, <3>2 DEF Locked, Closing
  <2>2. CASE failures'[v] # MaxFailures
    BY <1>2, <1>3, <1>4, <1>7, <2>2 DEF Locked, Counting
  <2>3. QED
    BY <2>1, <2>2
<1>8. QED
  BY <1>5, <1>6, <1>7

\* A right credential.
LEMMA SuccessGuess ==
  ASSUME GuessInv, NEW c \in Conn, auth[c] \in User, auth' = [auth EXCEPT ![c] = None],
         ClearRateLimit(auth[c]), NEW v \in User
  PROVE  IF Locked(v)' THEN Closing(v)' ELSE Counting(v)'
<1> USE LimiterAssumption
<1>0. TypeOK /\ LimiterTypeOK
  BY DEF GuessInv, TypeOK
<1>1. IF Locked(v) THEN Closing(v) ELSE Counting(v)
  BY DEF GuessInv
<1>2. CASE v # auth[c]
  <2>1. InFlight(v)' = InFlight(v)
    BY <1>0, <1>2, Landed
  <2>2. /\ allow'[v] = allow[v] /\ failures'[v] = failures[v]
        /\ lock'[v] = lock[v] /\ judged'[v] = judged[v]
    BY <1>0, <1>2 DEF ClearRateLimit, LimiterTypeOK
  <2>3. QED
    BY <1>1, <2>1, <2>2 DEF Locked, Closing, Counting
<1>3. CASE v = auth[c]
  BY <1>0, <1>3 DEF ClearRateLimit, LimiterTypeOK, Locked, Counting
<1>4. QED
  BY <1>2, <1>3

\* A step that leaves the limiter alone and starts no login to v while v is
\* locked.
LEMMA CalmGuess ==
  ASSUME GuessInv, NEW v \in User, UNCHANGED limiter,
         Locked(v) => InFlight(v)' \subseteq InFlight(v)
  PROVE  IF Locked(v)' THEN Closing(v)' ELSE Counting(v)'
<1>1. /\ failures' = failures /\ lock' = lock /\ judged' = judged /\ allow' = allow
  BY DEF limiter
<1>2. IF Locked(v) THEN Closing(v) ELSE Counting(v)
  BY DEF GuessInv
<1>3. CASE ~Locked(v)
  BY <1>1, <1>2, <1>3 DEF Locked, Counting
<1>4. CASE Locked(v)
  <2>1. Cardinality(InFlight(v)') <= Cardinality(InFlight(v))
        /\ Cardinality(InFlight(v)') \in Nat
    BY <1>4, Flying, FS_Subset, FS_CardinalityType
  <2>2. judged[v] \in Nat /\ allow[v] \in Nat
    BY LimiterAssumption DEF GuessInv, TypeOK, LimiterTypeOK
  <2>3. QED
    BY <1>1, <1>2, <1>4, <2>1, <2>2, Flying DEF Locked, Closing
<1>5. QED
  BY <1>3, <1>4

\* Time passes: a lock that runs out leaves one guess.
LEMMA TickGuess ==
  ASSUME GuessInv, NEW v \in User, TickLocks, UNCHANGED auth
  PROVE  IF Locked(v)' THEN Closing(v)' ELSE Counting(v)'
<1> USE LimiterAssumption
<1>1. InFlight(v)' = InFlight(v)
  BY DEF InFlight
<1>2. LimiterTypeOK /\ IF Locked(v) THEN Closing(v) ELSE Counting(v)
  BY DEF GuessInv, TypeOK
<1>3. lock[v] \in Nat
  BY <1>2 DEF LimiterTypeOK
<1>4. CASE lock[v] = 1
  BY <1>2, <1>4 DEF TickLocks, Locked, Closing, Counting
<1>5. CASE lock[v] # 1
  <2>1. /\ judged'[v] = judged[v] /\ allow'[v] = allow[v] /\ failures'[v] = failures[v]
        /\ (lock'[v] > 0) <=> (lock[v] > 0)
    BY <1>3, <1>5 DEF TickLocks
  <2>2. QED
    BY <1>1, <1>2, <2>1 DEF Locked, Closing, Counting
<1>6. QED
  BY <1>4, <1>5

\* Verdicts, seen from the limiter.
LEMMA VerdictLimiter ==
  ASSUME TypeOK, NEW c \in Conn, NEW cred \in Credential, Judge(c, cred)
  PROVE  /\ auth[c] \in User /\ auth' = [auth EXCEPT ![c] = None]
         /\ \/ RecordFailure(auth[c])
            \/ ClearRateLimit(auth[c])
            \/ UNCHANGED limiter
<1>1. auth[c] \in User /\ auth' = [auth EXCEPT ![c] = None]
  BY DEF Judge, TypeOK
<1>2. QED
  BY <1>1, Verdicts
     DEF JudgeKey, JudgeToken, JudgePassword, JudgeWrong, Succeeds

\* The steps that are no verdict and no tick.
LEMMA Others ==
  ASSUME TypeOK, NEW c \in Conn,
         \/ Accept(c) \/ DesktopRegister(c) \/ Disconnect(c)
         \/ \E u \in User : Auth(c, u)
         \/ \E x \in Conn : Answer(c, x) \/ Revoke(c, x)
         \/ \E m \in Message : Forward(c, m)
  PROVE  /\ UNCHANGED limiter
         /\ \A v \in User : Locked(v) => InFlight(v)' \subseteq InFlight(v)
<1>1. CASE \E u \in User : Auth(c, u)
  <2>1. PICK u \in User : Auth(c, u)
    BY <1>1
  <2>2. UNCHANGED limiter /\ ~Locked(u) /\ auth' = [auth EXCEPT ![c] = u]
    BY <2>1 DEF Auth
  <2>3. \A v \in User \ {u} : InFlight(v)' \subseteq InFlight(v)
    BY <2>2 DEF InFlight, TypeOK
  <2>4. QED
    BY <2>2, <2>3
<1>2. CASE ~\E u \in User : Auth(c, u)
  <2>1. UNCHANGED <<limiter, auth>>
    BY <1>2 DEF Accept, DesktopRegister, Disconnect, Answer, Revoke, Forward
  <2>2. QED
    BY <2>1 DEF InFlight
<1>3. QED
  BY <1>1, <1>2

\* Every step keeps the bound on the guesses.
LEMMA GuessStep == GuessInv /\ TypeOK' /\ [Next]_vars => GuessInv'
<1> SUFFICES ASSUME GuessInv, TypeOK', [Next]_vars, NEW v \in User
             PROVE  IF Locked(v)' THEN Closing(v)' ELSE Counting(v)'
  BY DEF GuessInv
<1>0. TypeOK
  BY DEF GuessInv
<1>1. ASSUME NEW c \in Conn, NEW cred \in Credential, Judge(c, cred)
      PROVE  IF Locked(v)' THEN Closing(v)' ELSE Counting(v)'
  <2>1. /\ auth[c] \in User /\ auth' = [auth EXCEPT ![c] = None]
        /\ RecordFailure(auth[c]) \/ ClearRateLimit(auth[c]) \/ UNCHANGED limiter
    BY <1>0, <1>1, VerdictLimiter
  <2>2. CASE RecordFailure(auth[c])
    BY <2>1, <2>2, FailureGuess
  <2>3. CASE ClearRateLimit(auth[c])
    BY <2>1, <2>3, SuccessGuess
  <2>4. CASE UNCHANGED limiter
    <3>1. InFlight(v)' \subseteq InFlight(v)
      BY <1>0, <2>1, GatewayAssumption DEF InFlight, TypeOK
    <3>2. QED
      BY <2>4, <3>1, CalmGuess
  <2>5. QED
    BY <2>1, <2>2, <2>3, <2>4
<1>2. CASE Tick
  BY <1>2, TickGuess DEF Tick
<1>3. CASE UNCHANGED vars
  <2>1. UNCHANGED limiter /\ InFlight(v)' = InFlight(v)
    BY <1>3 DEF vars, InFlight
  <2>2. QED
    BY <2>1, CalmGuess
<1>4. ASSUME NEW c \in Conn,
             \/ Accept(c) \/ DesktopRegister(c) \/ Disconnect(c)
             \/ \E u \in User : Auth(c, u)
             \/ \E x \in Conn : Answer(c, x) \/ Revoke(c, x)
             \/ \E m \in Message : Forward(c, m)
      PROVE  IF Locked(v)' THEN Closing(v)' ELSE Counting(v)'
  BY <1>0, <1>4, Others, CalmGuess
<1>5. QED
  BY <1>1, <1>2, <1>3, <1>4 DEF Next

\* MAX_FAILURES is overshot by no more guesses than there are sockets, however
\* many accounts are guessed at and however checks and verdicts interleave.
THEOREM GuessesStayBounded == Spec => []GuessesBounded
<1>1. Init => GuessInv
  <2> SUFFICES ASSUME Init PROVE GuessInv
    OBVIOUS
  <2>1. TypeOK
    BY IsoInit DEF IsoInv
  <2>2. \A u \in User : ~Locked(u) /\ Counting(u)
    <3> SUFFICES ASSUME NEW u \in User PROVE ~Locked(u) /\ Counting(u)
      OBVIOUS
    <3>1. lock[u] = 0 /\ allow[u] = MaxFailures /\ failures[u] = 0 /\ judged[u] = 0
      BY DEF Init, LimiterInit
    <3>2. QED
      BY <3>1, LimiterAssumption DEF Locked, Counting
  <2>3. QED
    BY <2>1, <2>2 DEF GuessInv
<1>2. GuessInv => GuessesBounded
  <2> SUFFICES ASSUME GuessInv, NEW u \in User
               PROVE  judged[u] <= allow[u] - 1 + Cardinality(Conn)
    BY DEF GuessesBounded
  <2>1. judged[u] \in Nat /\ allow[u] \in Nat
    BY LimiterAssumption DEF GuessInv, TypeOK, LimiterTypeOK
  <2>2. CASE Locked(u)
    BY <2>1, <2>2, Flying DEF GuessInv, Closing
  <2>3. CASE ~Locked(u)
    BY <2>1, <2>3, Flying, LimiterAssumption DEF GuessInv, Counting
  <2>4. QED
    BY <2>2, <2>3
<1>3. QED
  BY <1>1, <1>2, GuessStep, TypeCorrect, PTL DEF Spec

\* A lock runs out whatever keeps trying: while an account is locked, no login
\* joins those in flight, and a guess is only judged by leaving them.
THEOREM LocksRunOut == Spec => LockRunsOut
<1>1. ASSUME TypeOK, [Next]_vars, NEW u \in User, Locked(u), Locked(u)'
      PROVE  /\ InFlight(u)' \subseteq InFlight(u)
             /\ judged'[u] # judged[u] => InFlight(u)' # InFlight(u)
  <2>0. LimiterTypeOK
    BY <1>1 DEF TypeOK
  <2>1. ASSUME NEW c \in Conn, NEW cred \in Credential, Judge(c, cred)
        PROVE  /\ InFlight(u)' \subseteq InFlight(u)
               /\ judged'[u] # judged[u] => InFlight(u)' # InFlight(u)
    <3>1. /\ auth[c] \in User /\ auth' = [auth EXCEPT ![c] = None]
          /\ RecordFailure(auth[c]) \/ ClearRateLimit(auth[c]) \/ UNCHANGED limiter
      BY <1>1, <2>1, VerdictLimiter
    <3>2. CASE u = auth[c]
      BY <1>1, <3>1, <3>2, GatewayAssumption DEF InFlight, TypeOK
    <3>3. CASE u # auth[c]
      <4>1. InFlight(u)' = InFlight(u)
        BY <1>1, <3>1, <3>3, Landed
      <4>2. judged'[u] = judged[u]
        BY <2>0, <3>1, <3>3 DEF RecordFailure, ClearRateLimit, limiter, LimiterTypeOK
      <4>3. QED
        BY <4>1, <4>2
    <3>4. QED
      BY <3>2, <3>3
  <2>2. CASE Tick
    <3>1. InFlight(u)' = InFlight(u)
      BY <2>2 DEF Tick, InFlight
    <3>2. lock[u] # 1 /\ judged'[u] = judged[u]
      BY <1>1, <2>2 DEF Tick, TickLocks, Locked
    <3>3. QED
      BY <3>1, <3>2
  <2>3. CASE UNCHANGED vars
    BY <2>3 DEF vars, limiter, InFlight
  <2>4. ASSUME NEW c \in Conn,
               \/ Accept(c) \/ DesktopRegister(c) \/ Disconnect(c)
               \/ \E v \in User : Auth(c, v)
               \/ \E x \in Conn : Answer(c, x) \/ Revoke(c, x)
               \/ \E m \in Message : Forward(c, m)
        PROVE  /\ InFlight(u)' \subseteq InFlight(u)
               /\ judged'[u] # judged[u] => InFlight(u)' # InFlight(u)
    BY <1>1, <2>4, Others DEF limiter
  <2>5. QED
    BY <1>1, <2>1, <2>2, <2>3, <2>4 DEF Next
<1>2. TypeOK /\ [Next]_vars =>
        [\A u \in User : Locked(u) /\ Locked(u)' =>
           /\ InFlight(u)' \subseteq InFlight(u)
           /\ judged'[u] # judged[u] => InFlight(u)' # InFlight(u)]_vars
  BY <1>1
<1>3. QED
  BY <1>2, TypeCorrect, PTL DEF Spec, LockRunsOut

-----------------------------------------------------------------------------
(* The frame format.                                                       *)

\* A bounded sequence is a sequence within the bound.
LEMMA Bounded ==
  ASSUME NEW S, NEW n \in Nat, NEW s \in BoundedSeq(S, n)
  PROVE  s \in Seq(S) /\ Len(s) \in 0..n
<1>1. PICK m \in 0..n : s \in [1..m -> S]
  BY DEF BoundedSeq, SeqOf
<1>2. QED
  BY <1>1

\* A sequence that agrees with a stretch of another is that stretch.
LEMMA Stretch ==
  ASSUME NEW S, NEW s \in Seq(S), NEW t \in Seq(S), NEW k \in Nat,
         k + Len(t) <= Len(s), \A i \in 1..Len(t) : t[i] = s[k + i]
  PROVE  SubSeq(s, k + 1, k + Len(t)) = t
<1> DEFINE m == k + 1
           n == k + Len(t)
<1>1. Len(t) \in Nat /\ m \in Int /\ n \in Int /\ \A i \in m..n : s[i] \in S
  BY ElementOfSeq
<1>2. /\ Len(t) = (IF m <= n THEN n - m + 1 ELSE 0) /\ Len(t) = n - m + 1
      /\ \A i \in 1..Len(t) : s[m + i - 1] = t[i]
  <2>1. Len(t) = (IF m <= n THEN n - m + 1 ELSE 0) /\ Len(t) = n - m + 1
    BY <1>1
  <2>2. \A i \in 1..Len(t) : m + i - 1 = k + i
    BY <1>1
  <2>3. QED
    BY <2>1, <2>2
<1> HIDE DEF m, n
<1>3. /\ SubSeq(s, m, n) \in Seq(S)
      /\ Len(SubSeq(s, m, n)) = IF m <= n THEN n - m + 1 ELSE 0
      /\ \A i \in 1..n - m + 1 : SubSeq(s, m, n)[i] = s[m + i - 1]
  BY <1>1, SubSeqProperties
<1>4. Len(SubSeq(s, m, n)) = Len(t) /\ \A i \in 1..Len(t) : SubSeq(s, m, n)[i] = t[i]
  BY <1>2, <1>3
<1>5. SubSeq(s, m, n) = t
  BY <1>3, <1>4, SeqEqual
<1>6. QED
  BY <1>5 DEF m, n

\* What the bytes of a frame may be.
Byte == TypeByte \cup IdByte \cup {"x"}

\* The slot of fixed width that build_binary_frame fills with an identifier.
Slot(id) == [i \in 1..IdLen |-> IF i <= Len(id) THEN id[i] ELSE "blank"]

LEMMA SlotFits ==
  ASSUME NEW id \in Seq(IdByte)
  PROVE  /\ Slot(id) \in Seq(IdByte) /\ Len(Slot(id)) = IdLen
         /\ \A i \in 1..IdLen : i <= Len(id) => Slot(id)[i] = id[i]
         /\ \A i \in 1..IdLen : i > Len(id) => Slot(id)[i] = "blank"
<1>1. IdLen \in Nat /\ IdLen > 0 /\ Len(id) \in Nat
  BY WireAssumption
<1>2. ASSUME NEW i \in 1..IdLen PROVE (IF i <= Len(id) THEN id[i] ELSE "blank") \in IdByte
  <2>1. CASE i <= Len(id)
    BY <1>1, <2>1, ElementOfSeq
  <2>2. CASE ~(i <= Len(id))
    BY <2>2 DEF IdByte
  <2>3. QED
    BY <2>1, <2>2
<1>3. Slot(id) \in [1..IdLen -> IdByte]
  BY <1>2 DEF Slot
<1>4. Slot(id) \in Seq(IdByte)
  BY <1>1, <1>3, SeqDef
<1>5. Len(Slot(id)) = IdLen
  BY <1>1, <1>3
<1>6. /\ \A i \in 1..IdLen : i <= Len(id) => Slot(id)[i] = id[i]
      /\ \A i \in 1..IdLen : i > Len(id) => Slot(id)[i] = "blank"
  BY <1>1 DEF Slot
<1>7. QED
  BY <1>4, <1>5, <1>6

\* Where the parts of a built frame lie.
LEMMA Layout ==
  ASSUME NEW t \in TypeByte, NEW id \in Seq(IdByte), NEW p \in Seq(Byte)
  PROVE  /\ Build(t, id, p) \in Seq(Byte) /\ Slot(id) \in Seq(Byte)
         /\ Len(Build(t, id, p)) = IdLen + 1 + Len(p) /\ Build(t, id, p)[1] = t
         /\ \A i \in 1..IdLen : Build(t, id, p)[i + 1] = Slot(id)[i]
         /\ \A i \in 1..Len(p) : Build(t, id, p)[IdLen + 1 + i] = p[i]
<1> DEFINE f == Build(t, id, p)
<1>1. IdLen \in Nat /\ IdLen > 0 /\ Len(p) \in Nat
  BY WireAssumption
<1>2. f = <<t>> \o Slot(id) \o p
  BY DEF Build, Slot
<1>3. /\ <<t>> \in Seq(Byte) /\ Slot(id) \in Seq(Byte) /\ p \in Seq(Byte)
      /\ Len(<<t>>) = 1 /\ <<t>>[1] = t
  <2>1. Slot(id) \in Seq(Byte)
    BY SlotFits, SeqMonotonic DEF Byte
  <2>2. QED
    BY <2>1 DEF Byte
<1> HIDE DEF f
<1>4. /\ <<t>> \o Slot(id) \in Seq(Byte) /\ Len(<<t>> \o Slot(id)) = IdLen + 1
      /\ (<<t>> \o Slot(id))[1] = t
      /\ \A i \in 1..IdLen : (<<t>> \o Slot(id))[i + 1] = Slot(id)[i]
  <2>1. Len(Slot(id)) = IdLen
    BY SlotFits
  <2>2. /\ <<t>> \o Slot(id) \in Seq(Byte) /\ Len(<<t>> \o Slot(id)) = 1 + IdLen
        /\ \A i \in 1..1 + IdLen :
             (<<t>> \o Slot(id))[i] = IF i <= 1 THEN <<t>>[i] ELSE Slot(id)[i - 1]
    BY <1>3, <2>1, ConcatProperties
  <2>3. QED
    BY <1>1, <1>3, <2>2
<1>5. /\ f \in Seq(Byte) /\ Len(f) = IdLen + 1 + Len(p) /\ f[1] = t
      /\ \A i \in 1..IdLen : f[i + 1] = Slot(id)[i]
      /\ \A i \in 1..Len(p) : f[IdLen + 1 + i] = p[i]
  <2>1. /\ f \in Seq(Byte) /\ Len(f) = IdLen + 1 + Len(p)
        /\ \A i \in 1..IdLen + 1 + Len(p) :
             f[i] = IF i <= IdLen + 1 THEN (<<t>> \o Slot(id))[i] ELSE p[i - (IdLen + 1)]
    BY <1>2, <1>3, <1>4, ConcatProperties
  <2>2. QED
    BY <1>1, <1>4, <2>1
<1>6. QED
  BY <1>3, <1>5 DEF f

\* What parse_binary_frame makes of it.
LEMMA Parsed ==
  ASSUME NEW t \in FrameType, NEW id \in Seq(IdByte), NEW p \in Seq(Byte)
  PROVE  Parse(Build(t, id, p)) =
           IF Utf8(Slot(id))
             THEN [ok |-> TRUE, type |-> t, id |-> Slot(id), payload |-> p]
             ELSE Failed
<1> SUFFICES ASSUME NEW f, f = Build(t, id, p)
             PROVE  Parse(f) =
                      IF Utf8(Slot(id))
                        THEN [ok |-> TRUE, type |-> t, id |-> Slot(id), payload |-> p]
                        ELSE Failed
  OBVIOUS
<1>1. IdLen \in Nat /\ IdLen > 0 /\ Len(p) \in Nat
  BY WireAssumption
<1>2. /\ f \in Seq(Byte) /\ Slot(id) \in Seq(Byte)
      /\ Len(f) = IdLen + 1 + Len(p) /\ f[1] = t
      /\ \A i \in 1..IdLen : f[i + 1] = Slot(id)[i]
      /\ \A i \in 1..Len(p) : f[IdLen + 1 + i] = p[i]
  <2>1. t \in TypeByte
    BY DEF TypeByte
  <2>2. /\ Build(t, id, p) \in Seq(Byte) /\ Slot(id) \in Seq(Byte)
        /\ Len(Build(t, id, p)) = IdLen + 1 + Len(p) /\ Build(t, id, p)[1] = t
        /\ \A i \in 1..IdLen : Build(t, id, p)[i + 1] = Slot(id)[i]
        /\ \A i \in 1..Len(p) : Build(t, id, p)[IdLen + 1 + i] = p[i]
    BY <2>1, Layout
  <2>3. QED
    BY <2>2
<1>3. Slot(id) \in Seq(IdByte) /\ Len(Slot(id)) = IdLen
  BY SlotFits
<1>4. SubSeq(f, 2, IdLen + 1) = Slot(id)
  <2>1. 1 + Len(Slot(id)) <= Len(f) /\ \A i \in 1..Len(Slot(id)) : Slot(id)[i] = f[1 + i]
    BY <1>1, <1>2, <1>3
  <2>2. SubSeq(f, 1 + 1, 1 + Len(Slot(id))) = Slot(id)
    BY <1>2, <2>1, Stretch
  <2>3. QED
    BY <1>1, <1>3, <2>2
<1>5. SubSeq(f, IdLen + 2, Len(f)) = p
  <2>1. /\ IdLen + 1 + Len(p) <= Len(f) /\ IdLen + 1 \in Nat
        /\ \A i \in 1..Len(p) : p[i] = f[IdLen + 1 + i]
    BY <1>1, <1>2
  <2>2. SubSeq(f, IdLen + 1 + 1, IdLen + 1 + Len(p)) = p
    BY <1>2, <2>1, Stretch
  <2>3. QED
    BY <1>1, <1>2, <2>2
<1>6. ~(Len(f) < IdLen + 1) /\ f[1] \in FrameType
  BY <1>1, <1>2
<1>7. QED
  BY <1>2, <1>4, <1>5, <1>6 DEF Parse

\* Padding never breaks a character; cutting does exactly when the slot ends
\* between the two bytes of one.
LEMMA SlotUtf8 ==
  ASSUME NEW id \in Seq(IdByte), Utf8(id)
  PROVE  Utf8(Slot(id)) <=> ~(Len(id) > IdLen /\ id[IdLen] = "lead")
<1>1. IdLen \in Nat /\ IdLen > 0 /\ Len(id) \in Nat
  BY WireAssumption
<1>2. /\ Len(Slot(id)) = IdLen
      /\ \A i \in 1..IdLen : i <= Len(id) => Slot(id)[i] = id[i]
      /\ \A i \in 1..IdLen : i > Len(id) => Slot(id)[i] = "blank"
  BY SlotFits
<1>3. CASE Len(id) > IdLen /\ id[IdLen] = "lead"
  <2>1. IdLen \in 1..IdLen /\ IdLen <= Len(id)
    BY <1>1, <1>3
  <2>2. Slot(id)[IdLen] = "lead"
    BY <1>2, <1>3, <2>1
  <2>3. ~(IdLen < Len(Slot(id)))
    BY <1>1, <1>2
  <2>4. ~Utf8(Slot(id))
    BY <1>2, <2>1, <2>2, <2>3 DEF Utf8
  <2>5. QED
    BY <1>3, <2>4
<1>4. CASE ~(Len(id) > IdLen /\ id[IdLen] = "lead")
  <2> SUFFICES ASSUME NEW i \in 1..IdLen
               PROVE  /\ Slot(id)[i] = "lead" => i < IdLen /\ Slot(id)[i + 1] = "cont"
                      /\ Slot(id)[i] = "cont" => i > 1 /\ Slot(id)[i - 1] = "lead"
    BY <1>2, <1>4 DEF Utf8
  <2>1. CASE Slot(id)[i] = "lead"
    <3>1. i <= Len(id) /\ id[i] = "lead"
      BY <1>1, <1>2, <2>1
    <3>2. i < Len(id) /\ id[i + 1] = "cont"
      BY <1>1, <3>1 DEF Utf8
    <3>3. i # IdLen
      BY <1>1, <1>4, <3>1, <3>2
    <3>4. i + 1 \in 1..IdLen /\ i + 1 <= Len(id) /\ i < IdLen
      BY <1>1, <3>2, <3>3
    <3>5. QED
      BY <1>2, <2>1, <3>2, <3>4
  <2>2. CASE Slot(id)[i] = "cont"
    <3>1. i <= Len(id) /\ id[i] = "cont"
      BY <1>1, <1>2, <2>2
    <3>2. i > 1 /\ id[i - 1] = "lead"
      BY <1>1, <3>1 DEF Utf8
    <3>3. i - 1 \in 1..IdLen /\ i - 1 <= Len(id)
      BY <1>1, <3>1, <3>2
    <3>4. QED
      BY <1>2, <2>2, <3>2, <3>3
  <2>3. QED
    BY <2>1, <2>2
<1>5. QED
  BY <1>3, <1>4

\* A frame built and parsed again, part by part.
LEMMA BuiltComesBack ==
  ASSUME NEW t \in FrameType, NEW id \in Seq(IdByte), Utf8(id), NEW p \in Seq(Byte),
         NEW m, m = Parse(Build(t, id, p))
  PROVE  /\ m.ok <=> ~(Len(id) > IdLen /\ id[IdLen] = "lead")
         /\ m.ok => m.type = t /\ m.payload = p
         /\ m.ok => (m.id = id <=> Len(id) = IdLen)
<1>1. IdLen \in Nat /\ IdLen > 0 /\ Len(id) \in Nat
  BY WireAssumption
<1>2. m = IF Utf8(Slot(id))
            THEN [ok |-> TRUE, type |-> t, id |-> Slot(id), payload |-> p]
            ELSE Failed
  BY Parsed
<1>3. CASE ~Utf8(Slot(id))
  <2>1. m.ok = FALSE
    BY <1>2, <1>3 DEF Failed
  <2>2. QED
    BY <1>3, <2>1, SlotUtf8
<1>4. CASE Utf8(Slot(id))
  <2>1. m.ok = TRUE /\ m.type = t /\ m.id = Slot(id) /\ m.payload = p
    BY <1>2, <1>4
  <2>2. Slot(id) = id <=> Len(id) = IdLen
    <3>1. /\ Slot(id) \in Seq(IdByte) /\ Len(Slot(id)) = IdLen
          /\ \A i \in 1..IdLen : i <= Len(id) => Slot(id)[i] = id[i]
      BY SlotFits
    <3>2. CASE Len(id) = IdLen
      <4>1. \A i \in 1..Len(id) : Slot(id)[i] = id[i]
        BY <1>1, <3>1, <3>2
      <4>2. QED
        BY <3>1, <3>2, <4>1, SeqEqual
    <3>3. QED
      BY <3>1, <3>2
  <2>3. QED
    BY <1>4, <2>1, <2>2, SlotUtf8
<1>5. QED
  BY <1>3, <1>4

\* A stretch of a sequence from position k + 1 to n.
LEMMA Part ==
  ASSUME NEW S, NEW f, NEW k \in Nat, NEW n \in Nat, k <= n,
         \A i \in k + 1..n : f[i] \in S
  PROVE  /\ SubSeq(f, k + 1, n) \in Seq(S) /\ Len(SubSeq(f, k + 1, n)) = n - k
         /\ \A i \in 1..n - k : SubSeq(f, k + 1, n)[i] = f[k + i]
<1> DEFINE m == k + 1
<1>1. m \in Int /\ n \in Int /\ \A i \in m..n : f[i] \in S
  OBVIOUS
<1>2. /\ (IF m <= n THEN n - m + 1 ELSE 0) = n - k
      /\ n - m + 1 = n - k /\ \A i \in 1..n - k : m + i - 1 = k + i
  OBVIOUS
<1> HIDE DEF m
<1>3. /\ SubSeq(f, m, n) \in Seq(S)
      /\ Len(SubSeq(f, m, n)) = IF m <= n THEN n - m + 1 ELSE 0
      /\ \A i \in 1..n - m + 1 : SubSeq(f, m, n)[i] = f[m + i - 1]
  BY <1>1, SubSeqProperties
<1>4. QED
  BY <1>2, <1>3 DEF m

\* A sequence with a type and a slot is built from them and from its rest.
LEMMA Rebuilt ==
  ASSUME NEW f \in Seq(Byte), NEW t \in TypeByte, f[1] = t, Len(f) >= IdLen + 1,
         \A i \in 2..IdLen + 1 : f[i] \in IdByte
  PROVE  Build(t, SubSeq(f, 2, IdLen + 1), SubSeq(f, IdLen + 2, Len(f))) = f
<1> DEFINE id == SubSeq(f, 2, IdLen + 1)
           p  == SubSeq(f, IdLen + 2, Len(f))
<1>1. IdLen \in Nat /\ IdLen > 0 /\ Len(f) \in Nat
  BY WireAssumption
<1>2. /\ id \in Seq(IdByte) /\ Len(id) = IdLen
      /\ \A i \in 1..IdLen : id[i] = f[1 + i]
  <2>1. /\ SubSeq(f, 1 + 1, IdLen + 1) \in Seq(IdByte)
        /\ Len(SubSeq(f, 1 + 1, IdLen + 1)) = IdLen + 1 - 1
        /\ \A i \in 1..IdLen + 1 - 1 : SubSeq(f, 1 + 1, IdLen + 1)[i] = f[1 + i]
    BY <1>1, Part
  <2>2. QED
    BY <1>1, <2>1
<1>3. /\ p \in Seq(Byte) /\ Len(p) = Len(f) - (IdLen + 1)
      /\ \A i \in 1..Len(p) : p[i] = f[IdLen + 1 + i]
  <2>1. \A i \in IdLen + 1 + 1..Len(f) : f[i] \in Byte
    BY <1>1, ElementOfSeq
  <2>2. /\ SubSeq(f, IdLen + 1 + 1, Len(f)) \in Seq(Byte)
        /\ Len(SubSeq(f, IdLen + 1 + 1, Len(f))) = Len(f) - (IdLen + 1)
        /\ \A i \in 1..Len(f) - (IdLen + 1) :
             SubSeq(f, IdLen + 1 + 1, Len(f))[i] = f[IdLen + 1 + i]
    BY <1>1, <2>1, Part
  <2>3. QED
    BY <1>1, <2>2
<1> HIDE DEF id, p
<1>4. /\ Build(t, id, p) \in Seq(Byte)
      /\ Len(Build(t, id, p)) = IdLen + 1 + Len(p) /\ Build(t, id, p)[1] = t
      /\ \A i \in 1..IdLen : Build(t, id, p)[i + 1] = Slot(id)[i]
      /\ \A i \in 1..Len(p) : Build(t, id, p)[IdLen + 1 + i] = p[i]
  <2>1. id \in Seq(IdByte) /\ p \in Seq(Byte)
    BY <1>2, <1>3
  <2>2. QED
    BY <2>1, Layout
<1>5. \A i \in 1..IdLen : Slot(id)[i] = id[i]
  <2>1. \A i \in 1..IdLen : i <= Len(id) => Slot(id)[i] = id[i]
    BY <1>2, SlotFits
  <2>2. QED
    BY <1>1, <1>2, <2>1
<1>6. Len(Build(t, id, p)) = Len(f)
  BY <1>1, <1>3, <1>4
<1>7. ASSUME NEW i \in 1..Len(f) PROVE Build(t, id, p)[i] = f[i]
  <2>1. CASE i = 1
    BY <1>4, <2>1
  <2>2. CASE i \in 2..IdLen + 1
    <3>1. PICK j \in 1..IdLen : j + 1 = i /\ 1 + j = i
      <4>1. i - 1 \in 1..IdLen /\ i - 1 + 1 = i /\ 1 + (i - 1) = i
        BY <1>1, <2>2
      <4>2. QED
        BY <4>1
    <3>2. Build(t, id, p)[j + 1] = Slot(id)[j] /\ Slot(id)[j] = f[1 + j]
      BY <1>2, <1>4, <1>5
    <3>3. QED
      BY <3>1, <3>2
  <2>3. CASE i > IdLen + 1
    <3>1. PICK j \in 1..Len(p) : IdLen + 1 + j = i
      <4>1. i - (IdLen + 1) \in 1..Len(p) /\ IdLen + 1 + (i - (IdLen + 1)) = i
        BY <1>1, <1>3, <2>3
      <4>2. QED
        BY <4>1
    <3>2. QED
      BY <1>3, <1>4, <3>1
  <2>4. QED
    BY <1>1, <2>1, <2>2, <2>3
<1>8. Build(t, id, p) = f
  BY <1>4, <1>6, <1>7, SeqEqual
<1>9. QED
  BY <1>8 DEF id, p

\* A frame that parses is rebuilt from its parts.
LEMMA ParsedIsRebuilt ==
  ASSUME NEW f \in Seq(Byte), NEW t \in TypeByte, f[1] = t,
         \A i \in 2..Len(f) : f[i] \in IdByte, Parse(f).ok
  PROVE  Build(Parse(f).type, Parse(f).id, Parse(f).payload) = f
<1> DEFINE id == SubSeq(f, 2, IdLen + 1)
           p  == SubSeq(f, IdLen + 2, Len(f))
<1>1. IdLen \in Nat /\ IdLen > 0 /\ Len(f) \in Nat
  BY WireAssumption
<1>2. Len(f) >= IdLen + 1
  BY <1>1 DEF Parse, Failed
<1>3. Parse(f) = [ok |-> TRUE, type |-> t, id |-> id, payload |-> p]
  BY DEF Parse, Failed
<1>4. Build(t, id, p) = f
  BY <1>1, <1>2, Rebuilt
<1> HIDE DEF id, p
<1>5. Parse(f).type = t /\ Parse(f).id = id /\ Parse(f).payload = p
  BY <1>3
<1>6. QED
  BY <1>4, <1>5

\* build_binary_frame and parse_binary_frame are inverse to each other up to
\* the padding and the cutting of identifiers, for a slot of any width and
\* payloads of any length.
THEOREM FormatInverts == RoundTrip
<1>1. ASSUME NEW t \in FrameType, NEW id \in Identifier, NEW p \in Payload,
             NEW m, m = Parse(Build(t, id, p))
      PROVE  /\ m.ok <=> ~(Len(id) > IdLen /\ id[IdLen] = "lead")
             /\ m.ok => m.type = t /\ m.payload = p
             /\ m.ok => (m.id = id <=> Len(id) = IdLen)
  <2>1. id \in Seq(IdByte) /\ Utf8(id)
    BY Bounded, WireAssumption DEF Identifier
  <2>2. p \in Seq({"x", "lead"}) /\ {"x", "lead"} \subseteq Byte
    BY Bounded, WireAssumption DEF Payload, Byte, IdByte
  <2>3. p \in Seq(Byte)
    BY <2>2, SeqMonotonic
  <2>4. QED
    BY <1>1, <2>1, <2>3, BuiltComesBack
<1>2. ASSUME NEW t \in TypeByte, NEW s \in BoundedSeq(IdByte, IdLen + 1)
      PROVE  Faithful(<<t>> \o s)
  <2> DEFINE f == <<t>> \o s
  <2>1. s \in Seq(IdByte)
    BY Bounded, WireAssumption
  <2>2. /\ f \in Seq(Byte) /\ Len(f) = 1 + Len(s) /\ f[1] = t
        /\ \A i \in 1..Len(s) : f[1 + i] = s[i] /\ s[i] \in IdByte
    BY <2>1, ElementOfSeq DEF Byte
  <2>3. \A i \in 2..Len(f) : f[i] \in IdByte
    BY <2>1, <2>2
  <2> HIDE DEF f
  <2>4. Faithful(f)
    BY <2>2, <2>3, ParsedIsRebuilt DEF Faithful
  <2>5. QED
    BY <2>4 DEF f
<1>3. QED
  BY <1>1, <1>2 DEF RoundTrip

\* So every frame an open socket exchanges with the relay comes back from the
\* parser as it was built.
THEOREM FramesComeBack == Spec => []FramesRoundTrip
<1>1. FramesRoundTrip
  BY FormatInverts DEF FramesRoundTrip
<1>2. QED
  BY <1>1, PTL

=============================================================================
