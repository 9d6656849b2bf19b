--------------------------- MODULE RegistryProofs ---------------------------
(***************************************************************************)
(* Proofs about Registry, for any number of sockets, devices, capability   *)
(* lists and any MAX_CLIENTS.                                              *)
(***************************************************************************)
EXTENDS Registry, FiniteSetTheorems, TLAPS

\* Type correctness is inductive: each handler step, suspended or not, keeps
\* every variable in its type and hands the next broker call its arguments.
LEMMA TypeStep == TypeOK /\ [Next]_vars => TypeOK'
<1> SUFFICES ASSUME TypeOK, [Next]_vars PROVE TypeOK'
  OBVIOUS
<1> USE RegistryAssumption DEF TypeOK, Entry
<1>1. ASSUME NEW c \in Conn, Accept(c) PROVE TypeOK'
  BY <1>1 DEF Accept, auth, calls, db, deskst, table
<1>2. ASSUME NEW c \in Conn, AuthDesktopKey(c) PROVE TypeOK'
  BY <1>2 DEF AuthDesktopKey, BecomesClient, auth, calls, db, deskst, table
<1>3. ASSUME NEW c \in Conn, NEW d \in Device, AuthToken(c, d) PROVE TypeOK'
  BY <1>3 DEF AuthToken, BecomesClient, Call, auth, calls, db, deskst, table
<1>4. ASSUME NEW tx \in Conn, NEW d \in Device, RegisterClient(tx, d)
      PROVE /\ clients' \subseteq Entry
            /\ status' \in [Conn -> Caps \cup {NotTold, Offline}]
            /\ refused' \subseteq Conn
  BY <1>4 DEF RegisterClient, ReplayStatus, Registered
<1>5. ASSUME NEW c \in Conn, AuthRegister(c) PROVE TypeOK'
  <2>1. arg[c] \in Device /\ RegisterClient(c, arg[c])
    BY <1>5 DEF AuthRegister
  <2>2. /\ clients' \subseteq Entry
        /\ status' \in [Conn -> Caps \cup {NotTold, Offline}]
        /\ refused' \subseteq Conn
    BY <2>1, <1>4
  <2>3. QED
    BY <1>5, <2>2 DEF AuthRegister, Return, auth, db, deskst
<1>6. ASSUME NEW c \in Conn, AuthCredentials(c) PROVE TypeOK'
  BY <1>6 DEF AuthCredentials, Call, auth, db, deskst, table
<1>7. ASSUME NEW c \in Conn, AuthNotify(c) PROVE TypeOK'
  <2> USE DEF auth, db, deskst, table
  <2>1. CASE Return(c) /\ UNCHANGED <<db, prompts>>
    BY <2>1, <1>7 DEF AuthNotify, Return
  <2>2. ASSUME NEW d \in Device \ minted,
               /\ minted' = minted \cup {d}
               /\ devices' = devices \cup {d}
               /\ prompts' = [x \in Conn |-> IF x = desktopTx /\ sock[x] = "open"
                                             THEN prompts[x] \cup {d}
                                             ELSE prompts[x]]
               /\ Call(c, "authPend", d, None)
               /\ UNCHANGED tokens
        PROVE TypeOK'
    BY <2>2, <1>7 DEF AuthNotify, Call
  <2>3. QED
    BY <1>7, <2>1, <2>2 DEF AuthNotify
<1>8. ASSUME NEW c \in Conn, AuthPend(c) PROVE TypeOK'
  BY <1>8 DEF AuthPend, Return, auth, db, deskst, table
<1>9. ASSUME NEW c \in Conn, NEW k \in Caps, DesktopRegister(c, k) PROVE TypeOK'
  BY <1>9 DEF DesktopRegister, RegisterDesktop, calls, db
<1>10. ASSUME NEW c \in Conn, NEW d \in Device, DeviceApproved(c, d) PROVE TypeOK'
  <2> USE DEF auth, deskst, table, calls
  <2>1. prompts' \in [Conn -> SUBSET Device]
    BY <1>10 DEF DeviceApproved, Answers
  <2>2. CASE UNCHANGED <<pending, tokens, calls>>
    BY <1>10, <2>1, <2>2 DEF DeviceApproved
  <2>3. ASSUME NEW p \in pending,
               /\ pending' = pending \ {p}
               /\ tokens' = tokens \cup {d}
               /\ Call(c, "approveRegister", d, p.tx)
        PROVE TypeOK'
    BY <1>10, <2>1, <2>3 DEF DeviceApproved, Call
  <2>4. QED
    BY <1>10, <2>2, <2>3 DEF DeviceApproved
<1>11. ASSUME NEW c \in Conn, ApproveRegister(c) PROVE TypeOK'
  <2>1. arg[c] \in Device /\ peer[c] \in Conn /\ RegisterClient(peer[c], arg[c])
    BY <1>11 DEF ApproveRegister
  <2>2. /\ clients' \subseteq Entry
        /\ status' \in [Conn -> Caps \cup {NotTold, Offline}]
        /\ refused' \subseteq Conn
    BY <2>1, <1>4
  <2>3. QED
    BY <1>11, <2>2 DEF ApproveRegister, Return, auth, db, deskst
<1>12. ASSUME NEW c \in Conn, NEW d \in Device, DeviceRejected(c, d) PROVE TypeOK'
  BY <1>12 DEF DeviceRejected, Answers, auth, calls, deskst, table
<1>13. ASSUME NEW c \in Conn, NEW d \in Device, DeviceRevoke(c, d) PROVE TypeOK'
  BY <1>13 DEF DeviceRevoke, Call, auth, db, deskst
<1>14. ASSUME NEW c \in Conn, RevokeRow(c) PROVE TypeOK'
  BY <1>14 DEF RevokeRow, Return, auth, deskst, table
<1>15. ASSUME NEW c \in Conn, Disconnect(c) PROVE TypeOK'
  BY <1>15 DEF Disconnect, UnregisterDesktop, UnregisterClient, auth, calls,
               db, deskst, table
<1>16. CASE UNCHANGED vars
  BY <1>16 DEF vars, auth, calls, db, deskst, table
<1>17. QED
  BY <1>1, <1>2, <1>3, <1>5, <1>6, <1>7, <1>8, <1>9, <1>10, <1>11, <1>12,
     <1>13, <1>14, <1>15, <1>16 DEF Next

\* Every reachable state of the registration tables, of the suspended
\* handlers and of the database rows is well typed.
THEOREM TypeCorrect == Spec => []TypeOK
<1>1. Init => TypeOK
  BY RegistryAssumption DEF Init, TypeOK, Entry
<1>2. QED
  BY <1>1, TypeStep, PTL DEF Spec

-----------------------------------------------------------------------------
(* What a step can do to the table of clients, to the statuses and to the  *)
(* desktop.  Only these five kinds of step touch them.                     *)

\* A call of register_client, by a token login or by an approval.
Registers(tx, d) ==
  /\ RegisterClient(tx, d)
  /\ UNCHANGED <<sock, kind, dev, turned, desktopTx, desktopCaps, latest, kicked>>
  /\ \A c \in Conn : pc'[c] = "authRegister" => pc[c] = "authRegister"
  /\ \A c \in Conn : pc[c] = "authRegister" /\ pc'[c] # "authRegister" => c = tx

\* A step that leaves table, statuses and desktop alone.  It may open a
\* socket and give one a Client role, but then the handler is about to
\* register it or the role is on the synthetic device.
Quiet ==
  /\ UNCHANGED <<clients, status, refused, desktopTx, desktopCaps, latest, kicked>>
  /\ \A c \in Conn : sock'[c] = sock[c] \/ (sock[c] = "new" /\ sock'[c] = "open")
  /\ turned \subseteq turned'
  /\ \A c \in Conn : <<kind'[c], dev'[c]>> = <<kind[c], dev[c]>>
                    \/ /\ sock[c] = "open" /\ kind'[c] = "Client"
                       /\ desktopTx = c => c \in turned'
                       /\ dev'[c] = DesktopId \/ pc'[c] = "authRegister"
  /\ \A c \in Conn : pc[c] = "authRegister" => pc'[c] = "authRegister"

\* Every step of the system is one of five kinds.
LEMMA StepKinds ==
  ASSUME TypeOK, [Next]_vars
  PROVE  \/ Quiet
         \/ \E tx \in Conn, d \in Device : Registers(tx, d)
         \/ \E c \in Conn, k \in Caps : DesktopRegister(c, k)
         \/ \E c \in Conn, d \in Device : DeviceRevoke(c, d)
         \/ \E c \in Conn : Disconnect(c)
<1> USE RegistryAssumption DEF TypeOK
<1>1. ASSUME NEW c \in Conn, Accept(c) PROVE Quiet
  BY <1>1 DEF Accept, Quiet, auth, calls, deskst, table
<1>2. ASSUME NEW c \in Conn, AuthDesktopKey(c) PROVE Quiet
  BY <1>2 DEF AuthDesktopKey, BecomesClient, Quiet, MayAuth, Reads, calls, deskst, table
<1>3. ASSUME NEW c \in Conn, NEW d \in Device, AuthToken(c, d) PROVE Quiet
  BY <1>3 DEF AuthToken, BecomesClient, Call, Quiet, MayAuth, Reads, deskst, table
<1>4. ASSUME NEW c \in Conn, AuthRegister(c)
      PROVE \E tx \in Conn, d \in Device : Registers(tx, d)
  <2>1. Registers(c, arg[c]) /\ arg[c] \in Device
    BY <1>4 DEF AuthRegister, Registers, Return, auth, deskst
  <2>2. QED
    BY <2>1
<1>5. ASSUME NEW c \in Conn, AuthCredentials(c) PROVE Quiet
  BY <1>5 DEF AuthCredentials, Call, Quiet, MayAuth, Reads, auth, deskst, table
<1>6. ASSUME NEW c \in Conn, AuthNotify(c) PROVE Quiet
  BY <1>6 DEF AuthNotify, Call, Return, Quiet, auth, deskst, table
<1>7. ASSUME NEW c \in Conn, AuthPend(c) PROVE Quiet
  BY <1>7 DEF AuthPend, Return, Quiet, auth, deskst, table
<1>8. ASSUME NEW c \in Conn, NEW d \in Device, DeviceApproved(c, d) PROVE Quiet
  BY <1>8 DEF DeviceApproved, Answers, Reads, Call, Quiet, auth, calls, deskst,
              table
<1>9. ASSUME NEW c \in Conn, ApproveRegister(c)
      PROVE \E tx \in Conn, d \in Device : Registers(tx, d)
  <2>1. Registers(peer[c], arg[c]) /\ arg[c] \in Device /\ peer[c] \in Conn
    BY <1>9 DEF ApproveRegister, Registers, Return, auth, deskst
  <2>2. QED
    BY <2>1
<1>10. ASSUME NEW c \in Conn, NEW d \in Device, DeviceRejected(c, d) PROVE Quiet
  BY <1>10 DEF DeviceRejected, Quiet, auth, calls, deskst, table
<1>11. ASSUME NEW c \in Conn, RevokeRow(c) PROVE Quiet
  BY <1>11 DEF RevokeRow, Return, Quiet, auth, deskst, table
<1>12. CASE UNCHANGED vars
  BY <1>12 DEF vars, Quiet, auth, calls, deskst, table
<1>13. QED
  BY <1>1, <1>2, <1>3, <1>4, <1>5, <1>6, <1>7, <1>8, <1>9, <1>10, <1>11, <1>12
     DEF Next

-----------------------------------------------------------------------------
(* What clients know of the desktop                                        *)

\* StatusAgrees is not inductive: a socket that registers while no desktop is
\* there keeps the status it has, so what an unregistered socket was told
\* matters.  It was told nothing.  Closed, not open, is the case to exclude:
\* accepting a socket changes nothing it was told.
StatusInv ==
  /\ \A e \in clients :
       sock[e.tx] # "closed" /\ e.tx \notin kicked
         => \/ status[e.tx] = Truth
            \/ desktopTx = None /\ status[e.tx] = NotTold
  /\ \A c \in Conn : ~Registered(c) /\ sock[c] # "closed" /\ c \notin kicked
                      => status[c] = NotTold

\* The strengthened status invariant survives every kind of step.
LEMMA StatusStep == TypeOK /\ StatusInv /\ [Next]_vars => StatusInv'
<1> SUFFICES ASSUME TypeOK, StatusInv, [Next]_vars PROVE StatusInv'
  OBVIOUS
<1> USE RegistryAssumption DEF TypeOK, Entry, StatusInv, Truth, Registered
<1>1. CASE Quiet
  BY <1>1 DEF Quiet
<1>2. ASSUME NEW tx \in Conn, NEW d \in Device, Registers(tx, d) PROVE StatusInv'
  <2>1. CASE Registered(tx) \/ Cardinality(clients) < MaxClients
    <3>1. /\ clients' = {e \in clients : e.tx # tx} \cup {[tx |-> tx, device |-> d]}
          /\ ReplayStatus(tx)
      BY <1>2, <2>1 DEF Registers, RegisterClient
    <3>2. \A c \in Conn : c # tx => status'[c] = status[c]
      BY <3>1 DEF ReplayStatus
    <3>3. status'[tx] = IF desktopTx = None THEN status[tx] ELSE desktopCaps
      BY <3>1 DEF ReplayStatus
    <3>4. desktopTx = None /\ sock[tx] # "closed" /\ tx \notin kicked
            => status[tx] \in {NotTold, Offline}
      OBVIOUS
    <3> DEFINE new == [tx |-> tx, device |-> d]
    <3>a. new \in Entry /\ new \in clients' /\ new.tx = tx
      BY <3>1
    <3>5. /\ UNCHANGED <<sock, desktopTx, desktopCaps, kicked>>
          /\ \A e \in clients' : e \in Entry /\ (e.tx = tx \/ e \in clients)
      BY <1>2, <3>1, <3>a DEF Registers
    <3>6. Registered(tx)' /\ \A c \in Conn : Registered(c) => Registered(c)'
      <4> HIDE DEF new
      <4>1. \A e \in clients : e.tx = tx \/ e \in clients'
        BY <3>1
      <4>2. QED
        BY <4>1, <3>a
    <3>7. ASSUME NEW e \in clients', sock'[e.tx] # "closed", e.tx \notin kicked'
          PROVE  \/ status'[e.tx] = Truth'
                 \/ desktopTx' = None /\ status'[e.tx] = NotTold
      <4>1. CASE e.tx = tx
        BY <3>3, <3>4, <3>5, <3>7, <4>1
      <4>2. CASE e.tx # tx
        BY <3>2, <3>5, <3>7, <4>2
      <4>3. QED
        BY <4>1, <4>2
    <3>8. ASSUME NEW c \in Conn, ~Registered(c)', sock'[c] # "closed", c \notin kicked'
          PROVE  status'[c] = NotTold
      BY <3>2, <3>5, <3>6, <3>8
    <3>9. QED
      BY <3>7, <3>8
  <2>2. CASE ~(Registered(tx) \/ Cardinality(clients) < MaxClients)
    BY <1>2, <2>2 DEF Registers, RegisterClient
  <2>3. QED
    BY <2>1, <2>2
<1>3. ASSUME NEW c \in Conn, NEW k \in Caps, DesktopRegister(c, k) PROVE StatusInv'
  BY <1>3 DEF DesktopRegister, RegisterDesktop
<1>4. ASSUME NEW c \in Conn, NEW d \in Device, DeviceRevoke(c, d) PROVE StatusInv'
  BY <1>4 DEF DeviceRevoke, deskst
<1>5. ASSUME NEW c \in Conn, Disconnect(c) PROVE StatusInv'
  <2>1. CASE UnregisterDesktop(c)
    BY <1>5, <2>1 DEF Disconnect, UnregisterDesktop
  <2>2. CASE UnregisterClient(c)
    BY <1>5, <2>2 DEF Disconnect, UnregisterClient, deskst
  <2>3. CASE UNCHANGED <<table, deskst>>
    BY <1>5, <2>3 DEF Disconnect, table, deskst
  <2>4. QED
    BY <1>5, <2>1, <2>2, <2>3 DEF Disconnect
<1>6. QED
  BY <1>1, <1>2, <1>3, <1>4, <1>5, StepKinds

\* Whatever the order of desktop registrations, desktop cleanups, approvals and
\* logins, a registered client's last desktop_status is true of the account.
THEOREM StatusTruthful == Spec => []StatusAgrees
<1>1. Init => StatusInv
  BY DEF Init, StatusInv, Registered
<1>2. StatusInv => StatusAgrees
  BY DEF StatusInv, StatusAgrees
<1>3. QED
  BY <1>1, <1>2, StatusStep, TypeCorrect, PTL DEF Spec

-----------------------------------------------------------------------------
(* Last writer wins                                                        *)

\* A socket that was never accepted has no role: needed because Accept would
\* otherwise make an idle latest connection a desktop.
LatestInv ==
  /\ LatestDesktopStays
  /\ \A c \in Conn : sock[c] = "new" => kind[c] = "Unauthenticated"

\* The late cleanup of an evicted desktop never takes its successor off.
THEOREM LastWriterWins == Spec => []LatestDesktopStays
<1>1. Init => LatestInv
  BY RegistryAssumption DEF Init, LatestInv, LatestDesktopStays
<1>2. TypeOK /\ LatestInv /\ [Next]_vars => LatestInv'
  <2> SUFFICES ASSUME TypeOK, LatestInv, [Next]_vars PROVE LatestInv'
    OBVIOUS
  <2> USE DEF TypeOK, LatestInv, LatestDesktopStays
  <2>1. CASE Quiet
    BY <2>1 DEF Quiet
  <2>2. ASSUME NEW tx \in Conn, NEW d \in Device, Registers(tx, d) PROVE LatestInv'
    BY <2>2 DEF Registers
  <2>3. ASSUME NEW c \in Conn, NEW k \in Caps, DesktopRegister(c, k) PROVE LatestInv'
    BY <2>3 DEF DesktopRegister, RegisterDesktop, Reads
  <2>4. ASSUME NEW c \in Conn, NEW d \in Device, DeviceRevoke(c, d) PROVE LatestInv'
    BY <2>4 DEF DeviceRevoke, deskst, auth
  <2>5. ASSUME NEW c \in Conn, Disconnect(c) PROVE LatestInv'
    BY <2>5, RegistryAssumption
       DEF Disconnect, UnregisterDesktop, UnregisterClient, AlreadyReplaced, Reads,
           auth, table, deskst
  <2>6. QED
    BY <2>1, <2>2, <2>3, <2>4, <2>5, StepKinds
<1>3. LatestInv => LatestDesktopStays
  BY DEF LatestInv
<1>4. QED
  BY <1>1, <1>2, <1>3, TypeCorrect, PTL DEF Spec

\* No step drops the desktop silently.
THEOREM NoSilentDrop == Spec => DesktopChangeIsAnnounced
<1>1. TypeOK /\ [Next]_vars => [Announced]_vars
  <2> SUFFICES ASSUME TypeOK, [Next]_vars PROVE Announced
    OBVIOUS
  <2> USE RegistryAssumption DEF TypeOK, Entry, Announced, Truth, Registered
  <2>1. CASE desktopTx' = desktopTx
    BY <2>1
  <2>2. ASSUME NEW c \in Conn, NEW k \in Caps, DesktopRegister(c, k) PROVE Announced
    BY <2>2 DEF DesktopRegister, RegisterDesktop
  <2>3. ASSUME NEW c \in Conn, Disconnect(c) PROVE Announced
    BY <2>3 DEF Disconnect, UnregisterDesktop, UnregisterClient, AlreadyReplaced,
                Reads, deskst
  <2>4. QED
    BY <2>1, <2>2, <2>3, StepKinds DEF Quiet, Registers, DeviceRevoke, deskst
<1>2. QED
  BY <1>1, TypeCorrect, PTL DEF Spec, DesktopChangeIsAnnounced

-----------------------------------------------------------------------------
(* The desktop reported online is there                                    *)

\* The registered desktop still has the Desktop role, so its cleanup will be
\* the desktop's, unless it logged in a second time on the same socket.
PresenceInv ==
  \A c \in Conn :
    desktopTx = c => \/ sock[c] = "open" /\ kind[c] = "Desktop"
                     \/ c \in turned

\* is_desktop_online is true of a closed socket only if that socket turned from
\* desktop to client by authenticating again; every other order of
\* registrations, evictions and cleanups is covered.
THEOREM DesktopPresence == Spec => []OnlineDesktopIsConnected
<1>1. Init => PresenceInv
  BY RegistryAssumption DEF Init, PresenceInv
<1>2. TypeOK /\ PresenceInv /\ [Next]_vars => PresenceInv'
  <2> SUFFICES ASSUME TypeOK, PresenceInv, [Next]_vars PROVE PresenceInv'
    OBVIOUS
  <2> USE RegistryAssumption DEF TypeOK, PresenceInv
  <2>1. CASE Quiet
    BY <2>1 DEF Quiet
  <2>2. ASSUME NEW tx \in Conn, NEW d \in Device, Registers(tx, d) PROVE PresenceInv'
    BY <2>2 DEF Registers
  <2>3. ASSUME NEW c \in Conn, NEW k \in Caps, DesktopRegister(c, k) PROVE PresenceInv'
    BY <2>3 DEF DesktopRegister, RegisterDesktop, Reads
  <2>4. ASSUME NEW c \in Conn, NEW d \in Device, DeviceRevoke(c, d) PROVE PresenceInv'
    BY <2>4 DEF DeviceRevoke, deskst, auth
  <2>5. ASSUME NEW c \in Conn, Disconnect(c) PROVE PresenceInv'
    BY <2>5 DEF Disconnect, UnregisterDesktop, UnregisterClient, AlreadyReplaced,
                auth, table, deskst
  <2>6. QED
    BY <2>1, <2>2, <2>3, <2>4, <2>5, StepKinds
<1>3. PresenceInv => OnlineDesktopIsConnected
  BY DEF PresenceInv, OnlineDesktopIsConnected
<1>4. QED
  BY <1>1, <1>2, <1>3, TypeCorrect, PTL DEF Spec

-----------------------------------------------------------------------------
(* The output fan-out                                                      *)

\* FanOutComplete for handlers that are not idle too: the only moment a Client
\* role may be missing from the table is between the role assignment and the
\* awaited register_client.
FanOutInv ==
  \A c \in Conn :
    /\ sock[c] = "open" /\ pc[c] # "authRegister" /\ kind[c] = "Client"
         /\ dev[c] \in Device
       => Registered(c) \/ c \in refused \/ c \in kicked
    /\ sock[c] = "new" => kind[c] = "Unauthenticated"

\* Nothing but a full table or a revocation keeps a logged-in client out of
\* the fan-out; in particular the cleanup of a twin tab does not.
THEOREM FanOutHolds == Spec => []FanOutComplete
<1>1. Init => FanOutInv
  BY DEF Init, FanOutInv
<1>2. TypeOK /\ FanOutInv /\ [Next]_vars => FanOutInv'
  <2> SUFFICES ASSUME TypeOK, FanOutInv, [Next]_vars PROVE FanOutInv'
    OBVIOUS
  <2> USE RegistryAssumption DEF TypeOK, Entry, FanOutInv, Registered
  <2>1. CASE Quiet
    BY <2>1 DEF Quiet
  <2>2. ASSUME NEW tx \in Conn, NEW d \in Device, Registers(tx, d) PROVE FanOutInv'
    <3> DEFINE new == [tx |-> tx, device |-> d]
    <3>0. \/ /\ clients' = {e \in clients : e.tx # tx} \cup {new}
             /\ new.tx = tx
          \/ clients' = clients /\ refused' = refused \cup {tx}
      BY <2>2 DEF Registers, RegisterClient
    <3>1. \A c \in Conn : Registered(c) => Registered(c)'
      BY <3>0
    <3>2. Registered(tx)' \/ tx \in refused'
      BY <3>0
    <3>3. \A c \in refused : c # tx => c \in refused'
      BY <2>2 DEF Registers, RegisterClient
    <3>4. QED
      BY <2>2, <3>1, <3>2, <3>3 DEF Registers
  <2>3. ASSUME NEW c \in Conn, NEW k \in Caps, DesktopRegister(c, k) PROVE FanOutInv'
    BY <2>3 DEF DesktopRegister, RegisterDesktop, Reads, calls
  <2>4. ASSUME NEW c \in Conn, NEW d \in Device, DeviceRevoke(c, d) PROVE FanOutInv'
    BY <2>4 DEF DeviceRevoke, Call, Reads, deskst, auth
  <2>5. ASSUME NEW c \in Conn, Disconnect(c) PROVE FanOutInv'
    BY <2>5 DEF Disconnect, UnregisterDesktop, UnregisterClient, auth, calls, table,
                deskst
  <2>6. QED
    BY <2>1, <2>2, <2>3, <2>4, <2>5, StepKinds
<1>3. FanOutInv => FanOutComplete
  BY DEF FanOutInv, FanOutComplete, Reads
<1>4. QED
  BY <1>1, <1>2, <1>3, TypeCorrect, PTL DEF Spec

-----------------------------------------------------------------------------
(* The table itself                                                        *)

\* Cardinality means something only for a finite table.
TableInv == ClientTable /\ IsFiniteSet(clients)

\* One entry per connection, at most MAX_CLIENTS entries, finitely many.
LEMMA TableKept == Spec => []TableInv
<1>1. Init => TableInv
  BY FS_EmptySet, RegistryAssumption DEF Init, TableInv, ClientTable
<1>2. TypeOK /\ TableInv /\ [Next]_vars => TableInv'
  <2> SUFFICES ASSUME TypeOK, TableInv, [Next]_vars PROVE TableInv'
    OBVIOUS
  <2>1. ASSUME clients' \subseteq clients PROVE TableInv'
    <3>1. IsFiniteSet(clients') /\ Cardinality(clients') <= Cardinality(clients)
      BY <2>1, FS_Subset DEF TableInv
    <3>2. Cardinality(clients) \in Nat /\ Cardinality(clients') \in Nat
      BY <3>1, FS_CardinalityType DEF TableInv
    <3>3. QED
      BY <2>1, <3>1, <3>2, RegistryAssumption DEF TableInv, ClientTable
  <2>2. ASSUME NEW tx \in Conn, NEW d \in Device, Registers(tx, d) PROVE TableInv'
    <3> DEFINE rest == {e \in clients : e.tx # tx}
               new == [tx |-> tx, device |-> d]
    <3>1. CASE Registered(tx) \/ Cardinality(clients) < MaxClients
      <4>1. clients' = rest \cup {new}
        BY <2>2, <3>1 DEF Registers, RegisterClient
      <4>2. IsFiniteSet(rest) /\ IsFiniteSet(clients)
        BY FS_Subset DEF TableInv
      <4>3. new \notin rest
        OBVIOUS
      <4>4. IsFiniteSet(clients') /\ Cardinality(clients') = Cardinality(rest) + 1
        BY <4>1, <4>2, <4>3, FS_AddElement
      <4>5. Cardinality(rest) <= Cardinality(clients)
        BY <4>2, FS_Subset
      <4>6. /\ Cardinality(rest) \in Nat /\ Cardinality(clients) \in Nat
            /\ Cardinality(clients') \in Nat
        BY <4>2, <4>4, FS_CardinalityType
      <4>7. Cardinality(rest) + 1 <= MaxClients
        <5>1. CASE Registered(tx)
          <6>1. rest \subseteq clients /\ rest # clients
            BY <5>1 DEF Registered
          <6>2. Cardinality(rest) # Cardinality(clients)
            BY <6>1, <4>2, FS_Subset
          <6>3. QED
            BY <6>2, <4>5, <4>6, RegistryAssumption DEF TableInv, ClientTable
        <5>2. CASE Cardinality(clients) < MaxClients
          BY <5>2, <4>5, <4>6, RegistryAssumption
        <5>3. QED
          BY <3>1, <5>1, <5>2
      <4>8. \A e, f \in clients' : e.tx = f.tx => e = f
        BY <4>1 DEF TableInv, ClientTable
      <4>9. QED
        BY <4>4, <4>7, <4>8 DEF TableInv, ClientTable
    <3>2. CASE ~(Registered(tx) \/ Cardinality(clients) < MaxClients)
      BY <2>1, <2>2, <3>2 DEF Registers, RegisterClient
    <3>3. QED
      BY <3>1, <3>2
  <2>3. CASE Quiet
    BY <2>1, <2>3 DEF Quiet
  <2>4. ASSUME NEW c \in Conn, NEW k \in Caps, DesktopRegister(c, k) PROVE TableInv'
    BY <2>1, <2>4 DEF DesktopRegister, RegisterDesktop
  <2>5. ASSUME NEW c \in Conn, NEW d \in Device, DeviceRevoke(c, d) PROVE TableInv'
    BY <2>1, <2>5 DEF DeviceRevoke
  <2>6. ASSUME NEW c \in Conn, Disconnect(c) PROVE TableInv'
    BY <2>1, <2>6 DEF Disconnect, UnregisterDesktop, UnregisterClient, table
  <2>7. QED
    BY <2>2, <2>3, <2>4, <2>5, <2>6, StepKinds
<1>3. QED
  BY <1>1, <1>2, TypeCorrect, PTL DEF Spec

\* One entry per connection and at most MAX_CLIENTS entries.
THEOREM TableBounded == Spec => []ClientTable
<1>1. TableInv => ClientTable
  BY DEF TableInv
<1>2. QED
  BY <1>1, TableKept, PTL

-----------------------------------------------------------------------------
(* The registry implements Presence                                        *)

\* Sockets open by Accept and end by Disconnect, one at a time.
LEMMA SocketSteps ==
  ASSUME [Next]_vars
  PROVE  UNCHANGED sock \/ \E c \in Conn : Accept(c) \/ Disconnect(c)
BY DEF Next, vars, AuthDesktopKey, AuthToken, AuthRegister, AuthCredentials,
       AuthNotify, AuthPend, DesktopRegister, DeviceApproved, ApproveRegister,
       DeviceRejected, DeviceRevoke, RevokeRow

\* A call of register_client is a Join, or invisible if the table is full.
LEMMA RegistersJoins ==
  ASSUME TypeOK, TableInv, NEW tx \in Conn, NEW d \in Device, Registers(tx, d)
  PROVE  Abstract!Join(tx) \/ UNCHANGED Abstract!vars
<1> DEFINE new == [tx |-> tx, device |-> d]
           rest == {e \in clients : e.tx # tx}
<1>1. UNCHANGED <<sock, desktopTx, desktopCaps>>
  BY DEF Registers
<1>2. CASE Registered(tx) \/ Cardinality(clients) < MaxClients
  <2>1. clients' = rest \cup {new} /\ ReplayStatus(tx)
    BY <1>2 DEF Registers, RegisterClient
  <2>2. Members' = Members \cup {tx}
    <3>1. new.tx = tx
      OBVIOUS
    <3> HIDE DEF new
    <3>2. ASSUME NEW x \in Members' PROVE x \in Members \cup {tx}
      BY <2>1, <3>1, <3>2 DEF Members
    <3>3. ASSUME NEW x \in Members, x # tx PROVE x \in Members'
      BY <2>1, <3>3 DEF Members
    <3>4. tx \in Members'
      BY <2>1, <3>1 DEF Members
    <3>5. QED
      BY <3>2, <3>3, <3>4
  <2>3. tx \in Members \/ Cardinality(Members) < MaxClients
    <3>1. CASE Registered(tx)
      BY <3>1 DEF Registered, Members
    <3>2. CASE Cardinality(clients) < MaxClients
      <4> DEFINE Tx == [e \in clients |-> e.tx]
      <4>1. IsFiniteSet(clients)
        BY DEF TableInv
      <4>2. /\ IsFiniteSet(Members)
            /\ Cardinality(Members) <= Cardinality(clients)
        <5>1. Tx \in Surjection(clients, Members)
          BY DEF Surjection, Members
        <5>2. QED
          BY ONLY <4>1, <5>1, FS_Surjection
      <4>3. Cardinality(Members) \in Nat /\ Cardinality(clients) \in Nat
        BY <4>1, <4>2, FS_CardinalityType
      <4>4. QED
        BY <3>2, <4>2, <4>3, RegistryAssumption
    <3>3. QED
      BY <1>2, <3>1, <3>2
  <2>4. QED
    <3>1. Abstract!Cardinality(Members) = Cardinality(Members)
      BY DEF Abstract!Cardinality, Cardinality
    <3>2. QED
      BY <1>1, <2>1, <2>2, <2>3, <3>1 DEF Abstract!Join, ReplayStatus
<1>3. CASE ~(Registered(tx) \/ Cardinality(clients) < MaxClients)
  <2>1. UNCHANGED <<clients, status>>
    BY <1>3 DEF Registers, RegisterClient
  <2>2. QED
    BY <1>1, <2>1 DEF Abstract!vars, Members
<1>4. QED
  BY <1>2, <1>3

\* Every step of the handlers is a step of Presence or changes nothing there.
LEMMA PresenceStep ==
  TypeOK /\ TableInv /\ [Next]_vars => [Abstract!Next]_(Abstract!vars)
<1> SUFFICES ASSUME TypeOK, TableInv, [Next]_vars
             PROVE  Abstract!Next \/ UNCHANGED Abstract!vars
  OBVIOUS
<1> DEFINE Live == {c \in Conn : sock[c] = "open"}
<1>1. CASE Quiet
  <2>1. UNCHANGED <<desktopTx, desktopCaps, Members, status>>
    BY <1>1 DEF Quiet, Members
  <2>2. CASE UNCHANGED sock
    BY <2>1, <2>2 DEF Abstract!vars
  <2>3. ASSUME NEW c \in Conn, Accept(c) PROVE Abstract!Next
    <3>1. c \notin Live /\ Live' = Live \cup {c}
      BY <2>3 DEF Accept, TypeOK
    <3>2. Abstract!Connect(c)
      BY <2>1, <3>1 DEF Abstract!Connect
    <3>3. QED
      BY <3>2 DEF Abstract!Next
  <2>4. ASSUME NEW c \in Conn, Disconnect(c) PROVE FALSE
    BY <2>4, <1>1 DEF Disconnect, Reads, Quiet, TypeOK
  <2>5. QED
    BY <2>2, <2>3, <2>4, SocketSteps
<1>2. ASSUME NEW tx \in Conn, NEW d \in Device, Registers(tx, d)
      PROVE  Abstract!Next \/ UNCHANGED Abstract!vars
  BY <1>2, RegistersJoins DEF Abstract!Next
<1>3. ASSUME NEW c \in Conn, NEW k \in Caps, DesktopRegister(c, k)
      PROVE  Abstract!Next
  <2>1. /\ c \in Live /\ Live' = Live
        /\ desktopTx' = c /\ desktopCaps' = k /\ Members' = Members
        /\ status' = [x \in Conn |-> IF x \in Members THEN k ELSE status[x]]
    BY <1>3 DEF DesktopRegister, RegisterDesktop, Reads, Members, Registered
  <2>2. Abstract!Up(c, k)
    BY <2>1 DEF Abstract!Up, Abstract!Announce
  <2>3. QED
    BY <2>2 DEF Abstract!Next
<1>4. ASSUME NEW c \in Conn, NEW d \in Device, DeviceRevoke(c, d)
      PROVE  Abstract!Next
  <2>1. /\ UNCHANGED <<sock, desktopTx, desktopCaps, status>>
        /\ clients' = {e \in clients : e.device # d}
    BY <1>4 DEF DeviceRevoke, deskst
  <2> DEFINE S == Members \ Members'
  <2>2. Members' = Members \ S /\ S \in SUBSET Conn
    BY <2>1 DEF Members, TypeOK, Entry
  <2>3. Abstract!Remove(S)
    BY <2>1, <2>2 DEF Abstract!Remove
  <2>4. QED
    BY <2>2, <2>3 DEF Abstract!Next
<1>5. ASSUME NEW c \in Conn, Disconnect(c) PROVE Abstract!Next
  <2>1. c \in Live /\ Live' = Live \ {c}
    BY <1>5 DEF Disconnect, Reads, TypeOK
  <2>2. CASE UnregisterDesktop(c)
    <3>1. CASE AlreadyReplaced(c)
      BY <2>1, <2>2, <3>1
         DEF UnregisterDesktop, Abstract!Next, Abstract!End, Members
    <3>2. CASE ~AlreadyReplaced(c)
      <4>1. /\ desktopTx \in {None, c} /\ desktopTx' = None
            /\ desktopCaps' = None /\ Members' = Members
            /\ status' = [x \in Conn |-> IF x \in Members THEN Offline
                                         ELSE status[x]]
        BY <2>2, <3>2 DEF UnregisterDesktop, AlreadyReplaced, Members, Registered
      <4>2. Abstract!End(c)
        BY <2>1, <4>1 DEF Abstract!End, Abstract!Announce
      <4>3. QED
        BY <4>2 DEF Abstract!Next
    <3>3. QED
      BY <3>1, <3>2
  <2>3. CASE UnregisterClient(c)
    <3>1. Members' = Members \ {c} /\ UNCHANGED <<desktopTx, desktopCaps, status>>
      BY <2>3 DEF UnregisterClient, Members, deskst
    <3>2. Abstract!End(c)
      BY <2>1, <3>1 DEF Abstract!End
    <3>3. QED
      BY <3>2 DEF Abstract!Next
  <2>4. CASE UNCHANGED <<table, deskst>>
    BY <2>1, <2>4 DEF Abstract!Next, Abstract!End, Members, table, deskst
  <2>5. QED
    BY <1>5, <2>2, <2>3, <2>4 DEF Disconnect
<1>6. QED
  BY <1>1, <1>2, <1>3, <1>4, <1>5, StepKinds

\* The interleaved handlers over the registration tables implement the atomic
\* registry of Presence, for any sockets, devices and limits.
THEOREM PresenceImplemented == Spec => ImplementsPresence
<1>1. Init => Abstract!Init
  BY DEF Init, Abstract!Init, Members
<1>2. QED
  BY <1>1, PresenceStep, TypeCorrect, TableKept, PTL
     DEF Spec, ImplementsPresence, Abstract!Spec

=============================================================================
