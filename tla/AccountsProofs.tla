--------------------------- MODULE AccountsProofs ---------------------------
(***************************************************************************)
(* Proofs about Accounts, for any sets of accounts, devices, sockets,      *)
(* endpoints and screenshots.  Each group of facts has the actions that    *)
(* can disturb it as steps of its own; the others leave its variables      *)
(* alone.                                                                  *)
(***************************************************************************)
EXTENDS Accounts, TLAPS

\* There is room for the row of a report that is being filed.
Room == filing # None => Len(reports) < MaxReports

\* Devices whose approval is still awaited, and devices that are past it.
Waits(d) == \E c \in Conn : enrol[c] = d \/ <<c, d>> \in pending
Seen(d)  == \/ \E t \in tokens : t.device = d
            \/ \E c \in Conn : <<c, d>> \in clients \cup approving \/ login[c] = d

\* A device waits on one socket, and one that waits or was rejected has neither
\* a token nor a place in the fan-out; whatever is known of a device, its id was
\* minted before.
WaitInv ==
  \A d \in Device :
    /\ Waits(d) \/ Seen(d) \/ d \in rejected \cup revoked \cup {revoking} =>
         minted[d] # None
    /\ Waits(d) \/ d \in rejected => ~Seen(d)
    /\ d \in rejected => ~Waits(d)
    /\ \A b, c \in Conn : /\ enrol[b] = d => enrol[c] # d \/ b = c
                          /\ enrol[b] = d => <<c, d>> \notin pending
                          /\ <<b, d>> \in pending => <<c, d>> \notin pending \/ b = c

\* register_client adds one entry at most.
LEMMA RegisterAdds ==
  ASSUME NEW c, NEW d, RegisterClient(c, d)
  PROVE  clients' \subseteq clients \cup {<<c, d>>}
BY DEF RegisterClient

\* Type correctness, with the room for a report, is inductive.
LEMMA TypeStep == TypeOK /\ Room /\ WaitInv /\ [Next]_vars => TypeOK' /\ Room'
<1> SUFFICES ASSUME TypeOK, Room, WaitInv, [Next]_vars PROVE TypeOK' /\ Room'
  OBVIOUS
<1> USE AccountsAssumption DEF TypeOK, Sub, Token
<1>1. ASSUME NEW u \in User, UserAdd(u) PROVE TypeOK'
  BY <1>1 DEF UserAdd, keys, sockets, waits, push
<1>2. ASSUME NEW u \in User, UserRemove(u) PROVE TypeOK'
  BY <1>2 DEF UserRemove, DeleteDevices, keys, sockets, waits
<1>3. ASSUME StartPush PROVE TypeOK'
  BY <1>3 DEF StartPush, LoadKey, Key, db, sockets, waits, push
<1>4. ASSUME StartAuth PROVE TypeOK'
  BY <1>4 DEF StartAuth, LoadKey, Key, db, sockets, waits, push
<1>5. ASSUME Crash PROVE TypeOK'
  BY <1>5 DEF Crash, db
<1>6. ASSUME NEW c \in Conn, NEW u \in User, NEW d \in Device, RegisterDevice(c, u, d)
      PROVE  TypeOK'
  BY <1>6 DEF RegisterDevice, keys, push
<1>7. ASSUME NEW c \in Conn, NEW d \in Device, ApproveDevice(c, d) PROVE TypeOK'
  <2>1. minted[d] \in User
    BY <1>7 DEF ApproveDevice, WaitInv, Waits
  <2>2. NewToken(d, minted[d]) \in Token
    BY <2>1 DEF NewToken, Key
  <2>3. tokens' \subseteq Token
    BY <1>7, <2>2 DEF ApproveDevice
  <2>4. pending' \subseteq Conn \X Device /\ approving' \subseteq Conn \X Device
    BY <1>7 DEF ApproveDevice
  <2>5. QED
    BY <1>7, <2>3, <2>4 DEF ApproveDevice, db, keys, push
<1>8. ASSUME NEW c \in Conn, NEW t \in tokens, TokenLogin(c, t) PROVE TypeOK'
  <2>1. t.device \in Device /\ t.user \in User
    OBVIOUS
  <2>2. NewToken(t.device, t.user) \in Token
    BY <2>1 DEF NewToken, Key
  <2>3. role' \in [Conn -> [user : User, device : Device] \cup {None}]
    BY <1>8, <2>1 DEF TokenLogin
  <2>4. login' \in [Conn -> Device \cup {None}] /\ overlap' \subseteq Conn \X Device
    BY <1>8, <2>1 DEF TokenLogin
  <2>5. tokens' \subseteq Token
    BY <1>8, <2>2 DEF TokenLogin
  <2>6. QED
    BY <1>8, <2>3, <2>4, <2>5 DEF TokenLogin, db, keys, waits, push
<1>9. ASSUME NEW c \in Conn, LoginRegister(c) PROVE TypeOK'
  <2>1. login[c] \in Device
    BY <1>9 DEF LoginRegister
  <2>2. clients' \subseteq Conn \X Device
    BY <1>9, <2>1, RegisterAdds DEF LoginRegister
  <2>3. QED
    BY <1>9, <2>2 DEF LoginRegister, db, keys, waits, push
<1>10. ASSUME NEW c \in Conn, Disconnect(c) PROVE TypeOK'
  BY <1>10 DEF Disconnect, db, keys, waits, push
<1>11. ASSUME NEW d \in Device, Revoke(d) PROVE TypeOK'
  BY <1>11 DEF Revoke, UnregisterDevice, db, keys, waits, push
<1>12. ASSUME RevokeRow PROVE TypeOK'
  BY <1>12 DEF RevokeRow, DeleteDevices, keys, waits
<1>13. ASSUME NEW c \in Conn, NEW e \in Endpoint, Subscribe(c, e) PROVE TypeOK'
  <2>1. role[c].device \in Device /\ loaded["vapid"] \in Nat
    BY <1>13 DEF Subscribe, Key
  <2>2. subs' \in [Device -> Sub \cup {None}] /\ want' \in [Device -> Endpoint \cup {None}]
    BY <1>13, <2>1 DEF Subscribe
  <2>3. outrun' \subseteq Device
    BY <1>13, <2>1 DEF Subscribe
  <2>4. QED
    BY <1>13, <2>2, <2>3 DEF Subscribe, keys, sockets, waits
<1>14. ASSUME NEW c \in Conn, Unsubscribe(c) PROVE TypeOK'
  BY <1>14 DEF Unsubscribe, keys, sockets, waits
<1>15. ASSUME NEW u \in User, Notify(u) PROVE TypeOK'
  <2>1. fanout' \subseteq Device \X Endpoint
    BY <1>15 DEF Notify
  <2>2. QED
    BY <1>15, <2>1 DEF Notify, db, keys, sockets, waits
<1>16. ASSUME NEW s \in fanout, PushAnswer(s) PROVE TypeOK'
  BY <1>16 DEF PushAnswer, keys, sockets, waits
<1>17. ASSUME NEW e \in Endpoint, Retire(e) PROVE TypeOK'
  BY <1>17 DEF Retire, db, keys, sockets, waits, push
<1>18. ASSUME NEW u \in User, FileShot(u) PROVE TypeOK'
  <2>1. files' \subseteq File /\ filing' \in [user : User, shot : File \cup {None}]
    BY <1>18 DEF FileShot, WriteShot
  <2>2. QED
    BY <1>18, <2>1 DEF FileShot, keys, sockets, waits, push
<1>19. ASSUME FileRow PROVE TypeOK'
  <2>1. filing \in [user : User, shot : File \cup {None}] /\ Len(reports) < MaxReports
    BY <1>19 DEF FileRow, Room
  <2>2. reports' \in Seq([user : User, shot : File \cup {None}])
        /\ Len(reports') <= MaxReports
    <3>1. CASE reports' = reports
      BY <3>1
    <3>2. CASE reports' = Append(reports, filing)
      <4>1. Len(reports) \in Nat /\ Len(reports') = Len(reports) + 1
        BY <2>1, <3>2
      <4>2. QED
        BY <2>1, <3>2, <4>1
    <3>3. QED
      BY <1>19, <3>1, <3>2 DEF FileRow
  <2>3. QED
    BY <1>19, <2>2 DEF FileRow, keys, sockets, waits, push
<1>20. ASSUME UNCHANGED vars PROVE TypeOK'
  BY <1>20 DEF vars, db, keys, sockets, waits, push
<1>23. ASSUME NEW c \in Conn, Connect(c) PROVE TypeOK'
  BY <1>23 DEF Connect, db, keys, waits, push
<1>24. ASSUME NEW c \in Conn, AddPending(c) PROVE TypeOK'
  BY <1>24 DEF AddPending, db, keys, push
<1>25. ASSUME NEW c \in Conn, NEW d \in Device, ApproveRegister(c, d) PROVE TypeOK'
  <2>1. clients' \subseteq Conn \X Device
    BY <1>25, RegisterAdds DEF ApproveRegister
  <2>2. QED
    BY <1>25, <2>1 DEF ApproveRegister, db, keys, push
<1>26. ASSUME NEW c \in Conn, NEW d \in Device, RejectDevice(c, d) PROVE TypeOK'
  BY <1>26 DEF RejectDevice, db, keys, push
<1>21. Room'
  <2>1. CASE UNCHANGED <<filing, reports>>
    BY <2>1 DEF Room
  <2>2. ASSUME NEW u \in User, FileShot(u) PROVE Room'
    BY <2>2 DEF FileShot, Room
  <2>3. CASE FileRow \/ Crash
    BY <2>3 DEF FileRow, Crash, Room
  <2>4. QED
    BY <2>1, <2>2, <2>3
       DEF Next, vars, db, UserAdd, UserRemove, StartPush, StartAuth, RegisterDevice,
           Connect, AddPending, ApproveDevice, ApproveRegister, RejectDevice, TokenLogin,
           LoginRegister, Disconnect, Revoke, RevokeRow,
           Subscribe, Unsubscribe, Notify, PushAnswer, Retire
<1>22. QED
  BY <1>21, <1>1, <1>2, <1>3, <1>4, <1>5, <1>6, <1>7, <1>8, <1>9, <1>10, <1>11, <1>12,
     <1>13, <1>14, <1>15, <1>16, <1>17, <1>18, <1>19, <1>20, <1>23, <1>24, <1>25,
     <1>26 DEF Next

-----------------------------------------------------------------------------
(* Waiting for approval.                                                   *)

\* A step that puts nobody on a list, hands nothing to a new device and revokes
\* no id that was not minted keeps WaitInv.
LEMMA WaitShrinks ==
  ASSUME WaitInv, UNCHANGED <<minted, rejected>>, pending' \subseteq pending,
         \A c \in Conn, d \in Device : enrol'[c] = d => enrol[c] = d,
         \A d \in Device : Seen(d)' => Seen(d),
         \A d \in Device : d \in revoked' \cup {revoking'} => minted[d] # None
  PROVE  WaitInv'
<1> SUFFICES ASSUME NEW d \in Device
             PROVE
    /\ Waits(d)' \/ Seen(d)' \/ d \in rejected' \cup revoked' \cup {revoking'} =>
         minted'[d] # None
    /\ Waits(d)' \/ d \in rejected' => ~Seen(d)'
    /\ d \in rejected' => ~Waits(d)'
    /\ \A b, c \in Conn : /\ enrol'[b] = d => enrol'[c] # d \/ b = c
                          /\ enrol'[b] = d => <<c, d>> \notin pending'
                          /\ <<b, d>> \in pending' => <<c, d>> \notin pending' \/ b = c
  BY DEF WaitInv
<1>1. Waits(d)' => Waits(d)
  BY DEF Waits
<1>2. Seen(d)' => Seen(d)
  OBVIOUS
<1> QED
  BY <1>1, <1>2 DEF WaitInv

\* Every step keeps those who wait apart from those who are served.
LEMMA WaitStep == TypeOK /\ WaitInv /\ [Next]_vars => WaitInv'
<1> SUFFICES ASSUME TypeOK, WaitInv, [Next]_vars PROVE WaitInv'
  OBVIOUS
<1> USE AccountsAssumption
<1>1. ASSUME NEW x \in Conn, NEW u \in User, NEW y \in Device, RegisterDevice(x, u, y)
      PROVE  WaitInv'
  <2>1. /\ minted[y] = None /\ minted' = [minted EXCEPT ![y] = u] /\ u # None
        /\ enrol[x] = None /\ enrol' = [enrol EXCEPT ![x] = y]
        /\ UNCHANGED <<login, pending, approving, clients, revoking, rejected, revoked,
                       tokens>>
    BY <1>1 DEF RegisterDevice, Reads
  <2>2. /\ \A c \in Conn : enrol'[c] = IF c = x THEN y ELSE enrol[c]
        /\ \A d \in Device : minted'[d] = IF d = y THEN u ELSE minted[d]
    BY <2>1 DEF TypeOK
  <2>3. ~Waits(y) /\ ~Seen(y) /\ y \notin rejected
    BY <2>1 DEF WaitInv
  <2>4. \A d \in Device : Seen(d)' <=> Seen(d)
    BY <2>1 DEF Seen
  <2>5. ASSUME NEW d \in Device \ {y}, Waits(d)' PROVE Waits(d)
    <3>1. PICK c \in Conn : enrol'[c] = d \/ <<c, d>> \in pending'
      BY <2>5 DEF Waits
    <3>2. enrol[c] = d \/ <<c, d>> \in pending
      BY <2>1, <2>2, <3>1
    <3>3. QED
      BY <3>2 DEF Waits
  <2>6. \A c \in Conn : enrol[c] # y /\ <<c, y>> \notin pending
    BY <2>3 DEF Waits
  <2> SUFFICES ASSUME NEW d \in Device
               PROVE
    /\ Waits(d)' \/ Seen(d)' \/ d \in rejected' \cup revoked' \cup {revoking'} =>
         minted'[d] # None
    /\ Waits(d)' \/ d \in rejected' => ~Seen(d)'
    /\ d \in rejected' => ~Waits(d)'
    /\ \A b, c \in Conn : /\ enrol'[b] = d => enrol'[c] # d \/ b = c
                          /\ enrol'[b] = d => <<c, d>> \notin pending'
                          /\ <<b, d>> \in pending' => <<c, d>> \notin pending' \/ b = c
    BY DEF WaitInv
  <2>7. CASE d = y
    BY <2>1, <2>2, <2>3, <2>4, <2>6, <2>7
  <2>8. CASE d # y
    BY <2>1, <2>2, <2>4, <2>5, <2>8 DEF WaitInv
  <2>9. QED
    BY <2>7, <2>8
<1>2. ASSUME NEW x \in Conn, AddPending(x) PROVE WaitInv'
  <2> DEFINE y == enrol[x]
  <2>1. /\ y \in Device /\ y # None /\ enrol' = [enrol EXCEPT ![x] = None]
        /\ pending' = pending \cup {<<x, y>>}
        /\ UNCHANGED <<minted, login, approving, clients, revoking, rejected, revoked,
                       tokens>>
    BY <1>2 DEF AddPending, TypeOK
  <2>2. \A c \in Conn : enrol'[c] = IF c = x THEN None ELSE enrol[c]
    BY <2>1 DEF TypeOK
  <2>3. \A d \in Device : (Seen(d)' <=> Seen(d)) /\ (Waits(d)' => Waits(d))
    BY <2>1, <2>2 DEF Seen, Waits
  <2> SUFFICES ASSUME NEW d \in Device
               PROVE
    /\ Waits(d)' \/ Seen(d)' \/ d \in rejected' \cup revoked' \cup {revoking'} =>
         minted'[d] # None
    /\ Waits(d)' \/ d \in rejected' => ~Seen(d)'
    /\ d \in rejected' => ~Waits(d)'
    /\ \A b, c \in Conn : /\ enrol'[b] = d => enrol'[c] # d \/ b = c
                          /\ enrol'[b] = d => <<c, d>> \notin pending'
                          /\ <<b, d>> \in pending' => <<c, d>> \notin pending' \/ b = c
    BY DEF WaitInv
  <2>4. /\ \A b, c \in Conn : /\ enrol[b] = d => enrol[c] # d \/ b = c
                              /\ enrol[b] = d => <<c, d>> \notin pending
                              /\ <<b, d>> \in pending => <<c, d>> \notin pending \/ b = c
    BY DEF WaitInv
  <2>5. CASE d = y
    BY <2>1, <2>2, <2>3, <2>4, <2>5 DEF WaitInv
  <2>6. CASE d # y
    BY <2>1, <2>2, <2>3, <2>4, <2>6 DEF WaitInv
  <2>7. QED
    BY <2>5, <2>6
<1>3. ASSUME NEW x \in Conn, NEW y \in Device, <<x, y>> \in pending,
             pending' = pending \ {<<x, y>>}, UNCHANGED <<minted, enrol, revoked>>,
             \A d \in Device : Seen(d)' => Seen(d) \/ d = y,
             rejected' = rejected \/ (rejected' = rejected \cup {y} /\ ~Seen(y)'),
             revoking' \in {revoking, y}
      PROVE  WaitInv'
  <2>1. Waits(y) /\ minted[y] # None /\ y \notin rejected
    BY <1>3 DEF WaitInv, Waits
  <2>2. \A c \in Conn : enrol[c] # y /\ <<c, y>> \notin pending'
    BY <1>3 DEF WaitInv
  <2>3. ~Waits(y)'
    BY <1>3, <2>2 DEF Waits
  <2>4. \A d \in Device : Waits(d)' => Waits(d)
    BY <1>3 DEF Waits
  <2> SUFFICES ASSUME NEW d \in Device
               PROVE
    /\ Waits(d)' \/ Seen(d)' \/ d \in rejected' \cup revoked' \cup {revoking'} =>
         minted'[d] # None
    /\ Waits(d)' \/ d \in rejected' => ~Seen(d)'
    /\ d \in rejected' => ~Waits(d)'
    /\ \A b, c \in Conn : /\ enrol'[b] = d => enrol'[c] # d \/ b = c
                          /\ enrol'[b] = d => <<c, d>> \notin pending'
                          /\ <<b, d>> \in pending' => <<c, d>> \notin pending' \/ b = c
    BY DEF WaitInv
  <2>5. CASE d = y
    BY <1>3, <2>1, <2>2, <2>3, <2>5
  <2>6. CASE d # y
    <3>1. \A b, c \in Conn : /\ enrol[b] = d => enrol[c] # d \/ b = c
                             /\ enrol[b] = d => <<c, d>> \notin pending
                             /\ <<b, d>> \in pending => <<c, d>> \notin pending \/ b = c
      BY DEF WaitInv
    <3>2. /\ Seen(d)' => Seen(d)
          /\ d \in rejected' <=> d \in rejected
          /\ d = revoking' => d = revoking
      BY <1>3, <2>6
    <3>3. QED
      BY <1>3, <2>4, <3>1, <3>2 DEF WaitInv
  <2>7. QED
    BY <2>5, <2>6
<1>4. ASSUME NEW x \in Conn, NEW y \in Device, ApproveDevice(x, y) PROVE WaitInv'
  <2>1. \A d \in Device : Seen(d)' => Seen(d) \/ d = y
    <3>1. \A t \in tokens' : t \in tokens \/ t.device = y
      BY <1>4 DEF ApproveDevice, NewToken
    <3>2. clients' = clients /\ approving' = {<<x, y>>} /\ login' = login
      BY <1>4 DEF ApproveDevice
    <3>3. QED
      BY <3>1, <3>2 DEF Seen
  <2>2. /\ <<x, y>> \in pending /\ pending' = pending \ {<<x, y>>}
        /\ UNCHANGED <<minted, enrol, revoked>>
        /\ rejected' = rejected \/ (rejected' = rejected \cup {y} /\ ~Seen(y)')
        /\ revoking' \in {revoking, y}
    BY <1>4 DEF ApproveDevice
  <2>3. QED
    BY <1>3, <2>1, <2>2
<1>5. ASSUME NEW x \in Conn, NEW y \in Device, RejectDevice(x, y) PROVE WaitInv'
  <2>1. /\ <<x, y>> \in pending /\ pending' = pending \ {<<x, y>>}
        /\ UNCHANGED <<minted, enrol, revoked, tokens, clients, approving, login>>
        /\ revoking' = y /\ rejected' = rejected \cup {y}
    BY <1>5 DEF RejectDevice
  <2>2. \A d \in Device : Seen(d)' <=> Seen(d)
    BY <2>1 DEF Seen
  <2>3. ~Seen(y)
    BY <2>1 DEF WaitInv, Waits
  <2>4. QED
    BY <1>3, <2>1, <2>2, <2>3
<1>6. ASSUME NEW x \in Conn, NEW y \in Device, ApproveRegister(x, y) PROVE WaitInv'
  <2>1. clients' \subseteq clients \cup {<<x, y>>} /\ <<x, y>> \in approving
    BY <1>6, RegisterAdds DEF ApproveRegister
  <2>2. /\ approving' = {}
        /\ UNCHANGED <<minted, enrol, pending, rejected, revoked, revoking, tokens, login>>
    BY <1>6 DEF ApproveRegister
  <2>3. \A d \in Device : Seen(d)' => Seen(d)
    BY <2>1, <2>2 DEF Seen
  <2>4. QED
    BY <2>2, <2>3, WaitShrinks DEF WaitInv
<1>7. ASSUME NEW x \in Conn, NEW t \in tokens, TokenLogin(x, t) PROVE WaitInv'
  <2>1. /\ \A n \in tokens' : n \in tokens \/ n.device = t.device
        /\ login' = [login EXCEPT ![x] = t.device]
        /\ UNCHANGED <<minted, enrol, pending, approving, rejected, revoked, revoking,
                       clients>>
    BY <1>7 DEF TokenLogin, NewToken, waits
  <2>2. \A c \in Conn : login'[c] = IF c = x THEN t.device ELSE login[c]
    BY <2>1 DEF TypeOK
  <2>3. \A d \in Device : Seen(d)' => Seen(d)
    BY <2>1, <2>2 DEF Seen
  <2>4. QED
    BY <2>1, <2>3, WaitShrinks DEF WaitInv
<1>8. ASSUME NEW x \in Conn, LoginRegister(x) PROVE WaitInv'
  <2>1. clients' \subseteq clients \cup {<<x, login[x]>>}
    BY <1>8, RegisterAdds DEF LoginRegister
  <2>2. /\ login' = [login EXCEPT ![x] = None]
        /\ UNCHANGED <<minted, enrol, pending, approving, rejected, revoked, revoking,
                       tokens>>
    BY <1>8 DEF LoginRegister, waits
  <2>3. \A c \in Conn : login'[c] = IF c = x THEN None ELSE login[c]
    BY <2>2 DEF TypeOK
  <2>4. \A d \in Device : Seen(d)' => Seen(d)
    BY <2>1, <2>2, <2>3 DEF Seen
  <2>5. QED
    BY <2>2, <2>4, WaitShrinks DEF WaitInv
<1>9. ASSUME NEW x \in Conn, Disconnect(x) PROVE WaitInv'
  <2>1. /\ clients' \subseteq clients
        /\ UNCHANGED <<minted, enrol, pending, approving, rejected, revoked, revoking,
                       tokens, login>>
    BY <1>9 DEF Disconnect, waits
  <2>2. \A d \in Device : Seen(d)' => Seen(d)
    BY <2>1 DEF Seen
  <2>3. QED
    BY <2>1, <2>2, WaitShrinks DEF WaitInv
<1>10. ASSUME NEW y \in Device, Revoke(y) PROVE WaitInv'
  <2>1. /\ clients' \subseteq clients /\ revoking' = y /\ minted[y] # None
        /\ UNCHANGED <<minted, enrol, pending, approving, rejected, revoked, tokens, login>>
    BY <1>10 DEF Revoke, UnregisterDevice, waits
  <2>2. \A d \in Device : Seen(d)' => Seen(d)
    BY <2>1 DEF Seen
  <2>3. QED
    BY <2>1, <2>2, WaitShrinks DEF WaitInv
<1>11. CASE RevokeRow
  <2>1. /\ revoked' = revoked \cup {revoking} /\ revoking' = None
        /\ UNCHANGED <<minted, enrol, pending, approving, rejected, tokens, login, clients>>
    BY <1>11 DEF RevokeRow, waits
  <2>2. \A d \in Device : Seen(d)' => Seen(d)
    BY <2>1 DEF Seen
  <2>3. QED
    BY <2>1, <2>2, WaitShrinks DEF WaitInv
<1>12. CASE Crash
  <2>1. /\ enrol' = [c \in Conn |-> None] /\ login' = [c \in Conn |-> None]
        /\ pending' = {} /\ approving' = {} /\ clients' = {} /\ revoking' = None
        /\ UNCHANGED <<minted, rejected, revoked, tokens>>
    BY <1>12 DEF Crash
  <2>2. \A d \in Device : Seen(d)' => Seen(d)
    BY <2>1 DEF Seen
  <2>3. QED
    BY <2>1, <2>2, WaitShrinks DEF WaitInv
<1>13. ASSUME UNCHANGED <<minted, enrol, pending, approving, rejected, revoked, revoking,
                          tokens, login, clients>>
       PROVE  WaitInv'
  BY <1>13 DEF WaitInv, Waits, Seen
<1>14. QED
  BY <1>1, <1>2, <1>4, <1>5, <1>6, <1>7, <1>8, <1>9, <1>10, <1>11, <1>12, <1>13
     DEF Next, vars, sockets, waits, UserAdd, UserRemove, StartPush, StartAuth, Connect,
         Subscribe, Unsubscribe, Notify, PushAnswer, Retire, FileShot, FileRow

\* Types and waiting devices are in order in every reachable state.
LEMMA WaitAlways == Spec => [](TypeOK /\ Room /\ WaitInv)
<1>1. Init => TypeOK /\ Room
  BY AccountsAssumption DEF Init, TypeOK, Room, Key
<1>2. Init => WaitInv
  <2> SUFFICES ASSUME Init, NEW d \in Device
               PROVE  /\ ~Waits(d) /\ ~Seen(d)
                      /\ d \notin rejected \cup revoked \cup {revoking}
                      /\ \A c \in Conn : enrol[c] # d /\ <<c, d>> \notin pending
    BY DEF WaitInv
  <2>1. /\ tokens = {} /\ pending = {} /\ approving = {} /\ clients = {}
        /\ rejected = {} /\ revoked = {} /\ revoking = None /\ d # None
        /\ \A c \in Conn : enrol[c] = None /\ login[c] = None
    BY AccountsAssumption DEF Init
  <2>2. QED
    BY <2>1 DEF Waits, Seen
<1>3. QED
  BY <1>1, <1>2, TypeStep, WaitStep, PTL DEF Spec

\* Every reachable state of database, process and outside world is well typed.
THEOREM TypeCorrect == Spec => []TypeOK
BY WaitAlways, PTL

-----------------------------------------------------------------------------
(* Rows.                                                                   *)

\* A row belongs to the account its device was registered for, and a device that
\* was revoked never gets one again (ids are minted once).
Enrolled ==
  \A d \in Device : /\ row[d] # None => minted[d] = row[d]
                    /\ d \in revoked => row[d] = None

RowInv == NoOrphans /\ Enrolled

\* Every step keeps the rows in order.
LEMMA RowStep == TypeOK /\ WaitInv /\ RowInv /\ [Next]_vars => RowInv'
<1> SUFFICES ASSUME TypeOK, WaitInv, RowInv, [Next]_vars PROVE RowInv'
  OBVIOUS
<1> USE AccountsAssumption DEF TypeOK, RowInv, NoOrphans, Enrolled
<1>1. ASSUME NEW u \in User, UserAdd(u) PROVE RowInv'
  BY <1>1 DEF UserAdd, sockets
<1>2. ASSUME NEW u \in User, UserRemove(u) PROVE RowInv'
  BY <1>2 DEF UserRemove, DeleteDevices, sockets
<1>3. ASSUME NEW c \in Conn, NEW u \in User, NEW d \in Device, RegisterDevice(c, u, d)
      PROVE  RowInv'
  <2>1. d \notin revoked
    BY <1>3 DEF RegisterDevice, WaitInv
  <2>2. QED
    BY <1>3, <2>1 DEF RegisterDevice
<1>4. CASE RevokeRow
  BY <1>4 DEF RevokeRow, DeleteDevices
<1>5. ASSUME NEW c \in Conn, NEW e \in Endpoint, Subscribe(c, e) PROVE RowInv'
  BY <1>5 DEF Subscribe, Stored, sockets
<1>6. ASSUME NEW c \in Conn, Unsubscribe(c) PROVE RowInv'
  BY <1>6 DEF Unsubscribe, sockets
<1>7. ASSUME NEW s \in fanout, PushAnswer(s) PROVE RowInv'
  BY <1>7 DEF PushAnswer, sockets
<1>8. CASE UNCHANGED <<accounts, row, subs, minted, revoked>>
  BY <1>8
<1>9. QED
  BY <1>1, <1>2, <1>3, <1>4, <1>5, <1>6, <1>7, <1>8
     DEF Next, vars, db, sockets, StartPush, StartAuth, Crash, Connect,
         AddPending, ApproveDevice, ApproveRegister, RejectDevice,
         TokenLogin, LoginRegister, Disconnect, Revoke, Notify, Retire, FileShot,
         FileRow

\* The rows are in order in every reachable state.
LEMMA RowAlways == Spec => []RowInv
<1>1. Init => RowInv
  BY DEF Init, RowInv, NoOrphans, Enrolled
<1>2. QED
  BY <1>1, RowStep, WaitAlways, PTL DEF Spec

\* The foreign keys hold, for every interleaving of handlers, command line and
\* revocations.
THEOREM DatabaseHolds == Spec => []NoOrphans
<1>1. RowInv => NoOrphans
  BY DEF RowInv
<1>2. QED
  BY <1>1, RowAlways, PTL

-----------------------------------------------------------------------------
(* Keys.                                                                   *)

\* What is in memory is what is stored, and whatever was made with a key was
\* made with the stored one.  This, unlike KeysSurvive, also says what holds
\* while the relay is down or halfway up.
KeyInv ==
  /\ phase # "down" => loaded["vapid"] = config["vapid"] /\ config["vapid"] # 0
  /\ Up => loaded["jwt"] = config["jwt"] /\ config["jwt"] # 0
  /\ \A t \in tokens : t.key = config["jwt"] /\ config["jwt"] # 0
  /\ \A d \in Device :
       subs[d] # None => subs[d].key = config["vapid"] /\ config["vapid"] # 0

\* LoadKey leaves a stored key alone and always ends with one.
LEMMA KeyLoaded ==
  ASSUME TypeOK, NEW k \in Key, LoadKey(k)
  PROVE  /\ loaded'[k] = config'[k] /\ config'[k] # 0
         /\ config[k] # 0 => config'[k] = config[k]
         /\ \A j \in Key \ {k} : config'[j] = config[j] /\ loaded'[j] = loaded[j]
BY DEF TypeOK, LoadKey

\* Every step keeps the keys in agreement.
LEMMA KeyStep == TypeOK /\ KeyInv /\ [Next]_vars => KeyInv'
<1> SUFFICES ASSUME TypeOK, KeyInv, [Next]_vars PROVE KeyInv'
  OBVIOUS
<1> USE AccountsAssumption
<1>0. "vapid" \in Key /\ "jwt" \in Key
  BY DEF Key
<1>1. CASE StartPush
  <2>1. /\ LoadKey("vapid") /\ phase' = "push" /\ tokens' = tokens /\ subs' = subs
    BY <1>1 DEF StartPush, db
  <2>2. QED
    BY <1>0, <2>1, KeyLoaded DEF KeyInv, Up
<1>2. CASE StartAuth
  <2>1. /\ phase = "push" /\ LoadKey("jwt") /\ phase' = "up"
        /\ tokens' = tokens /\ subs' = subs
    BY <1>2 DEF StartAuth, db
  <2>2. QED
    BY <1>0, <2>1, KeyLoaded DEF KeyInv, Up
<1>3. CASE Crash
  BY <1>3 DEF Crash, db, KeyInv, Up
<1>4. ASSUME NEW c \in Conn, NEW d \in Device, ApproveDevice(c, d) PROVE KeyInv'
  BY <1>4 DEF ApproveDevice, NewToken, db, keys, KeyInv, Up
<1>5. ASSUME NEW c \in Conn, NEW t \in tokens, TokenLogin(c, t) PROVE KeyInv'
  BY <1>5 DEF TokenLogin, Reads, NewToken, db, keys, KeyInv, Up
<1>6. ASSUME NEW c \in Conn, NEW e \in Endpoint, Subscribe(c, e) PROVE KeyInv'
  <2> DEFINE d == role[c].device
  <2>1. /\ Up /\ UNCHANGED <<config, loaded, phase, tokens>> /\ d \in Device
        /\ subs' = [subs EXCEPT ![d] = [endpoint |-> e, key |-> loaded["vapid"]]]
    BY <1>6 DEF Subscribe, Reads, keys, TypeOK
  <2>2. QED
    BY <2>1 DEF KeyInv, Up, TypeOK
<1>7. ASSUME UNCHANGED <<config, loaded, phase, tokens>>,
             \A d \in Device : subs'[d] = subs[d] \/ subs'[d] = None
      PROVE  KeyInv'
  BY <1>7 DEF KeyInv, Up
<1>8. ASSUME NEW u \in User, UserRemove(u) PROVE KeyInv'
  BY <1>7, <1>8 DEF UserRemove, DeleteDevices, keys
<1>9. CASE RevokeRow
  BY <1>7, <1>9 DEF RevokeRow, DeleteDevices, keys
<1>10. ASSUME NEW c \in Conn, Unsubscribe(c) PROVE KeyInv'
  BY <1>7, <1>10 DEF Unsubscribe, keys, TypeOK
<1>11. ASSUME NEW s \in fanout, PushAnswer(s) PROVE KeyInv'
  BY <1>7, <1>11 DEF PushAnswer, keys, TypeOK
<1>12. CASE UNCHANGED <<config, loaded, phase, tokens, subs>>
  BY <1>7, <1>12
<1>13. QED
  BY <1>1, <1>2, <1>3, <1>4, <1>5, <1>6, <1>8, <1>9, <1>10, <1>11, <1>12
     DEF Next, vars, db, keys, UserAdd, Connect, RegisterDevice, AddPending,
         ApproveRegister, RejectDevice, LoginRegister, Disconnect, Revoke, Notify,
         Retire, FileShot, FileRow

\* Keys outlive crashes at any point, start-up included.
THEOREM KeysAlwaysSurvive == Spec => []KeysSurvive
<1>1. Init => KeyInv
  BY DEF Init, KeyInv, Up
<1>2. KeyInv => KeysSurvive
  BY DEF KeyInv, KeysSurvive, Up
<1>3. QED
  BY <1>1, <1>2, KeyStep, TypeCorrect, PTL DEF Spec

-----------------------------------------------------------------------------
(* Revocation.                                                             *)

\* A socket of a device that is revoked, or about to lose its row, and that is
\* in the fan-out or about to be, overlapped the revocation or was readmitted.
\* RevokedNotServed is about the first half only; the second is where its
\* exceptions come from.  A socket that has gone is not logging in.
ServeInv ==
  /\ \A c \in Conn : c \notin open => login[c] = None
  /\ \A c \in Conn, d \in Device :
       /\ <<c, d>> \in clients \/ login[c] = d
       /\ d \in revoked \/ revoking = d
       => <<c, d>> \in overlap \cup readmitted

\* Every step keeps it.
LEMMA ServeStep == TypeOK /\ WaitInv /\ RowInv /\ ServeInv /\ [Next]_vars => ServeInv'
<1> SUFFICES ASSUME TypeOK, WaitInv, RowInv, ServeInv, [Next]_vars PROVE ServeInv'
  OBVIOUS
<1> USE AccountsAssumption
<1>a. ASSUME NEW c \in Conn, c \notin open' PROVE login'[c] = None
  <2>1. c \notin open => login[c] = None
    BY DEF ServeInv
  <2>2. ASSUME NEW x \in Conn, NEW t \in tokens, TokenLogin(x, t) PROVE login'[c] = None
    BY <1>a, <2>1, <2>2 DEF TokenLogin, Reads, TypeOK
  <2>3. ASSUME NEW x \in Conn, LoginRegister(x) PROVE login'[c] = None
    BY <1>a, <2>1, <2>3 DEF LoginRegister, TypeOK
  <2>4. ASSUME NEW x \in Conn, Disconnect(x) PROVE login'[c] = None
    BY <1>a, <2>1, <2>4 DEF Disconnect, Reads
  <2>5. ASSUME NEW x \in Conn, Connect(x) PROVE login'[c] = None
    BY <1>a, <2>1, <2>5 DEF Connect
  <2>6. CASE Crash
    BY <2>6 DEF Crash
  <2>7. CASE UNCHANGED <<open, login>>
    BY <1>a, <2>1, <2>7
  <2>8. QED
    BY <2>2, <2>3, <2>4, <2>5, <2>6, <2>7
       DEF Next, vars, sockets, UserAdd, UserRemove, StartPush, StartAuth,
           RegisterDevice, AddPending, ApproveDevice, ApproveRegister, RejectDevice,
           Revoke, RevokeRow, Subscribe, Unsubscribe, Notify, PushAnswer, Retire,
           FileShot, FileRow
<1> SUFFICES ASSUME NEW c \in Conn, NEW d \in Device,
                    <<c, d>> \in clients' \/ login'[c] = d,
                    d \in revoked' \/ revoking' = d
             PROVE  <<c, d>> \in overlap' \cup readmitted'
  BY <1>a DEF ServeInv
<1>0. (<<c, d>> \in clients \/ login[c] = d) /\ (d \in revoked \/ revoking = d)
        => <<c, d>> \in overlap \cup readmitted
  BY DEF ServeInv
<1>1. ASSUME NEW x \in Conn, NEW t \in tokens, TokenLogin(x, t)
      PROVE  <<c, d>> \in overlap' \cup readmitted'
  <2>1. t.device \in Device /\ t.user \in User /\ row[t.device] = t.user
    BY <1>1 DEF TokenLogin, Valid, IsDeviceRegistered, TypeOK, Token
  <2>2. t.device \notin revoked
    BY <2>1 DEF RowInv, Enrolled
  <2>3. /\ UNCHANGED <<clients, revoked, revoking, readmitted>>
        /\ login' = [login EXCEPT ![x] = t.device]
        /\ overlap' = IF revoking = t.device THEN overlap \cup {<<x, t.device>>}
                                             ELSE overlap \ {<<x, t.device>>}
    BY <1>1 DEF TokenLogin
  <2>4. CASE d = t.device
    BY <1>0, <2>2, <2>3, <2>4 DEF TypeOK
  <2>5. CASE d # t.device
    BY <1>0, <2>1, <2>3, <2>5 DEF TypeOK
  <2>6. QED
    BY <2>4, <2>5
<1>2. ASSUME NEW x \in Conn, LoginRegister(x) PROVE <<c, d>> \in overlap' \cup readmitted'
  <2>1. /\ clients' \subseteq clients \cup {<<x, login[x]>>}
        /\ login' = [login EXCEPT ![x] = None]
        /\ UNCHANGED <<revoked, revoking, overlap, readmitted>>
    BY <1>2, RegisterAdds DEF LoginRegister
  <2>2. <<c, d>> \in clients \/ login[c] = d
    BY <2>1 DEF TypeOK
  <2>3. QED
    BY <1>0, <2>1, <2>2
<1>3. ASSUME NEW x \in Conn, Disconnect(x) PROVE <<c, d>> \in overlap' \cup readmitted'
  <2>1. /\ clients' \subseteq clients
        /\ UNCHANGED <<login, revoked, revoking, overlap, readmitted>>
    BY <1>3 DEF Disconnect
  <2>2. QED
    BY <1>0, <2>1
<1>4. ASSUME NEW x \in Device, Revoke(x) PROVE <<c, d>> \in overlap' \cup readmitted'
  <2>1. CASE d = x
    BY <1>4, <2>1 DEF Revoke, UnregisterDevice
  <2>2. CASE d # x
    BY <1>0, <1>4, <2>2 DEF Revoke, UnregisterDevice
  <2>3. QED
    BY <2>1, <2>2
<1>5. CASE RevokeRow
  BY <1>0, <1>5 DEF RevokeRow
<1>6. CASE Crash
  BY <1>6 DEF Crash, TypeOK
<1>7. CASE UNCHANGED <<clients, login, revoked, revoking, overlap, readmitted>>
  BY <1>0, <1>7
<1>8. ASSUME NEW x \in Conn, Connect(x) PROVE <<c, d>> \in overlap' \cup readmitted'
  <2>1. /\ UNCHANGED <<clients, login, revoked, revoking>>
        /\ overlap' = {e \in overlap : e[1] # x}
        /\ readmitted' = {e \in readmitted : e[1] # x}
        /\ x \notin open /\ \A e \in clients : e[1] # x
    BY <1>8 DEF Connect
  <2>2. c # x
    BY <2>1 DEF ServeInv
  <2>3. QED
    BY <1>0, <2>1, <2>2
<1>9. ASSUME NEW x \in Conn, NEW y \in Device, ApproveRegister(x, y)
      PROVE  <<c, d>> \in overlap' \cup readmitted'
  <2>1. /\ clients' \subseteq clients \cup {<<x, y>>} /\ <<x, y>> \in approving
        /\ UNCHANGED <<login, revoked, revoking, overlap>>
        /\ readmitted' = IF y \in (revoked \cup {revoking}) \ rejected
                           THEN readmitted \cup {<<x, y>>} ELSE readmitted
    BY <1>9, RegisterAdds DEF ApproveRegister
  <2>2. y \notin rejected
    BY <2>1 DEF WaitInv, Seen
  <2>3. QED
    BY <1>0, <2>1, <2>2
<1>10. ASSUME NEW x \in Conn, NEW y \in Device, RejectDevice(x, y)
       PROVE  <<c, d>> \in overlap' \cup readmitted'
  <2>1. /\ <<x, y>> \in pending /\ revoking' = y
        /\ UNCHANGED <<clients, login, revoked, overlap, readmitted>>
    BY <1>10 DEF RejectDevice
  <2>2. ~Seen(y)
    BY <2>1 DEF WaitInv, Waits
  <2>3. d # y
    BY <2>1, <2>2 DEF Seen
  <2>4. QED
    BY <1>0, <2>1, <2>3
<1>11. QED
  BY <1>1, <1>2, <1>3, <1>4, <1>5, <1>6, <1>7, <1>8, <1>9, <1>10
     DEF Next, vars, sockets, UserAdd, UserRemove, StartPush, StartAuth,
         RegisterDevice, AddPending, ApproveDevice, Subscribe, Unsubscribe, Notify,
         PushAnswer, Retire, FileShot, FileRow

\* A revoked device is out of the fan-out on every socket whose login did not
\* overlap the revocation, save when it was revoked before its approval had
\* ended; a rejected one never gets in.
THEOREM RevokedStayOut == Spec => []RevokedNotServed
<1>1. Init => ServeInv
  <2> SUFFICES ASSUME Init
               PROVE  /\ \A c \in Conn : login[c] = None
                      /\ \A d \in Device : ~(d \in revoked \/ revoking = d)
    BY DEF ServeInv
  <2>1. revoked = {} /\ revoking = None
    BY DEF Init
  <2>2. \A d \in Device : ~(d \in revoked \/ revoking = d)
    BY <2>1, AccountsAssumption
  <2>3. QED
    BY <2>2 DEF Init
<1>2. TypeOK /\ ServeInv => RevokedNotServed
  <2> SUFFICES ASSUME TypeOK, ServeInv, NEW e \in clients, e[2] \in revoked
               PROVE  e \in overlap \/ e \in readmitted
    BY DEF RevokedNotServed
  <2>1. e = <<e[1], e[2]>> /\ e[1] \in Conn /\ e[2] \in Device
    BY DEF TypeOK
  <2>2. QED
    BY <2>1 DEF ServeInv
<1>3. QED
  BY <1>1, <1>2, ServeStep, RowAlways, WaitAlways, PTL DEF Spec

-----------------------------------------------------------------------------
(* Push subscriptions.                                                     *)

\* A subscription on file is the one the device asked for last; a fan-out that
\* holds another endpoint of a device has been outrun.
PushInv ==
  /\ RenewalSurvives
  /\ \A d \in Device : subs[d] # None => want[d] = subs[d].endpoint
  /\ \A s \in fanout : \/ want[s[1]] = None
                       \/ s[1] \in outrun
                       \/ want[s[1]] = s[2]

\* Every step keeps it.
LEMMA PushStep == TypeOK /\ PushInv /\ [Next]_vars => PushInv'
<1> SUFFICES ASSUME TypeOK, PushInv, [Next]_vars PROVE PushInv'
  OBVIOUS
<1> USE AccountsAssumption
<1>1. ASSUME NEW D, DeleteDevices(D), UNCHANGED <<fanout, outrun, alive>> PROVE PushInv'
  <2>1. \A d \in Device : \/ subs'[d] = None /\ want'[d] = None
                          \/ subs'[d] = subs[d] /\ want'[d] = want[d]
    BY <1>1 DEF DeleteDevices
  <2>2. None \notin alive
    BY DEF TypeOK
  <2>3. RenewalSurvives'
    BY <1>1, <2>1, <2>2 DEF PushInv, RenewalSurvives
  <2>4. \A s \in fanout : s[1] \in Device
    BY DEF TypeOK
  <2>5. QED
    BY <1>1, <2>1, <2>3, <2>4 DEF PushInv
<1>2. ASSUME NEW u \in User, UserRemove(u) PROVE PushInv'
  BY <1>1, <1>2 DEF UserRemove
<1>3. CASE RevokeRow
  BY <1>1, <1>3 DEF RevokeRow
<1>4. ASSUME NEW c \in Conn, NEW e \in Endpoint, Subscribe(c, e) PROVE PushInv'
  <2> DEFINE d == role[c].device
             n == [endpoint |-> e, key |-> loaded["vapid"]]
  <2>1. /\ d \in Device /\ n \in Sub /\ n # None /\ n.endpoint = e /\ e # None
    BY <1>4 DEF Subscribe, TypeOK, Sub, Key
  <2>2. /\ subs' = [subs EXCEPT ![d] = n] /\ want' = [want EXCEPT ![d] = e]
        /\ outrun' = IF \E s \in fanout : s[1] = d /\ s[2] # e
                       THEN outrun \cup {d} ELSE outrun \ {d}
        /\ fanout' = fanout /\ alive' = alive
    BY <1>4 DEF Subscribe
  <2> HIDE DEF n
  <2>3. \A x \in Device : /\ subs'[x] = IF x = d THEN n ELSE subs[x]
                          /\ want'[x] = IF x = d THEN e ELSE want[x]
    BY <2>2 DEF TypeOK
  <2>4. RenewalSurvives'
    BY <2>1, <2>2, <2>3 DEF PushInv, RenewalSurvives
  <2>5. \A s \in fanout : s[1] \in Device
    BY DEF TypeOK
  <2>6. ASSUME NEW s \in fanout
        PROVE  want'[s[1]] = None \/ s[1] \in outrun' \/ want'[s[1]] = s[2]
    <3>1. CASE s[1] = d
      BY <2>2, <2>3, <2>5, <3>1
    <3>2. CASE s[1] # d
      BY <2>2, <2>3, <2>5, <3>2 DEF PushInv
    <3>3. QED
      BY <3>1, <3>2
  <2>7. QED
    BY <2>1, <2>2, <2>3, <2>4, <2>6 DEF PushInv
<1>5. ASSUME NEW c \in Conn, Unsubscribe(c) PROVE PushInv'
  <2> DEFINE d == role[c].device
  <2>1. d \in Device /\ None \notin alive
    BY <1>5 DEF Unsubscribe, TypeOK
  <2>2. /\ subs' = [subs EXCEPT ![d] = None] /\ want' = [want EXCEPT ![d] = None]
        /\ UNCHANGED <<outrun, fanout, alive>>
    BY <1>5 DEF Unsubscribe
  <2>3. \A x \in Device : \/ subs'[x] = None /\ want'[x] = None
                          \/ subs'[x] = subs[x] /\ want'[x] = want[x]
    BY <2>2 DEF TypeOK
  <2>4. RenewalSurvives'
    BY <2>1, <2>2, <2>3 DEF PushInv, RenewalSurvives
  <2>5. \A s \in fanout : s[1] \in Device
    BY DEF TypeOK
  <2>6. QED
    BY <2>2, <2>3, <2>4, <2>5 DEF PushInv
<1>6. ASSUME NEW u \in User, Notify(u) PROVE PushInv'
  <2>1. \A s \in fanout' : \E d \in Device : s = <<d, subs[d].endpoint>> /\ subs[d] # None
    BY <1>6 DEF Notify
  <2>2. UNCHANGED <<subs, want, outrun, alive>>
    BY <1>6 DEF Notify, db
  <2>3. RenewalSurvives'
    BY <2>2 DEF PushInv, RenewalSurvives
  <2>4. QED
    BY <2>1, <2>2, <2>3 DEF PushInv
<1>7. ASSUME NEW s \in fanout, PushAnswer(s) PROVE PushInv'
  <2>1. /\ fanout' = fanout \ {s} /\ UNCHANGED <<want, outrun, alive>>
        /\ s[1] \in Device
    BY <1>7 DEF PushAnswer, TypeOK
  <2>2. CASE ~Gone(s[2])
    BY <1>7, <2>1, <2>2 DEF PushAnswer, PushInv, RenewalSurvives
  <2>3. CASE Gone(s[2])
    <3>1. \A d \in Device : subs'[d] = IF d = s[1] THEN None ELSE subs[d]
      BY <1>7, <2>3 DEF PushAnswer, TypeOK
    <3>2. want[s[1]] \notin alive \/ s[1] \in outrun
      BY <2>3 DEF Gone, PushInv, TypeOK
    <3>3. RenewalSurvives'
      BY <2>1, <3>1, <3>2 DEF PushInv, RenewalSurvives
    <3>4. QED
      BY <2>1, <3>1, <3>3 DEF PushInv
  <2>4. QED
    BY <2>2, <2>3
<1>8. ASSUME NEW e \in Endpoint, Retire(e) PROVE PushInv'
  BY <1>8 DEF Retire, db, push, PushInv, RenewalSurvives
<1>9. CASE Crash
  BY <1>9 DEF Crash, db, PushInv, RenewalSurvives
<1>10. CASE UNCHANGED <<subs, want, fanout, outrun, alive>>
  BY <1>10 DEF PushInv, RenewalSurvives
<1>11. QED
  BY <1>2, <1>3, <1>4, <1>5, <1>6, <1>7, <1>8, <1>9, <1>10
     DEF Next, vars, db, push, UserAdd, StartPush, StartAuth, RegisterDevice,
         Connect, AddPending, ApproveDevice, ApproveRegister, RejectDevice, TokenLogin,
         LoginRegister, Disconnect, Revoke, FileShot,
         FileRow

\* What a device subscribed with last stays on file while its push service
\* accepts it, unless a fan-out was outrun by the renewal.
THEOREM RenewalsSurvive == Spec => []RenewalSurvives
<1>1. Init => PushInv
  BY AccountsAssumption DEF Init, PushInv, RenewalSurvives
<1>2. PushInv => RenewalSurvives
  BY DEF PushInv
<1>3. QED
  BY <1>1, <1>2, PushStep, TypeCorrect, PTL DEF Spec

-----------------------------------------------------------------------------
(* Bug reports.                                                            *)

\* A path in a row, or in a row about to be inserted, names a file that was
\* written in full.
ShotInv ==
  /\ \A i \in 1..Len(reports) : reports[i].shot # None => reports[i].shot \in files
  /\ filing # None /\ filing.shot # None => filing.shot \in files

\* Every step keeps it.
LEMMA ShotStep == TypeOK /\ ShotInv /\ [Next]_vars => ShotInv'
<1> SUFFICES ASSUME TypeOK, ShotInv, [Next]_vars PROVE ShotInv'
  OBVIOUS
<1>1. ASSUME NEW u \in User, FileShot(u) PROVE ShotInv'
  <2>1. PICK w \in {[files |-> files, shot |-> None]}
                     \cup UNION {WriteShot(f) : f \in File \ Used} :
           files' = w.files /\ filing' = [user |-> u, shot |-> w.shot]
    BY <1>1 DEF FileShot
  <2>2. files \subseteq w.files /\ (w.shot = None \/ w.shot \in w.files)
    BY <2>1 DEF WriteShot
  <2>3. reports' = reports
    BY <1>1 DEF FileShot
  <2>4. QED
    BY <2>1, <2>2, <2>3 DEF ShotInv
<1>2. CASE FileRow
  <2>1. filing' = None /\ files' = files /\ filing # None
    BY <1>2 DEF FileRow
  <2>2. CASE reports' = reports
    BY <2>1, <2>2 DEF ShotInv
  <2>3. CASE reports' = Append(reports, filing)
    <3>1. Len(reports') = Len(reports) + 1 /\ Len(reports) \in Nat
      BY <2>1, <2>3 DEF TypeOK
    <3>2. ASSUME NEW i \in 1..Len(reports')
          PROVE  reports'[i] = IF i = Len(reports) + 1 THEN filing ELSE reports[i]
      BY <2>3, <3>1 DEF TypeOK
    <3>3. QED
      BY <2>1, <3>1, <3>2 DEF ShotInv
  <2>4. QED
    BY <1>2, <2>2, <2>3 DEF FileRow
<1>3. CASE Crash
  BY <1>3 DEF Crash, db, ShotInv
<1>4. CASE UNCHANGED <<reports, files, filing>>
  BY <1>4 DEF ShotInv
<1>5. QED
  BY <1>1, <1>2, <1>3, <1>4
     DEF Next, vars, db, UserAdd, UserRemove, StartPush, StartAuth, RegisterDevice,
         Connect, AddPending, ApproveDevice, ApproveRegister, RejectDevice, TokenLogin,
         LoginRegister, Disconnect, Revoke, RevokeRow,
         Subscribe, Unsubscribe, Notify, PushAnswer, Retire

\* What the bug-report API lists for a token is the token's own account's, and
\* a screenshot it announces can be fetched, after any failed write or crash.
THEOREM ReportsAlwaysServed == Spec => []ReportsServed
<1>1. Init => ShotInv
  BY DEF Init, ShotInv
<1>2. TypeOK /\ ShotInv => ReportsServed
  <2> SUFFICES ASSUME TypeOK, ShotInv, NEW t \in tokens, NEW v \in ListHandler(t)
               PROVE  /\ reports[v.id].user = t.user
                      /\ v.hasScreenshot => ScreenshotHandler(t, v.id) = reports[v.id].shot
    BY DEF ReportsServed
  <2>1. Bearer(t) # None
    BY DEF ListHandler
  <2>2. Bearer(t) = t.user
    BY <2>1 DEF Bearer
  <2>3. PICK i \in ListBugReports(t.user) :
           v = [id |-> i, hasScreenshot |-> reports[i].shot # None]
    BY <2>1, <2>2 DEF ListHandler
  <2>4. i \in 1..Len(reports) /\ reports[i].user = t.user
    BY <2>3 DEF ListBugReports
  <2>5. v.id = i /\ (v.hasScreenshot <=> reports[i].shot # None)
    BY <2>3
  <2>6. ASSUME reports[i].shot # None
        PROVE  ScreenshotHandler(t, i) = reports[i].shot
    <3>1. GetBugReport(t.user, i) = reports[i].shot /\ reports[i].shot \in files
      BY <2>4, <2>6 DEF GetBugReport, ShotInv
    <3>2. QED
      BY <2>1, <2>2, <3>1 DEF ScreenshotHandler
  <2>7. QED
    BY <2>4, <2>5, <2>6
<1>3. QED
  BY <1>1, <1>2, ShotStep, TypeCorrect, PTL DEF Spec

=============================================================================
