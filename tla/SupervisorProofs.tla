-------------------------- MODULE SupervisorProofs --------------------------
(***************************************************************************)
(* Proofs about Supervisor, for any set of clients and ids, finite or not, *)
(* and any MAX_PENDING_SUPERVISOR.                                         *)
(***************************************************************************)
EXTENDS Supervisor, FiniteSetTheorems, TLAPS

\* The inductive invariant: the bound on the table means nothing unless the
\* table is finite, and the ids a client may choose need not be.
IInv ==
  /\ TypeOK
  /\ IsFiniteSet(Keys(sup))
  /\ ParkedOwnerGone

-----------------------------------------------------------------------------
(* The table.                                                              *)

Table == [Id -> Entry \cup {None}]

\* A step that only removes ids keeps a finite table finite and within the cap.
LEMMA Shrinks ==
  ASSUME TypeOK, IsFiniteSet(Keys(sup)), NEW t, Keys(t) \subseteq Keys(sup)
  PROVE  /\ IsFiniteSet(Keys(t))
         /\ Cardinality(Keys(t)) <= MaxPending
<1>1. IsFiniteSet(Keys(t)) /\ Cardinality(Keys(t)) <= Cardinality(Keys(sup))
  BY FS_Subset
<1>2. Cardinality(Keys(t)) \in Nat /\ Cardinality(Keys(sup)) \in Nat
  BY <1>1, FS_CardinalityType
<1>3. QED
  BY <1>1, <1>2, SupervisorAssumption DEF TypeOK

\* gc_supervisor only drops entries, and only old ones.
LEMMA GcTable ==
  ASSUME TypeOK
  PROVE  /\ Gc \in Table
         /\ Keys(Gc) \subseteq Keys(sup)
         /\ \A i \in Id : Gc[i] # None => Gc[i] = sup[i]
         /\ \A i \in Id : sup[i] # None /\ Gc[i] = None => sup[i].old
BY DEF Gc, Keys, Table, TypeOK

\* Adding one id below the cap stays within it.
LEMMA Grows ==
  ASSUME NEW s, NEW t, NEW i \in Id, IsFiniteSet(Keys(s)),
         Cardinality(Keys(s)) < MaxPending, Keys(t) = Keys(s) \cup {i}
  PROVE  /\ IsFiniteSet(Keys(t))
         /\ Cardinality(Keys(t)) <= MaxPending
<1>1. /\ IsFiniteSet(Keys(t))
      /\ \/ Cardinality(Keys(t)) = Cardinality(Keys(s))
         \/ Cardinality(Keys(t)) = Cardinality(Keys(s)) + 1
  BY FS_AddElement
<1>2. Cardinality(Keys(s)) \in Nat
  BY FS_CardinalityType
<1>3. QED
  BY <1>1, <1>2, SupervisorAssumption

-----------------------------------------------------------------------------
(* The four outcomes of begin_supervisor_query and the three of            *)
(* resolve_supervisor, seen as steps of the table: what both invariants    *)
(* and the action property need of them.                                   *)

\* What a step does to the table and to the connections, as far as the
\* invariants go: it stays typed, finite and bounded, and every parked reply
\* was parked before for the same owner or is parked now for a closed one.
TableStep ==
  /\ sup' \in Table
  /\ IsFiniteSet(Keys(sup')) /\ Cardinality(Keys(sup')) <= MaxPending
  /\ \A i \in Id : sup'[i] # None /\ sup'[i].stored =>
       conn[sup'[i].owner] = "closed"

\* begin_supervisor_query, in each of its outcomes.
LEMMA BeginQueryTable ==
  ASSUME IInv, NEW c \in Client, BeginQuery(c)
  PROVE  TableStep
<1> DEFINE i == arg[c]
           t == Gc
           e == t[i]
<1> USE SupervisorAssumption
<1>0. TypeOK /\ i \in Id /\ t \in Table /\ Keys(t) \subseteq Keys(sup)
      /\ IsFiniteSet(Keys(sup))
      /\ IsFiniteSet(Keys(t)) /\ Cardinality(Keys(t)) <= MaxPending
  BY GcTable, Shrinks DEF IInv, TypeOK, BeginQuery
<1>1. \A j \in Id : t[j] # None /\ t[j].stored => conn[t[j].owner] = "closed"
  BY <1>0, GcTable DEF IInv, ParkedOwnerGone, Keys
<1>2. CASE e # None /\ e.stored /\ sup' = [t EXCEPT ![i] = None]
  <2>1. sup' \in Table /\ Keys(sup') \subseteq Keys(t)
    BY <1>0, <1>2 DEF Table, Keys
  <2>2. IsFiniteSet(Keys(sup')) /\ Cardinality(Keys(sup')) <= MaxPending
    BY <1>0, <2>1, Shrinks
  <2>3. \A j \in Id : sup'[j] # None => sup'[j] = t[j]
    BY <1>0, <1>2 DEF Table
  <2>4. QED
    BY <1>1, <2>1, <2>2, <2>3 DEF TableStep
<1>3. CASE e # None /\ ~e.stored /\ sup' = [t EXCEPT ![i].owner = c]
  <2>1. sup' \in Table /\ Keys(sup') \subseteq Keys(t)
    BY <1>0, <1>3 DEF Table, Keys, Entry
  <2>2. IsFiniteSet(Keys(sup')) /\ Cardinality(Keys(sup')) <= MaxPending
    BY <1>0, <2>1, Shrinks
  <2>3. \A j \in Id : sup'[j] = t[j] \/ ~sup'[j].stored
    BY <1>0, <1>3 DEF Table, Entry
  <2>4. QED
    BY <1>1, <2>1, <2>2, <2>3 DEF TableStep
<1>4. CASE sup' = t
  BY <1>0, <1>1, <1>4 DEF TableStep
<1>5. CASE /\ e = None /\ Cardinality(Keys(t)) < MaxPending
           /\ sup' = [t EXCEPT ![i] = [owner |-> c, stored |-> FALSE, old |-> FALSE]]
  <2> DEFINE new == [owner |-> c, stored |-> FALSE, old |-> FALSE]
  <2>0. new \in Entry
    BY DEF Entry
  <2>1. sup' \in Table /\ Keys(sup') = Keys(t) \cup {i}
    <3>1. sup' = [t EXCEPT ![i] = new]
      BY <1>5
    <3> HIDE DEF new
    <3>2. new # None
      BY <2>0 DEF Entry
    <3>3. sup' \in Table
      BY <1>0, <2>0, <3>1 DEF Table
    <3>4. \A j \in Id : sup'[j] = IF j = i THEN new ELSE t[j]
      BY <1>0, <3>1 DEF Table
    <3>5. QED
      BY <1>0, <3>2, <3>3, <3>4 DEF Keys
  <2>2. IsFiniteSet(Keys(sup')) /\ Cardinality(Keys(sup')) <= MaxPending
    BY <1>0, <1>5, <2>1, Grows
  <2>3. \A j \in Id : sup'[j] = t[j] \/ ~sup'[j].stored
    BY <1>0, <1>5 DEF Table, Entry
  <2>4. QED
    BY <1>1, <2>1, <2>2, <2>3 DEF TableStep
<1>6. QED
  BY <1>2, <1>3, <1>4, <1>5 DEF BeginQuery

\* resolve_supervisor, in each of its outcomes.
LEMMA ResolveTable ==
  ASSUME IInv, NEW i \in Id, Resolve(i)
  PROVE  TableStep
<1> DEFINE t == Gc
           e == t[i]
<1> USE SupervisorAssumption
<1>0. TypeOK /\ t \in Table /\ Keys(t) \subseteq Keys(sup) /\ IsFiniteSet(Keys(sup))
      /\ IsFiniteSet(Keys(t)) /\ Cardinality(Keys(t)) <= MaxPending
  BY GcTable, Shrinks DEF IInv
<1>1. \A j \in Id : t[j] # None /\ t[j].stored => conn[t[j].owner] = "closed"
  BY <1>0, GcTable DEF IInv, ParkedOwnerGone, Keys
<1>2. CASE sup' = t
  BY <1>0, <1>1, <1>2 DEF TableStep
<1>3. CASE sup' = [t EXCEPT ![i] = None]
  <2>1. sup' \in Table /\ Keys(sup') \subseteq Keys(t)
    BY <1>0, <1>3 DEF Table, Keys
  <2>2. IsFiniteSet(Keys(sup')) /\ Cardinality(Keys(sup')) <= MaxPending
    BY <1>0, <2>1, Shrinks
  <2>3. \A j \in Id : sup'[j] # None => sup'[j] = t[j]
    BY <1>0, <1>3 DEF Table
  <2>4. QED
    BY <1>1, <2>1, <2>2, <2>3 DEF TableStep
<1>4. CASE /\ e # None /\ conn[e.owner] = "closed"
           /\ sup' = [t EXCEPT ![i].stored = TRUE]
  <2>1. sup' \in Table /\ Keys(sup') \subseteq Keys(t)
    BY <1>0, <1>4 DEF Table, Keys, Entry
  <2>2. IsFiniteSet(Keys(sup')) /\ Cardinality(Keys(sup')) <= MaxPending
    BY <1>0, <2>1, Shrinks
  <2>3. /\ \A j \in Id \ {i} : sup'[j] = t[j]
        /\ sup'[i].owner = e.owner
    BY <1>0, <1>4 DEF Table, Entry
  <2>4. QED
    BY <1>1, <1>4, <2>1, <2>2, <2>3 DEF TableStep
<1>5. QED
  BY <1>2, <1>3, <1>4 DEF Resolve

-----------------------------------------------------------------------------
(* The invariants.                                                         *)

\* A step that does not touch the table keeps a parked reply's owner closed:
\* a closed channel never reopens.
LEMMA TableKept ==
  ASSUME IInv, UNCHANGED sup, \A c \in Client : conn[c] = "closed" => conn'[c] = "closed"
  PROVE  /\ IsFiniteSet(Keys(sup')) /\ Cardinality(Keys(sup')) <= MaxPending
         /\ ParkedOwnerGone'
<1>1. Keys(sup') = Keys(sup) /\ sup' = sup
  BY DEF Keys
<1>2. IsFiniteSet(Keys(sup')) /\ Cardinality(Keys(sup')) <= MaxPending
  BY <1>1 DEF IInv, TypeOK
<1>3. ASSUME NEW i \in Keys(sup), sup[i].stored PROVE conn'[sup[i].owner] = "closed"
  <2>1. sup[i].owner \in Client
    BY SupervisorAssumption DEF Keys, IInv, TypeOK, Entry
  <2>2. QED
    BY <1>3, <2>1 DEF IInv, ParkedOwnerGone
<1>4. QED
  BY <1>1, <1>2, <1>3 DEF ParkedOwnerGone

\* Every step keeps the invariant.
LEMMA IInvStep == IInv /\ [Next]_vars => IInv'
<1> SUFFICES ASSUME IInv, [Next]_vars PROVE IInv'
  OBVIOUS
<1> USE SupervisorAssumption
<1>0. TypeOK
  BY DEF IInv
<1>1. ASSUME TableStep, UNCHANGED conn
      PROVE  IsFiniteSet(Keys(sup')) /\ ParkedOwnerGone'
             /\ sup' \in [Id -> Entry \cup {None}] /\ Cardinality(Keys(sup')) <= MaxPending
  BY <1>1 DEF TableStep, ParkedOwnerGone, Keys, Table
<1>2. ASSUME NEW c \in Client, BeginQuery(c) PROVE IInv'
  <2>1. TableStep
    BY <1>2, BeginQueryTable
  <2>2. UNCHANGED conn
    BY <1>2 DEF BeginQuery
  <2>3. /\ pc' \in [Client -> {"idle", "begin", "forward"}]
        /\ arg' \in [Client -> Id \cup {None}]
        /\ \A d \in Client : pc'[d] # "idle" => arg'[d] \in Id
        /\ waiting' \in [Client -> SUBSET Id]
    BY <1>0, <1>2 DEF BeginQuery, Goto, Told, TypeOK
  <2>4. conn' = conn /\ online' = online /\ asked' = asked
    BY <1>2 DEF BeginQuery, desk
  <2>5. QED
    BY <1>0, <1>1, <2>1, <2>2, <2>3, <2>4 DEF IInv, TypeOK
<1>3. ASSUME NEW i \in Id, Reply(i) PROVE IInv'
  <2>1. TableStep
    BY <1>3, ResolveTable DEF Reply
  <2>2. waiting' \in [Client -> SUBSET Id]
    BY <1>0, <1>3 DEF Reply, Resolve, Told, TypeOK
  <2>3. QED
    BY <1>0, <1>1, <1>3, <2>1, <2>2 DEF Reply, IInv, TypeOK, calls
<1>4. ASSUME NEW c \in Client, NEW i \in Id, Query(c, i) PROVE IInv'
  <2>1. IsFiniteSet(Keys(sup')) /\ Cardinality(Keys(sup')) <= MaxPending /\ ParkedOwnerGone'
    BY <1>4, TableKept DEF Query
  <2>2. QED
    BY <1>0, <1>4, <2>1 DEF Query, Goto, Told, IInv, TypeOK, calls, desk
<1>5. ASSUME NEW c \in Client, ForwardQuery(c) PROVE IInv'
  <2>1. IsFiniteSet(Keys(sup')) /\ Cardinality(Keys(sup')) <= MaxPending /\ ParkedOwnerGone'
    BY <1>5, TableKept DEF ForwardQuery
  <2>2. QED
    BY <1>0, <1>5, <2>1 DEF ForwardQuery, Goto, IInv, TypeOK
<1>6. ASSUME NEW i \in Id, Age(i) PROVE IInv'
  <2>1. sup' \in Table /\ Keys(sup') \subseteq Keys(sup)
    BY <1>0, <1>6 DEF Age, Table, Keys, TypeOK, Entry
  <2>2. IsFiniteSet(Keys(sup')) /\ Cardinality(Keys(sup')) <= MaxPending
    BY <1>0, <2>1, Shrinks DEF IInv
  <2>3. \A j \in Id : sup'[j] # None =>
             /\ sup[j] # None
             /\ sup'[j].owner = sup[j].owner /\ sup'[j].stored = sup[j].stored
    BY <1>0, <1>6 DEF Age, TypeOK, Entry
  <2>4. ParkedOwnerGone'
    BY <1>6, <2>3 DEF Age, IInv, ParkedOwnerGone, Keys
  <2>5. QED
    BY <1>0, <1>6, <2>1, <2>2, <2>4 DEF Age, IInv, TypeOK, Table, calls, desk
<1>7. ASSUME NEW c \in Client, Die(c) \/ Close(c) PROVE IInv'
  <2>1. IsFiniteSet(Keys(sup')) /\ Cardinality(Keys(sup')) <= MaxPending /\ ParkedOwnerGone'
    BY <1>0, <1>7, TableKept DEF Die, Close, TypeOK
  <2>2. QED
    BY <1>0, <1>7, <2>1 DEF Die, Close, IInv, TypeOK, calls, desk
<1>8. ASSUME NEW on \in BOOLEAN, Desktop(on) PROVE IInv'
  <2>1. IsFiniteSet(Keys(sup')) /\ Cardinality(Keys(sup')) <= MaxPending /\ ParkedOwnerGone'
    BY <1>8, TableKept DEF Desktop
  <2>2. QED
    BY <1>0, <1>8, <2>1 DEF Desktop, IInv, TypeOK, calls
<1>9. CASE UNCHANGED vars
  <2>1. IsFiniteSet(Keys(sup')) /\ Cardinality(Keys(sup')) <= MaxPending /\ ParkedOwnerGone'
    BY <1>9, TableKept DEF vars
  <2>2. QED
    BY <1>0, <1>9, <2>1 DEF vars, IInv, TypeOK, calls, desk
<1>10. QED
  BY <1>2, <1>3, <1>4, <1>5, <1>6, <1>7, <1>8, <1>9 DEF Next

\* The empty table satisfies it.
LEMMA IInvInit == Init => IInv
<1> SUFFICES ASSUME Init PROVE IInv
  OBVIOUS
<1>1. Keys(sup) = {}
  BY DEF Init, Keys
<1>2. IsFiniteSet(Keys(sup)) /\ Cardinality(Keys(sup)) = 0
  BY <1>1, FS_EmptySet
<1>3. ParkedOwnerGone
  BY <1>1 DEF ParkedOwnerGone
<1>4. TypeOK
  <2>1. Cardinality(Keys(sup)) <= MaxPending
    BY <1>2, SupervisorAssumption
  <2>2. /\ pc \in [Client -> {"idle", "begin", "forward"}]
        /\ \A c \in Client : pc[c] # "idle" => arg[c] \in Id
    BY DEF Init
  <2>3. QED
    BY <2>1, <2>2 DEF Init, TypeOK
<1>5. QED
  BY <1>2, <1>3, <1>4 DEF IInv

\* The table of pending queries never exceeds MAX_PENDING_SUPERVISOR, whatever
\* ids the clients choose, and every handler step stays typed.
THEOREM TypeCorrect == Spec => []TypeOK
<1>1. IInv => TypeOK
  BY DEF IInv
<1>2. QED
  BY <1>1, IInvInit, IInvStep, PTL DEF Spec

\* A reply is parked only for a connection whose channel is closed.
THEOREM ParkedOnlyForTheGone == Spec => []ParkedOwnerGone
<1>1. IInv => ParkedOwnerGone
  BY DEF IInv
<1>2. QED
  BY <1>1, IInvInit, IInvStep, PTL DEF Spec

-----------------------------------------------------------------------------
(* The action property.                                                    *)

\* An entry leaves the table only when it is collected, when its reply went
\* into the owner's channel, or when it was handed to the one who asks again.
THEOREM RepliesAccounted == Spec => ReplyAccounted
<1>1. ASSUME IInv, [Next]_vars, NEW i \in Id PROVE Accounted(i)
  <2> SUFFICES ASSUME sup[i] # None, sup'[i] = None, ~sup[i].old
               PROVE  \/ ~sup[i].stored /\ conn[sup[i].owner] # "closed"
                      \/ sup[i].stored /\ \E c \in Client :
                            pc[c] = "begin" /\ arg[c] = i /\ i \notin waiting'[c]
    BY DEF Accounted
  <2> USE SupervisorAssumption
  <2>1. TypeOK /\ ParkedOwnerGone
    BY <1>1 DEF IInv
  <2>2. Gc[i] = sup[i] /\ Gc \in Table
    BY <2>1, GcTable
  <2>3. ASSUME NEW c \in Client, BeginQuery(c)
        PROVE  sup[i].stored /\ pc[c] = "begin" /\ arg[c] = i /\ i \notin waiting'[c]
    <3>1. arg[c] \in Id /\ pc[c] = "begin"
      BY <2>1, <2>3 DEF BeginQuery, TypeOK
    <3>2. CASE /\ Gc[arg[c]] # None /\ Gc[arg[c]].stored
               /\ sup' = [Gc EXCEPT ![arg[c]] = None] /\ Told(c, arg[c])
      BY <2>1, <2>2, <3>1, <3>2 DEF Told, Table, TypeOK
    <3>3. CASE Gc[arg[c]] # None /\ sup' = [Gc EXCEPT ![arg[c]].owner = c]
      BY <2>2, <3>1, <3>3 DEF Table, Entry
    <3>4. CASE sup' = Gc
      BY <2>2, <3>4
    <3>5. CASE sup' = [Gc EXCEPT ![arg[c]] = [owner |-> c, stored |-> FALSE, old |-> FALSE]]
      BY <2>2, <3>1, <3>5 DEF Table, Entry
    <3>6. QED
      BY <2>3, <3>2, <3>3, <3>4, <3>5 DEF BeginQuery
  <2>4. ASSUME NEW j \in Id, Reply(j)
        PROVE  ~sup[i].stored /\ conn[sup[i].owner] # "closed"
    <3>1. Resolve(j)
      BY <2>4 DEF Reply
    <3>2. CASE sup' = Gc
      BY <2>2, <3>2
    <3>3. CASE conn[Gc[j].owner] # "closed" /\ sup' = [Gc EXCEPT ![j] = None]
      <4>1. j = i
        BY <2>2, <3>3 DEF Table
      <4>2. QED
        BY <2>1, <2>2, <3>3, <4>1 DEF ParkedOwnerGone, Keys
    <3>4. CASE Gc[j] # None /\ sup' = [Gc EXCEPT ![j].stored = TRUE]
      BY <2>2, <3>4 DEF Table, Entry
    <3>5. QED
      BY <3>1, <3>2, <3>3, <3>4 DEF Resolve
  <2>5. ASSUME NEW j \in Id, Age(j) PROVE FALSE
    <3>1. sup[j] \in Entry
      BY <2>1, <2>5 DEF Age, TypeOK
    <3>2. [sup[j] EXCEPT !.old = TRUE] \in Entry
      BY <3>1 DEF Entry
    <3>3. \A k \in Id : sup'[k] = IF k = j THEN [sup[j] EXCEPT !.old = TRUE] ELSE sup[k]
      BY <2>1, <2>5 DEF Age, TypeOK
    <3>4. QED
      BY <3>2, <3>3 DEF Entry
  <2>6. CASE UNCHANGED sup
    BY <2>6
  <2>7. QED
    BY <1>1, <2>3, <2>4, <2>5, <2>6
       DEF Next, vars, ForwardQuery, Die, Close, Query, Desktop
<1>2. IInv /\ [Next]_vars => [\A i \in Id : Accounted(i)]_vars
  BY <1>1
<1>3. QED
  BY <1>2, IInvInit, IInvStep, PTL DEF Spec, ReplyAccounted

=============================================================================
