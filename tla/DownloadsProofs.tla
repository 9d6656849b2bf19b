--------------------------- MODULE DownloadsProofs ---------------------------
(***************************************************************************)
(* Proofs about Downloads, for any set of clients, ids and declared sizes, *)
(* any MAX_ACTIVE_DOWNLOADS and any MAX_DOWNLOAD_SIZE.                     *)
(***************************************************************************)
EXTENDS Downloads, FiniteSetTheorems, TLAPS

\* The requests whose entry is gone without an end.
Gone == lost \cup ousted

USE DEF Gone

Table == [Id -> Entry \cup {None}]

\* What ties the table t to the open connections o, the requests w that wait
\* and those of them, l, whose entry is gone: slots and sizes are within their
\* limits, the owner of an entry is connected, and whoever waits is the owner
\* or has lost it.
Sound(t, w, l, o) ==
  /\ t \in Table
  /\ IsFiniteSet(Keys(t)) /\ Cardinality(Keys(t)) <= MaxActive
  /\ \A u \in Id : t[u] # None => t[u].bytes <= MaxSize /\ t[u].owner \in o
  /\ \A c \in Client, u \in Id : <<c, u>> \in w =>
       \/ t[u] # None /\ t[u].owner = c
       \/ <<c, u>> \in l

\* What ties the table t to the requests on their way, p, and the streams f: the
\* owner of an entry waits for it, and nobody but the owner has a request or a
\* stream under its id.  Ids that were reused, r, are left out.
Routed(t, w, p, f, r) ==
  \A u \in Id \ r : t[u] # None =>
    /\ <<t[u].owner, u>> \in w
    /\ \A d \in Client : p[d] = u \/ <<d, u>> \in f => t[u].owner = d

\* The inductive invariant.
IInv ==
  /\ TypeOK
  /\ Sound(downloads, waiting, Gone, open)
  /\ Routed(downloads, waiting, pc, streams, reused)

-----------------------------------------------------------------------------
(* What the operations do to a sound table.                                *)

\* A table with fewer entries stays finite and within the slots.
LEMMA Shrinks ==
  ASSUME NEW s, NEW t, IsFiniteSet(Keys(s)), Cardinality(Keys(s)) <= MaxActive,
         Keys(t) \subseteq Keys(s)
  PROVE  IsFiniteSet(Keys(t)) /\ Cardinality(Keys(t)) <= MaxActive
<1>1. IsFiniteSet(Keys(t)) /\ Cardinality(Keys(t)) <= Cardinality(Keys(s))
  BY FS_Subset
<1>2. Cardinality(Keys(t)) \in Nat /\ Cardinality(Keys(s)) \in Nat
  BY <1>1, FS_CardinalityType
<1>3. QED
  BY <1>1, <1>2, DownloadsAssumption

\* gc_downloads: what it drops is accounted for as lost.
LEMMA GcSound ==
  ASSUME IInv
  PROVE  /\ Sound(Gc, waiting, Gone \cup Collected, open)
         /\ Routed(Gc, waiting, pc, streams, reused)
         /\ Collected \subseteq Client \X Id
         /\ \A u \in Id : Gc[u] # None => Gc[u] = downloads[u] /\ ~downloads[u].idle
<1> USE DownloadsAssumption
<1>1. /\ downloads \in Table /\ Gc \in Table
      /\ \A u \in Id : Gc[u] # None => Gc[u] = downloads[u] /\ ~downloads[u].idle
      /\ \A u \in Id : downloads[u] # None /\ Gc[u] = None => downloads[u].idle
  BY DEF IInv, TypeOK, Gc, Table
<1>2. Keys(Gc) \subseteq Keys(downloads)
  BY <1>1 DEF Keys
<1>3. IsFiniteSet(Keys(Gc)) /\ Cardinality(Keys(Gc)) <= MaxActive
  BY <1>2, Shrinks DEF IInv, Sound
<1>4. \A c \in Client, u \in Id :
         <<c, u>> \in Collected <=>
           downloads[u] # None /\ downloads[u].idle /\ downloads[u].owner = c
  BY <1>1 DEF Collected, Keys
<1>5. Collected \subseteq Client \X Id
  BY <1>1 DEF Collected, Keys, Table, Entry
<1>6. \A u \in Id : Gc[u] # None => Gc[u].bytes <= MaxSize /\ Gc[u].owner \in open
  BY <1>1 DEF IInv, Sound
<1>7. ASSUME NEW c \in Client, NEW u \in Id, <<c, u>> \in waiting
      PROVE  \/ Gc[u] # None /\ Gc[u].owner = c
             \/ <<c, u>> \in Gone \cup Collected
  <2>1. CASE <<c, u>> \in Gone
    BY <2>1
  <2>2. CASE downloads[u] # None /\ downloads[u].owner = c
    BY <1>1, <1>4, <2>2
  <2>3. QED
    BY <1>7, <2>1, <2>2 DEF IInv, Sound
<1>8. Sound(Gc, waiting, Gone \cup Collected, open)
  BY <1>1, <1>3, <1>6, <1>7 DEF Sound
<1>9. Routed(Gc, waiting, pc, streams, reused)
  BY <1>1 DEF IInv, Routed
<1>10. QED
  BY <1>1, <1>5, <1>8, <1>9

\* An entry is severed or ended and its owner waits no longer.
LEMMA RemoveSound ==
  ASSUME NEW t, NEW w, NEW l, NEW o, Sound(t, w, l, o), NEW u \in Id, t[u] # None,
         NEW p, NEW f, NEW r, Routed(t, w, p, f, r)
  PROVE  /\ Sound([t EXCEPT ![u] = None], w \ {<<t[u].owner, u>>}, l, o)
         /\ Routed([t EXCEPT ![u] = None], w \ {<<t[u].owner, u>>}, p, f, r)
<1> DEFINE s == [t EXCEPT ![u] = None]
<1>1. s \in Table /\ \A v \in Id : s[v] = IF v = u THEN None ELSE t[v]
  BY DEF Sound, Table
<1> HIDE DEF s
<1>2. Keys(s) \subseteq Keys(t)
  BY <1>1 DEF Keys
<1>3. IsFiniteSet(Keys(s)) /\ Cardinality(Keys(s)) <= MaxActive
  BY <1>2, Shrinks DEF Sound
<1>4. Sound(s, w \ {<<t[u].owner, u>>}, l, o)
  BY <1>1, <1>3 DEF Sound
<1>5. Routed(s, w \ {<<t[u].owner, u>>}, p, f, r)
  BY <1>1 DEF Routed
<1>6. QED
  BY <1>4, <1>5 DEF s

\* An entry is updated in place: same owner, size within the maximum.
LEMMA UpdateSound ==
  ASSUME NEW t, NEW w, NEW l, NEW o, Sound(t, w, l, o), NEW u \in Id, t[u] # None,
         NEW p, NEW f, NEW r, Routed(t, w, p, f, r),
         NEW e \in Entry, e.owner = t[u].owner, e.bytes <= MaxSize,
         NEW s \in Table, \A v \in Id : s[v] = IF v = u THEN e ELSE t[v]
  PROVE  Sound(s, w, l, o) /\ Routed(s, w, p, f, r)
<1>1. e # None
  BY DownloadsAssumption DEF Entry
<1>2. Keys(s) \subseteq Keys(t)
  BY <1>1 DEF Keys
<1>3. IsFiniteSet(Keys(s)) /\ Cardinality(Keys(s)) <= MaxActive
  BY <1>2, Shrinks DEF Sound
<1>4. Sound(s, w, l, o)
  BY <1>1, <1>3 DEF Sound
<1>5. Routed(s, w, p, f, r)
  BY DEF Routed
<1>6. QED
  BY <1>4, <1>5

\* A free slot is taken by a client that asks; whoever had the id has lost it.
LEMMA AddSound ==
  ASSUME NEW t, NEW w, NEW l, NEW o, Sound(t, w, l, o), NEW u \in Id, NEW c \in Client,
         c \in o, Cardinality(Keys(t)) < MaxActive,
         NEW e \in Entry, e.owner = c, e.bytes = 0,
         NEW k, \A q \in l : q = <<c, u>> \/ q \in k,
         t[u] # None => t[u].owner = c \/ <<t[u].owner, u>> \in k
  PROVE  Sound([t EXCEPT ![u] = e], w \cup {<<c, u>>}, k, o)
<1> DEFINE s == [t EXCEPT ![u] = e]
<1> USE DownloadsAssumption
<1>1. e # None
  BY DEF Entry
<1>2. s \in Table /\ \A v \in Id : s[v] = IF v = u THEN e ELSE t[v]
  BY DEF Sound, Table
<1> HIDE DEF s
<1>3. Keys(s) = Keys(t) \cup {u}
  BY <1>1, <1>2 DEF Keys
<1>4. /\ IsFiniteSet(Keys(s))
      /\ \/ Cardinality(Keys(s)) = Cardinality(Keys(t))
         \/ Cardinality(Keys(s)) = Cardinality(Keys(t)) + 1
  BY <1>3, FS_AddElement DEF Sound
<1>5. Cardinality(Keys(t)) \in Nat
  BY FS_CardinalityType DEF Sound
<1>6. Cardinality(Keys(s)) <= MaxActive
  BY <1>4, <1>5
<1>7. \A v \in Id : s[v] # None => s[v].bytes <= MaxSize /\ s[v].owner \in o
  BY <1>2 DEF Sound
<1>8. ASSUME NEW d \in Client, NEW v \in Id, <<d, v>> \in w \cup {<<c, u>>}
      PROVE  (s[v] # None /\ s[v].owner = d) \/ <<d, v>> \in k
  <2>1. CASE d = c /\ v = u
    BY <1>1, <1>2, <2>1
  <2>2. CASE ~(d = c /\ v = u)
    <3>1. <<d, v>> \in w /\ <<d, v>> # <<c, u>>
      BY <1>8, <2>2
    <3>2. (t[v] # None /\ t[v].owner = d) \/ <<d, v>> \in l
      BY <3>1 DEF Sound
    <3>3. QED
      BY <1>2, <2>2, <3>1, <3>2
  <2>3. QED
    BY <2>1, <2>2
<1>9. Sound(s, w \cup {<<c, u>>}, k, o)
  BY <1>2, <1>4, <1>6, <1>7, <1>8 DEF Sound
<1>10. QED
  BY <1>9 DEF s

-----------------------------------------------------------------------------
(* One step per operation.                                                 *)

\* Every step keeps the invariant.
LEMMA IInvStep == IInv /\ [Next]_vars => IInv'
<1> SUFFICES ASSUME IInv, [Next]_vars PROVE IInv'
  OBVIOUS
<1> USE DownloadsAssumption
<1> DEFINE l == Gone \cup Collected
<1>0. /\ TypeOK /\ Collected \subseteq Client \X Id
      /\ Sound(Gc, waiting, l, open) /\ Gc \in Table
      /\ Routed(Gc, waiting, pc, streams, reused)
      /\ streams \subseteq Client \X Id
  BY GcSound DEF IInv, Sound, TypeOK
<1> HIDE DEF l
<1>1. /\ \A u \in Id : Gc[u] # None => Gc[u] \in Entry
      /\ \A s \in streams : s[2] \in Id
  BY <1>0 DEF Table
<1>2. ASSUME NEW c \in Client, NEW u \in Id, RequestRefused(c, u) PROVE IInv'
  <2>1. /\ downloads' = Gc /\ lost' = lost \cup Collected
        /\ waiting' = waiting \ {<<c, u>>}
        /\ UNCHANGED <<open, pc, online, streams, ousted>>
        /\ reused' = IF InUse(c, u) THEN reused \cup {u} ELSE reused
    BY <1>2 DEF RequestRefused, GcThen, Reuse
  <2>2. Sound(downloads', waiting', Gone', open')
    BY <1>0, <2>1 DEF Sound, l
  <2>3. Gc[u] # None => u \in reused'
    BY <2>1 DEF InUse
  <2>4. reused \subseteq reused' /\ reused' \subseteq Id
    BY <1>0, <2>1 DEF TypeOK
  <2>5. Routed(downloads', waiting', pc', streams', reused')
    BY <1>0, <2>1, <2>3, <2>4 DEF Routed
  <2>6. QED
    BY <1>0, <2>1, <2>2, <2>4, <2>5 DEF IInv, TypeOK, Table
<1>3. ASSUME NEW c \in Client, NEW u \in Id, Request(c, u) PROVE IInv'
  <2> DEFINE e == [owner |-> c, size |-> None, bytes |-> 0, idle |-> FALSE]
             x == {<<Gc[v].owner, v>> : v \in Keys(Gc) \cap {u}}
  <2>1. e \in Entry /\ e.owner = c /\ e.bytes = 0 /\ e # None
    <3>1. e \in Entry
      BY DEF Entry
    <3>2. QED
      BY <3>1, DownloadsAssumption DEF Entry
  <2>2. /\ downloads' = [Gc EXCEPT ![u] = e]
        /\ waiting' = waiting \cup {<<c, u>>}
        /\ lost' = (lost \cup Collected) \ {<<c, u>>}
        /\ ousted' = (ousted \cup x) \ {<<c, u>>}
        /\ reused' = IF InUse(c, u) THEN reused \cup {u} ELSE reused
        /\ pc' = [pc EXCEPT ![c] = u] /\ c \in open
        /\ UNCHANGED <<open, online, streams>>
    BY <1>3 DEF Request, Reuse, Asks
  <2> HIDE DEF e
  <2>3. x \subseteq Client \X Id /\ (Gc[u] # None => <<Gc[u].owner, u>> \in x)
    BY <1>1 DEF Keys, Entry
  <2> HIDE DEF x
  <2>4. Cardinality(Keys(Gc)) < MaxActive
    <3>1. Cardinality(Keys(Gc)) \in Nat
      BY <1>0, FS_CardinalityType DEF Sound
    <3>2. QED
      BY <1>3, <3>1 DEF Request, Full
  <2>5. Sound(downloads', waiting', Gone', open')
    <3>1. \A q \in l : q = <<c, u>> \/ q \in Gone'
      BY <2>2 DEF l
    <3>2. Gc[u] # None => Gc[u].owner = c \/ <<Gc[u].owner, u>> \in Gone'
      BY <2>2, <2>3
    <3> DEFINE k == Gone'
    <3> HIDE DEF k
    <3>3. Sound([Gc EXCEPT ![u] = e], waiting \cup {<<c, u>>}, k, open)
      BY <1>0, <2>1, <2>2, <2>4, <3>1, <3>2, AddSound DEF k
    <3>4. QED
      BY <2>2, <3>3 DEF k
  <2>6. \A v \in Id : downloads'[v] = IF v = u THEN e ELSE Gc[v]
    BY <1>0, <2>2 DEF Table
  <2>7. \A d \in Client : pc'[d] = IF d = c THEN u ELSE pc[d]
    BY <1>0, <2>2 DEF TypeOK
  <2>8. Routed(downloads', waiting', pc', streams', reused')
    <3> SUFFICES ASSUME NEW v \in Id \ reused', downloads'[v] # None
                 PROVE  /\ <<downloads'[v].owner, v>> \in waiting'
                        /\ \A d \in Client : pc'[d] = v \/ <<d, v>> \in streams' =>
                             downloads'[v].owner = d
      BY DEF Routed
    <3>1. CASE v = u
      <4>1. downloads'[v] = e /\ ~InUse(c, u)
        BY <2>2, <2>6, <3>1
      <4>2. \A d \in Client \ {c} : pc[d] # u /\ <<d, u>> \notin streams
        BY <4>1 DEF InUse
      <4>3. QED
        BY <2>1, <2>2, <2>7, <3>1, <4>1, <4>2
    <3>2. CASE v # u
      <4>1. downloads'[v] = Gc[v] /\ v \notin reused
        BY <2>2, <2>6, <3>2
      <4>2. /\ <<Gc[v].owner, v>> \in waiting
            /\ \A d \in Client : pc[d] = v \/ <<d, v>> \in streams => Gc[v].owner = d
        BY <1>0, <4>1 DEF Routed
      <4>3. QED
        BY <2>2, <2>7, <3>2, <4>1, <4>2
    <3>3. QED
      BY <3>1, <3>2
  <2>9. QED
    <3>1. reused' \subseteq Id /\ pc' \in [Client -> Id \cup {None}]
      BY <1>0, <2>2 DEF TypeOK
    <3>2. /\ lost' \subseteq Client \X Id /\ ousted' \subseteq Client \X Id
          /\ waiting' \subseteq Client \X Id
      BY <1>0, <2>2, <2>3 DEF TypeOK
    <3>3. downloads' \in Table
      BY <2>5 DEF Sound
    <3>4. QED
      BY <1>0, <2>2, <2>5, <2>8, <3>1, <3>2, <3>3 DEF IInv, TypeOK, Table
<1>4. ASSUME NEW c \in Client, ForwardRequest(c) PROVE IInv'
  <2>1. /\ pc[c] # None /\ pc[c] \in Id
        /\ streams' \subseteq streams \cup {<<c, pc[c]>>}
        /\ pc' = [pc EXCEPT ![c] = None]
        /\ UNCHANGED <<open, online, downloads, waiting, lost, ousted, reused>>
    BY <1>0, <1>4 DEF ForwardRequest, hist, gone, TypeOK
  <2>2. pc' \in [Client -> Id \cup {None}] /\ \A d \in Client : pc'[d] \in {pc[d], None}
    BY <1>0, <2>1 DEF TypeOK
  <2>3. Routed(downloads', waiting', pc', streams', reused')
    BY <2>1, <2>2 DEF IInv, Routed
  <2>4. QED
    BY <2>1, <2>2, <2>3 DEF IInv, TypeOK
<1>5. ASSUME NEW s \in streams, DropUnknown(s) PROVE IInv'
  <2>1. /\ downloads' = Gc /\ Gone' = l /\ lost' = lost \cup Collected
        /\ UNCHANGED <<open, pc, online, streams, waiting, ousted, reused>>
    BY <1>5 DEF DropUnknown, GcThen, l
  <2>2. QED
    BY <1>0, <2>1 DEF IInv, TypeOK, Table
<1>6. ASSUME NEW s \in streams, NEW size \in Sizes, DownloadBegin(s, size) PROVE IInv'
  <2> DEFINE u == s[2]
             e == [Gc[u] EXCEPT !.size = size, !.idle = FALSE]
  <2>1. u \in Id /\ Gc[u] \in Entry /\ Gc[u] # None /\ Gc[u].bytes <= MaxSize
    BY <1>0, <1>1, <1>6 DEF DownloadBegin, Known, Sound
  <2>2. e \in Entry /\ e.owner = Gc[u].owner /\ e.bytes = Gc[u].bytes
    BY <2>1 DEF Entry
  <2>3. downloads' \in Table /\ \A v \in Id : downloads'[v] = IF v = u THEN e ELSE Gc[v]
    <3>1. \A v \in Id : downloads'[v] = IF v = u THEN e ELSE Gc[v]
      BY <1>0, <1>6 DEF DownloadBegin, GcThen, Table
    <3>2. downloads' = [v \in Id |-> IF v = u THEN e ELSE Gc[v]]
      BY <1>0, <1>6, <3>1 DEF DownloadBegin, GcThen, Table
    <3>3. QED
      BY <1>0, <2>2, <3>2 DEF Table
  <2> HIDE DEF e, u
  <2>4. /\ Sound(downloads', waiting, l, open)
        /\ Routed(downloads', waiting, pc, streams, reused)
    BY <1>0, <2>1, <2>2, <2>3, UpdateSound
  <2>5. /\ Gone' = l /\ lost' = lost \cup Collected
        /\ UNCHANGED <<open, pc, online, streams, waiting, ousted, reused>>
    BY <1>6 DEF DownloadBegin, GcThen, l
  <2>6. QED
    BY <1>0, <2>3, <2>4, <2>5 DEF IInv, TypeOK, Table
<1>7. ASSUME NEW s \in streams, ChunkForward(s) PROVE IInv'
  <2> DEFINE u == s[2]
             e == [Gc[u] EXCEPT !.bytes = @ + 1, !.idle = FALSE]
  <2>1. u \in Id /\ Gc[u] \in Entry /\ Gc[u] # None
    BY <1>1, <1>7 DEF ChunkForward, Known
  <2>2. e \in Entry /\ e.owner = Gc[u].owner /\ e.bytes = Gc[u].bytes + 1
    <3>1. Gc[u].bytes + 1 \in Nat
      BY <2>1 DEF Entry
    <3>2. \A n \in Nat : LET f == [Gc[u] EXCEPT !.bytes = n, !.idle = FALSE]
                         IN f \in Entry /\ f.owner = Gc[u].owner /\ f.bytes = n
      BY <2>1 DEF Entry
    <3>3. QED
      BY <3>1, <3>2
  <2>3. downloads' \in Table /\ \A v \in Id : downloads'[v] = IF v = u THEN e ELSE Gc[v]
    <3>1. \A v \in Id : downloads'[v] = IF v = u THEN e ELSE Gc[v]
      BY <1>0, <1>7 DEF ChunkForward, GcThen, Table
    <3>2. downloads' = [v \in Id |-> IF v = u THEN e ELSE Gc[v]]
      BY <1>0, <1>7, <3>1 DEF ChunkForward, GcThen, Table
    <3>3. QED
      BY <1>0, <2>2, <3>2 DEF Table
  <2>4. e.bytes <= MaxSize
    BY <1>7, <2>1, <2>2 DEF ChunkForward, Fits, Least, Entry
  <2> HIDE DEF e, u
  <2>5. /\ Sound(downloads', waiting, l, open)
        /\ Routed(downloads', waiting, pc, streams, reused)
    BY <1>0, <2>1, <2>2, <2>3, <2>4, UpdateSound
  <2>6. /\ Gone' = l /\ lost' = lost \cup Collected
        /\ UNCHANGED <<open, pc, online, streams, waiting, ousted, reused>>
    BY <1>7 DEF ChunkForward, GcThen, l
  <2>7. QED
    BY <1>0, <2>3, <2>5, <2>6 DEF IInv, TypeOK, Table
<1>8. ASSUME NEW s \in streams, ChunkOverrun(s) PROVE IInv'
  <2> DEFINE u == s[2]
  <2>1. /\ u \in Id /\ Gc[u] # None
        /\ downloads' = [Gc EXCEPT ![u] = None]
        /\ waiting' = waiting \ {<<Gc[u].owner, u>>}
        /\ Gone' = l /\ lost' = lost \cup Collected
        /\ UNCHANGED <<open, pc, online, streams, ousted, reused>>
    BY <1>1, <1>8 DEF ChunkOverrun, Known, GcThen, DeliverEnd, Dest, l
  <2> HIDE DEF u
  <2>2. /\ Sound(downloads', waiting', l, open)
        /\ Routed(downloads', waiting', pc, streams, reused)
    <3>1. /\ Sound([Gc EXCEPT ![u] = None], waiting \ {<<Gc[u].owner, u>>}, l, open)
          /\ Routed([Gc EXCEPT ![u] = None], waiting \ {<<Gc[u].owner, u>>}, pc, streams,
                    reused)
      BY <1>0, <2>1, RemoveSound
    <3>2. QED
      BY <2>1, <3>1
  <2>3. downloads' \in Table
    BY <2>2 DEF Sound
  <2>4. QED
    BY <1>0, <2>1, <2>2, <2>3 DEF IInv, TypeOK, Table
<1>9. ASSUME NEW s \in streams, DownloadEnd(s) PROVE IInv'
  <2> DEFINE u == s[2]
  <2>1. /\ u \in Id /\ downloads' = [Gc EXCEPT ![u] = None]
        /\ Gone' = l /\ lost' = lost \cup Collected /\ streams' \subseteq streams
        /\ UNCHANGED <<open, pc, online, ousted, reused>>
        /\ IF Gc[u] = None THEN waiting' = waiting
           ELSE waiting' = waiting \ {<<Gc[u].owner, u>>}
    BY <1>1, <1>9 DEF DownloadEnd, GcThen, DeliverEnd, Dest, l
  <2> HIDE DEF u
  <2>2. /\ Sound(downloads', waiting', l, open)
        /\ Routed(downloads', waiting', pc, streams, reused)
    <3>1. CASE Gc[u] = None
      <4>1. downloads' = Gc
        BY <1>0, <2>1, <3>1 DEF Table
      <4>2. QED
        BY <1>0, <2>1, <3>1, <4>1
    <3>2. CASE Gc[u] # None
      <4>1. /\ Sound([Gc EXCEPT ![u] = None], waiting \ {<<Gc[u].owner, u>>}, l, open)
            /\ Routed([Gc EXCEPT ![u] = None], waiting \ {<<Gc[u].owner, u>>}, pc,
                      streams, reused)
        BY <1>0, <2>1, <3>2, RemoveSound
      <4>2. QED
        BY <2>1, <3>2, <4>1
    <3>3. QED
      BY <3>1, <3>2
  <2>3. downloads' \in Table /\ Routed(downloads', waiting', pc, streams', reused)
    BY <2>1, <2>2 DEF Sound, Routed
  <2>4. QED
    BY <1>0, <2>1, <2>2, <2>3 DEF IInv, TypeOK, Table
<1>10. ASSUME NEW u \in Id, GoIdle(u) PROVE IInv'
  <2> DEFINE d == downloads[u]
             e == [d EXCEPT !.idle = TRUE]
  <2>1. d \in Entry /\ d # None /\ d.bytes <= MaxSize
    BY <1>10 DEF GoIdle, IInv, Sound, Table
  <2>2. e \in Entry /\ e.owner = d.owner /\ e.bytes = d.bytes
    BY <2>1 DEF Entry
  <2>3. downloads' \in Table /\ \A v \in Id : downloads'[v] = IF v = u THEN e ELSE downloads[v]
    <3>1. \A v \in Id : downloads'[v] = IF v = u THEN e ELSE downloads[v]
      BY <1>0, <1>10 DEF GoIdle, TypeOK, Table
    <3>2. downloads' = [v \in Id |-> IF v = u THEN e ELSE downloads[v]]
      BY <1>0, <1>10, <3>1 DEF GoIdle, TypeOK, Table
    <3>3. QED
      BY <1>0, <2>2, <3>2 DEF Table, TypeOK
  <2> HIDE DEF e
  <2>4. /\ Sound(downloads', waiting, Gone, open)
        /\ Routed(downloads', waiting, pc, streams, reused)
    BY <2>1, <2>2, <2>3, UpdateSound DEF IInv
  <2>5. UNCHANGED <<open, pc, online, streams, waiting, lost, ousted, reused>>
    BY <1>10 DEF GoIdle, hist, gone
  <2>6. QED
    BY <2>3, <2>4, <2>5 DEF IInv, TypeOK, Table
<1>11. ASSUME NEW c \in Client, Disconnect(c) PROVE IInv'
  <2>1. downloads' \in Table /\ \A u \in Id : downloads'[u] # None =>
            downloads'[u] = downloads[u] /\ downloads[u].owner # c
    BY <1>0, <1>11 DEF Disconnect, Freed, TypeOK, Table
  <2>2. \A u \in Id : downloads[u] # None /\ downloads[u].owner # c =>
            downloads'[u] = downloads[u]
    BY <1>11 DEF Disconnect, Freed
  <2>3. Keys(downloads') \subseteq Keys(downloads)
    BY <2>1 DEF Keys
  <2>4. IsFiniteSet(Keys(downloads')) /\ Cardinality(Keys(downloads')) <= MaxActive
    BY <2>3, Shrinks DEF IInv, Sound
  <2>5. \A d \in Client, u \in Id :
          /\ <<d, u>> \in waiting' <=> <<d, u>> \in waiting /\ d # c
          /\ <<d, u>> \in Gone' <=> <<d, u>> \in Gone /\ d # c
    BY <1>11 DEF Disconnect
  <2>6. \A u \in Id : downloads'[u] # None =>
           downloads'[u].bytes <= MaxSize /\ downloads'[u].owner \in open'
    BY <1>11, <2>1 DEF Disconnect, IInv, Sound
  <2>7. ASSUME NEW d \in Client, NEW u \in Id, <<d, u>> \in waiting'
        PROVE  \/ downloads'[u] # None /\ downloads'[u].owner = d
               \/ <<d, u>> \in Gone'
    BY <2>2, <2>5, <2>7 DEF IInv, Sound
  <2>8. Sound(downloads', waiting', Gone', open')
    BY <2>1, <2>4, <2>6, <2>7 DEF Sound
  <2>9. /\ waiting' \subseteq waiting /\ lost' \subseteq lost /\ ousted' \subseteq ousted
        /\ open' \subseteq open /\ UNCHANGED <<pc, online, streams, reused>>
    BY <1>11 DEF Disconnect
  <2>10. Routed(downloads', waiting', pc', streams', reused')
    <3>1. \A u \in Id : downloads'[u] # None => downloads'[u].owner \in Client \ {c}
      BY <2>1 DEF Table, Entry
    <3>2. QED
      BY <2>1, <2>5, <2>9, <3>1 DEF IInv, Routed
  <2>11. QED
    BY <1>0, <2>1, <2>8, <2>9, <2>10 DEF IInv, TypeOK, Table
<1>12. CASE DesktopRegister \/ DesktopGone
  <2>1. /\ UNCHANGED <<open, pc, downloads, waiting, lost, ousted, reused>>
        /\ streams' \subseteq streams /\ online' \in BOOLEAN
    BY <1>12 DEF DesktopRegister, DesktopGone, hist, gone
  <2>2. Routed(downloads', waiting', pc', streams', reused')
    BY <2>1 DEF IInv, Routed
  <2>3. QED
    BY <2>1, <2>2 DEF IInv, TypeOK
<1>13. CASE UNCHANGED vars
  BY <1>13 DEF vars, IInv, TypeOK, hist, gone
<1>14. QED
  BY <1>2, <1>3, <1>4, <1>5, <1>6, <1>7, <1>8, <1>9, <1>10, <1>11, <1>12, <1>13 DEF Next

\* The empty table is sound.
LEMMA IInvInit == Init => IInv
<1> SUFFICES ASSUME Init PROVE IInv
  OBVIOUS
<1> USE DownloadsAssumption
<1>1. Keys(downloads) = {}
  BY DEF Init, Keys
<1>2. IsFiniteSet(Keys(downloads)) /\ Cardinality(Keys(downloads)) = 0
  BY <1>1, FS_EmptySet
<1>3. Cardinality(Keys(downloads)) <= MaxActive
  BY <1>2
<1>4. Sound(downloads, waiting, Gone, open)
  BY <1>2, <1>3 DEF Init, Sound, Table
<1>5. QED
  BY <1>4 DEF Init, IInv, TypeOK, Routed

\* The reachable states satisfy the inductive invariant.
LEMMA IInvAlways == Spec => []IInv
BY IInvInit, IInvStep, PTL DEF Spec

-----------------------------------------------------------------------------
(* Results.                                                                *)

\* Every reachable state is well typed.
THEOREM TypeCorrect == Spec => []TypeOK
<1>1. IInv => TypeOK
  BY DEF IInv
<1>2. QED
  BY <1>1, IInvAlways, PTL

\* Slots, sizes and owners: the table never exceeds MAX_ACTIVE_DOWNLOADS, no
\* download exceeds MAX_DOWNLOAD_SIZE and no slot is held for a connection that
\* is gone, for any number of clients and ids.
THEOREM DownloadsGoverned == Spec => []Governed
<1>1. IInv => Governed
  BY DEF IInv, Sound, Governed, Keys
<1>2. QED
  BY <1>1, IInvAlways, PTL

\* No client gets anything of a stream it did not ask for or no longer waits
\* for, unless the id was requested while it was in use.
THEOREM NothingUnsolicited == Spec => []Solicited
<1>1. IInv => Solicited
  <2> SUFFICES ASSUME IInv, NEW s \in streams, Known(s), s[2] \notin reused
               PROVE  Dest(s) = s /\ s \in waiting
    BY DEF Solicited
  <2>1. s = <<s[1], s[2]>> /\ s[1] \in Client /\ s[2] \in Id
    BY DEF IInv, TypeOK
  <2>2. Gc[s[2]] # None /\ Routed(Gc, waiting, pc, streams, reused)
    BY GcSound DEF Known
  <2>3. Gc[s[2]].owner = s[1] /\ <<Gc[s[2]].owner, s[2]>> \in waiting
    BY <2>1, <2>2 DEF Routed
  <2>4. QED
    BY <2>1, <2>3 DEF Dest
<1>2. QED
  BY <1>1, IInvAlways, PTL

\* No download ends in silence, except by the idle collection or by another
\* client's request under its id.
THEOREM EndsAreTold == Spec => []NoSilentEnd
<1>1. IInv => NoSilentEnd
  <2> SUFFICES ASSUME IInv, NEW p \in waiting
               PROVE  \/ downloads[p[2]] # None /\ downloads[p[2]].owner = p[1]
                      \/ p \in Gone
    BY DEF NoSilentEnd
  <2>1. p = <<p[1], p[2]>> /\ p[1] \in Client /\ p[2] \in Id
    BY DEF IInv, TypeOK
  <2>2. QED
    BY <2>1 DEF IInv, Sound
<1>2. QED
  BY <1>1, IInvAlways, PTL

-----------------------------------------------------------------------------
(* Downloads implement Transfer                                            *)

\* A step that frees the slots T and keeps owner and count of the others.
LEMMA Frees ==
  ASSUME NEW T,
         \A v \in Id \cap T : downloads'[v] = None,
         \A v \in Id \ T : /\ downloads'[v] = None <=> downloads[v] = None
                           /\ downloads[v] # None =>
                                /\ downloads'[v].owner = downloads[v].owner
                                /\ downloads'[v].bytes = downloads[v].bytes
  PROVE  Owner' = Abstract!Freed(T) /\ Passed' = Abstract!Cleared(T)
<1>1. \A v \in Id : /\ Owner'[v] = IF v \in T THEN None ELSE Owner[v]
                    /\ Passed'[v] = IF v \in T THEN 0 ELSE Passed[v]
  BY DEF Owner, Passed
<1>2. Owner' = [v \in Id |-> Owner'[v]] /\ Passed' = [v \in Id |-> Passed'[v]]
  BY DEF Owner, Passed
<1>3. QED
  BY <1>1, <1>2 DEF Abstract!Freed, Abstract!Cleared

\* gc_downloads in the terms of Transfer: it gives up what is stale.
LEMMA GcGivesUp ==
  ASSUME IInv
  PROVE  /\ \A v \in Id : Gc[v] = IF v \in Stale THEN None ELSE downloads[v]
         /\ Stale \subseteq Id
         /\ Abstract!Held = Keys(downloads)
         /\ Keys(Gc) = Abstract!Held \ Stale
         /\ Abstract!Vain(Stale) \cap waiting = (Gone \cup Collected) \cap waiting
<1>1. \A v \in Id : downloads[v] # None => downloads[v].owner \in Client
  BY DEF IInv, Sound, Table, Entry
<1>2. \A v \in Id : Gc[v] = IF v \in Stale THEN None ELSE downloads[v]
  BY DEF Gc, Stale, Keys
<1>3. Stale \subseteq Id
  BY DEF Stale, Keys
<1>4. \A v \in Id : Owner[v] # None <=> downloads[v] # None
  BY <1>1, DownloadsAssumption DEF Owner
<1>5. Abstract!Held = Keys(downloads)
  BY <1>4 DEF Abstract!Held, Keys
<1>6. Keys(Gc) = Abstract!Held \ Stale
  BY <1>2, <1>5 DEF Keys
<1>7. \A v \in Stale : Owner[v] = downloads[v].owner
  BY DEF Stale, Keys, Owner
<1>8. {<<Owner[v], v>> : v \in Stale} = Collected
  BY <1>7 DEF Collected, Stale
<1>9. QED
  BY <1>2, <1>3, <1>5, <1>6, <1>8 DEF Abstract!Vain

\* After a call that collected first nothing is stale.
LEMMA NoneStale ==
  ASSUME \A v \in Id : downloads'[v] # None => ~downloads'[v].idle
  PROVE  Stale' = {}
BY DEF Stale, Keys

\* A call that collects and gives nothing else back.
LEMMA CollectStep ==
  ASSUME IInv, Gone' = Gone \cup Collected, open' = open,
         \A v \in Id : /\ downloads'[v] = None <=> Gc[v] = None
                       /\ Gc[v] # None => /\ ~downloads'[v].idle
                                          /\ downloads'[v].owner = Gc[v].owner
                                          /\ downloads'[v].bytes = Gc[v].bytes,
         \/ waiting' = waiting
         \/ \E p : waiting' = waiting \ {p}
  PROVE  Abstract!Next
<1>1. Owner' = Abstract!Freed(Stale) /\ Passed' = Abstract!Cleared(Stale)
  <2>1. \A v \in Id \cap Stale : downloads'[v] = None
    BY GcGivesUp
  <2>2. \A v \in Id \ Stale :
           /\ downloads'[v] = None <=> downloads[v] = None
           /\ downloads[v] # None => /\ downloads'[v].owner = downloads[v].owner
                                     /\ downloads'[v].bytes = downloads[v].bytes
    BY GcGivesUp
  <2>3. QED
    BY <2>1, <2>2, Frees
<1>2. Stale' = Stale \ Stale
  BY NoneStale
<1>3. (Gone' \cap waiting') = Abstract!Vain(Stale) \cap waiting'
  BY GcGivesUp
<1>4. CASE waiting' = waiting
  <2>1. Abstract!Collect(Stale)
    BY <1>1, <1>2, <1>3, <1>4 DEF Abstract!Collect
  <2>2. QED
    BY <2>1 DEF Abstract!Next
<1>5. ASSUME NEW p \in waiting, waiting' = waiting \ {p} PROVE Abstract!Next
  <2>1. Abstract!Answer(Stale, p)
    BY <1>1, <1>2, <1>3, <1>5 DEF Abstract!Answer
  <2>2. QED
    BY <1>5, <2>1 DEF Abstract!Next
<1>6. QED
  BY <1>4, <1>5

\* A call that ends a download after the collection and tells its owner.
LEMMA EndStep ==
  ASSUME IInv, Gone' = Gone \cup Collected, open' = open, NEW u \in Id, Gc[u] # None,
         \A v \in Id : downloads'[v] = IF v = u THEN None ELSE Gc[v],
         waiting' = waiting \ {<<Gc[u].owner, u>>}
  PROVE  Abstract!Next
<1>0. \A v \in Id : Gc[v] # None => ~Gc[v].idle
  BY DEF Gc
<1>1. /\ Owner' = Abstract!Freed(Stale \cup {u})
      /\ Passed' = Abstract!Cleared(Stale \cup {u})
  <2>1. \A v \in Id \cap (Stale \cup {u}) : downloads'[v] = None
    BY GcGivesUp
  <2>2. \A v \in Id \ (Stale \cup {u}) : downloads'[v] = downloads[v]
    BY GcGivesUp
  <2>3. QED
    BY <2>1, <2>2, Frees
<1>2. Stale' = Stale \ (Stale \cup {u})
  BY <1>0, NoneStale
<1>3. (Gone' \cap waiting') = Abstract!Vain(Stale) \cap waiting'
  BY GcGivesUp
<1>4. u \in Abstract!Held \ Stale /\ Owner[u] = Gc[u].owner
  BY GcGivesUp DEF Keys, Owner
<1>5. Abstract!End(Stale, u)
  BY <1>1, <1>2, <1>3, <1>4 DEF Abstract!End
<1>6. QED
  BY <1>4, <1>5 DEF Abstract!Next

\* register_download: a free slot, and the id whoever has it.
LEMMA RequestGrants ==
  ASSUME IInv, NEW c \in Client, NEW u \in Id, Request(c, u)
  PROVE  Abstract!Next
<1> DEFINE e == [owner |-> c, size |-> None, bytes |-> 0, idle |-> FALSE]
           x == {<<Gc[v].owner, v>> : v \in Keys(Gc) \cap {u}}
<1>0. Gc \in Table /\ \A v \in Id : Gc[v] # None => ~Gc[v].idle
  <2>1. Gc \in Table
    BY GcSound DEF Sound
  <2>2. QED
    BY <2>1 DEF Gc
<1>1. e.owner = c /\ e.bytes = 0 /\ e.idle = FALSE /\ e # None
  <2>1. e \in Entry
    BY DEF Entry
  <2>2. QED
    BY <2>1, DownloadsAssumption DEF Entry
<1>2. \A v \in Id : downloads'[v] = IF v = u THEN e ELSE Gc[v]
  BY <1>0 DEF Request, Table
<1> HIDE DEF e
<1>3. /\ open' = open /\ waiting' = waiting \cup {<<c, u>>} /\ c \in open
      /\ Gone' = (Gone \cup Collected \cup x) \ {<<c, u>>}
  BY DEF Request, Asks
<1>4. /\ Owner' = [Abstract!Freed(Stale) EXCEPT ![u] = c]
      /\ Passed' = [Abstract!Cleared(Stale) EXCEPT ![u] = 0]
  <2>1. \A v \in Id :
          /\ Owner'[v] = IF v = u THEN c ELSE IF v \in Stale THEN None ELSE Owner[v]
          /\ Passed'[v] = IF v = u THEN 0 ELSE IF v \in Stale THEN 0 ELSE Passed[v]
    BY <1>1, <1>2, GcGivesUp DEF Owner, Passed
  <2>2. Owner' = [v \in Id |-> Owner'[v]] /\ Passed' = [v \in Id |-> Passed'[v]]
    BY DEF Owner, Passed
  <2>3. QED
    BY <2>1, <2>2 DEF Abstract!Freed, Abstract!Cleared
<1>5. Stale' = Stale \ Stale
  BY <1>0, <1>1, <1>2, NoneStale
<1>6. Cardinality(Abstract!Held \ Stale) < MaxActive
  <2>1. Cardinality(Keys(Gc)) \in Nat
    BY GcSound, FS_CardinalityType DEF Sound
  <2>2. Cardinality(Keys(Gc)) < MaxActive
    BY <2>1, DownloadsAssumption DEF Request, Full
  <2>3. QED
    BY <2>2, GcGivesUp
<1> DEFINE H == Abstract!Held \cap {u}
<1>7. Abstract!Vain(Stale \cup H) \cap waiting
        = (Gone \cup Collected \cup x) \cap waiting
  <2>1. Abstract!Vain(Stale \cup H) = Abstract!Vain(Stale) \cup {<<Owner[v], v>> : v \in H}
    BY DEF Abstract!Vain
  <2>2. ASSUME NEW v \in H, v \notin Stale PROVE <<Owner[v], v>> \in x
    <3>1. v = u /\ v \in Keys(Gc) /\ Gc[v] = downloads[v] /\ downloads[v] # None
      BY <2>2, GcGivesUp DEF Keys
    <3>2. Owner[v] = Gc[v].owner
      BY <3>1 DEF Owner
    <3>3. QED
      BY <3>1, <3>2
  <2>3. ASSUME NEW v \in Stale PROVE <<Owner[v], v>> \in Abstract!Vain(Stale)
    BY <2>3 DEF Abstract!Vain
  <2>4. ASSUME NEW v \in Keys(Gc) \cap {u}
        PROVE  <<Gc[v].owner, v>> \in {<<Owner[w], w>> : w \in H}
    <3>1. v \in H /\ Gc[v] = downloads[v] /\ downloads[v] # None
      BY GcGivesUp DEF Keys
    <3>2. Owner[v] = Gc[v].owner
      BY <3>1 DEF Owner
    <3>3. QED
      BY <3>1, <3>2
  <2>5. \A p \in waiting : p \in Abstract!Vain(Stale) <=> p \in Gone \cup Collected
    BY GcGivesUp
  <2> DEFINE y == {<<Owner[v], v>> : v \in H}
  <2>6. \A p \in y : p \in x \/ p \in Abstract!Vain(Stale)
    BY <2>2, <2>3
  <2>7. x \subseteq y
    BY <2>4
  <2> HIDE DEF x, y, H
  <2>8. Abstract!Vain(Stale \cup H) = Abstract!Vain(Stale) \cup y
    BY <2>1 DEF y
  <2> DEFINE a == Abstract!Vain(Stale)
             b == Gone \cup Collected
  <2>9. /\ \A p \in waiting : p \in a <=> p \in b
        /\ \A p \in y : p \in x \/ p \in a
    BY <2>5, <2>6
  <2> HIDE DEF a, b
  <2>10. (a \cup y) \cap waiting = (b \cup x) \cap waiting
    BY <2>7, <2>9
  <2>11. QED
    BY <2>8, <2>10 DEF a, b
<1> HIDE DEF x, H
<1>8. (Gone' \cap waiting') = (Abstract!Vain(Stale \cup H) \cap waiting) \ {<<c, u>>}
  BY <1>3, <1>7
<1>9. Abstract!Cardinality(Abstract!Held \ Stale) = Cardinality(Abstract!Held \ Stale)
  BY DEF Abstract!Cardinality, Cardinality
<1>10. Abstract!Grant(Stale, c, u)
  BY <1>3, <1>4, <1>5, <1>6, <1>8, <1>9 DEF Abstract!Grant, H
<1>11. QED
  BY <1>3, <1>10 DEF Abstract!Next

\* record_download_chunk: Forward.
LEMMA ForwardPasses ==
  ASSUME IInv, NEW s \in streams, ChunkForward(s)
  PROVE  Abstract!Next
<1> DEFINE u == s[2]
           e == [Gc[u] EXCEPT !.bytes = @ + 1, !.idle = FALSE]
<1>0. /\ Gc \in Table
      /\ \A v \in Id : Gc[v] # None => ~Gc[v].idle
      /\ u \in Id /\ Gc[u] # None /\ Gc[u] \in Entry
  <2>1. Gc \in Table /\ u \in Id
    BY GcSound DEF Sound, IInv, TypeOK
  <2>2. QED
    BY <2>1 DEF ChunkForward, Known, Table, Gc
<1>1. /\ e.owner = Gc[u].owner /\ e.bytes = Gc[u].bytes + 1 /\ e.idle = FALSE
      /\ e # None
  <2>1. Gc[u].bytes + 1 \in Nat
    BY <1>0 DEF Entry
  <2>2. \A n \in Nat : LET f == [Gc[u] EXCEPT !.bytes = n, !.idle = FALSE]
                       IN f \in Entry /\ f.owner = Gc[u].owner /\ f.bytes = n /\ f.idle = FALSE
    BY <1>0 DEF Entry
  <2>3. e \in Entry
    BY <2>1, <2>2
  <2>4. QED
    BY <2>1, <2>2, <2>3, DownloadsAssumption DEF Entry
<1>2. \A v \in Id : downloads'[v] = IF v = u THEN e ELSE Gc[v]
  BY <1>0 DEF ChunkForward, GcThen, Table
<1>3. Fits(Gc[u])
  BY DEF ChunkForward
<1> HIDE DEF e, u
<1>4. /\ u \in Abstract!Held \ Stale /\ u \notin Stale
      /\ Gc[u] = downloads[u] /\ Passed[u] = Gc[u].bytes /\ Owner[u] = Gc[u].owner
  BY <1>0, GcGivesUp DEF Keys, Owner, Passed
<1>5. Passed[u] < MaxSize
  BY <1>0, <1>4, <1>3, DownloadsAssumption DEF Fits, Least, Entry
<1>6. /\ Owner' = Abstract!Freed(Stale)
      /\ Passed' = [Abstract!Cleared(Stale) EXCEPT ![u] = @ + 1]
  <2>1. \A v \in Id :
          /\ Owner'[v] = IF v \in Stale THEN None ELSE Owner[v]
          /\ Passed'[v] = IF v = u THEN Passed[u] + 1
                          ELSE IF v \in Stale THEN 0 ELSE Passed[v]
    BY <1>1, <1>2, <1>4, GcGivesUp DEF Owner, Passed
  <2>2. Owner' = [v \in Id |-> Owner'[v]] /\ Passed' = [v \in Id |-> Passed'[v]]
    BY DEF Owner, Passed
  <2>3. QED
    BY <1>4, <2>1, <2>2 DEF Abstract!Freed, Abstract!Cleared
<1>7. Stale' = Stale \ Stale
  BY <1>0, <1>1, <1>2, NoneStale
<1>8. open' = open /\ waiting' = waiting /\ Gone' = Gone \cup Collected
  BY DEF ChunkForward, GcThen
<1>9. (Gone' \cap waiting') = Abstract!Vain(Stale) \cap waiting
  BY <1>8, GcGivesUp
<1>10. Abstract!Pass(Stale, u)
  BY <1>5, <1>6, <1>7, <1>8, <1>9 DEF Abstract!Pass
<1>11. QED
  BY <1>4, <1>10 DEF Abstract!Next

\* unregister_client: the slots of the connection are free.
LEMMA DisconnectFrees ==
  ASSUME IInv, NEW c \in Client, Disconnect(c)
  PROVE  Abstract!Next
<1> DEFINE S == {u \in Abstract!Held : Owner[u] = c}
<1>1. \A v \in Id : v \in S <=> downloads[v] # None /\ downloads[v].owner = c
  BY GcGivesUp DEF Keys, Owner
<1>2. \A v \in Id : downloads'[v] = IF v \in S THEN None ELSE downloads[v]
  BY <1>1 DEF Disconnect, Freed
<1>3. S \subseteq Id
  BY DEF Abstract!Held
<1> HIDE DEF S
<1>4. Owner' = Abstract!Freed(S) /\ Passed' = Abstract!Cleared(S)
  BY <1>2, Frees
<1>5. Stale' = Stale \ S
  BY <1>2, <1>3 DEF Stale, Keys
<1>6. /\ open' = open \ {c} /\ waiting' = {p \in waiting : p[1] # c}
      /\ (Gone' \cap waiting') = {p \in Gone \cap waiting : p[1] # c}
  BY DEF Disconnect
<1>7. Abstract!Disconnect(c)
  BY <1>4, <1>5, <1>6 DEF Abstract!Disconnect, S
<1>8. QED
  BY <1>7 DEF Abstract!Next

\* Every step is one of Transfer, or changes nothing there.
LEMMA TransferStep ==
  IInv /\ [Next]_vars => [Abstract!Next]_(Abstract!vars)
<1> SUFFICES ASSUME IInv, [Next]_vars
             PROVE  Abstract!Next \/ UNCHANGED Abstract!vars
  OBVIOUS
<1>0. /\ Gc \in Table /\ downloads \in Table
      /\ \A v \in Id : Gc[v] # None => ~Gc[v].idle /\ Gc[v] \in Entry
      /\ \A s \in streams : s[2] \in Id
  <2>1. Gc \in Table
    BY GcSound DEF Sound
  <2>2. QED
    BY <2>1 DEF Gc, IInv, TypeOK, Sound, Table
<1>1. ASSUME NEW c \in Client, NEW u \in Id, RequestRefused(c, u) PROVE Abstract!Next
  <2>1. /\ downloads' = Gc /\ Gone' = Gone \cup Collected /\ open' = open
        /\ waiting' = waiting \ {<<c, u>>}
    BY <1>1 DEF RequestRefused, GcThen
  <2>2. QED
    BY <1>0, <2>1, CollectStep
<1>2. ASSUME NEW s \in streams, DropUnknown(s) PROVE Abstract!Next
  <2>1. /\ downloads' = Gc /\ Gone' = Gone \cup Collected /\ open' = open
        /\ waiting' = waiting
    BY <1>2 DEF DropUnknown, GcThen
  <2>2. QED
    BY <1>0, <2>1, CollectStep
<1>3. ASSUME NEW s \in streams, NEW size \in Sizes, DownloadBegin(s, size)
      PROVE  Abstract!Next
  <2> DEFINE u == s[2]
             e == [Gc[u] EXCEPT !.size = size, !.idle = FALSE]
  <2>1. u \in Id /\ Gc[u] \in Entry /\ Gc[u] # None
    BY <1>0, <1>3 DEF DownloadBegin, Known
  <2>2. e \in Entry /\ e.owner = Gc[u].owner /\ e.bytes = Gc[u].bytes /\ e.idle = FALSE
    BY <2>1, DownloadsAssumption DEF Entry
  <2>3. \A v \in Id : downloads'[v] = IF v = u THEN e ELSE Gc[v]
    BY <1>0, <1>3 DEF DownloadBegin, GcThen, Table
  <2>4. e # None
    BY <2>2, DownloadsAssumption DEF Entry
  <2> HIDE DEF e, u
  <2>5. Gone' = Gone \cup Collected /\ open' = open /\ waiting' = waiting
    BY <1>3 DEF DownloadBegin, GcThen
  <2>6. QED
    BY <1>0, <2>1, <2>2, <2>3, <2>4, <2>5, CollectStep
<1>4. ASSUME NEW s \in streams, ChunkOverrun(s) PROVE Abstract!Next
  <2> DEFINE u == s[2]
  <2>1. /\ u \in Id /\ Gc[u] # None /\ Gone' = Gone \cup Collected /\ open' = open
        /\ waiting' = waiting \ {<<Gc[u].owner, u>>}
        /\ \A v \in Id : downloads'[v] = IF v = u THEN None ELSE Gc[v]
    BY <1>0, <1>4 DEF ChunkOverrun, Known, GcThen, DeliverEnd, Dest, Table
  <2> HIDE DEF u
  <2>2. QED
    BY <2>1, EndStep
<1>5. ASSUME NEW s \in streams, DownloadEnd(s) PROVE Abstract!Next
  <2> DEFINE u == s[2]
  <2>1. /\ u \in Id /\ Gone' = Gone \cup Collected /\ open' = open
        /\ \A v \in Id : downloads'[v] = IF v = u THEN None ELSE Gc[v]
    BY <1>0, <1>5 DEF DownloadEnd, GcThen, Table
  <2>2. CASE Gc[u] = None
    <3>1. waiting' = waiting
      BY <1>5, <2>2 DEF DownloadEnd
    <3>2. QED
      BY <1>0, <2>1, <2>2, <3>1, CollectStep
  <2>3. CASE Gc[u] # None
    <3>1. waiting' = waiting \ {<<Gc[u].owner, u>>}
      BY <1>5, <2>3 DEF DownloadEnd, DeliverEnd, Dest
    <3>2. QED
      BY <2>1, <2>3, <3>1, EndStep
  <2>4. QED
    BY <2>2, <2>3
<1>6. ASSUME NEW u \in Id, GoIdle(u) PROVE Abstract!Next
  <2> DEFINE d == downloads[u]
             e == [d EXCEPT !.idle = TRUE]
  <2>1. d \in Entry /\ d # None
    BY <1>0, <1>6 DEF GoIdle, Table
  <2>2. e \in Entry /\ e.owner = d.owner /\ e.bytes = d.bytes /\ e.idle = TRUE
    BY <2>1 DEF Entry
  <2>3. e # None
    BY <2>2, DownloadsAssumption DEF Entry
  <2>4. \A v \in Id : downloads'[v] = IF v = u THEN e ELSE downloads[v]
    BY <1>0, <1>6 DEF GoIdle, Table
  <2> HIDE DEF e
  <2>5. Owner' = Owner /\ Passed' = Passed
    BY <2>1, <2>2, <2>3, <2>4 DEF Owner, Passed
  <2>6. Stale' = Stale \cup {u}
    BY <2>1, <2>2, <2>3, <2>4 DEF Stale, Keys
  <2>7. u \in Abstract!Held
    BY <2>1, GcGivesUp DEF Keys
  <2>8. Abstract!Expire(u)
    BY <1>6, <2>5, <2>6 DEF GoIdle, hist, gone, Abstract!Expire
  <2>9. QED
    BY <2>7, <2>8 DEF Abstract!Next
<1>7. ASSUME UNCHANGED <<open, downloads, waiting, Gone>> PROVE UNCHANGED Abstract!vars
  BY <1>7 DEF Abstract!vars, Owner, Passed, Stale, Keys
<1>8. ASSUME NEW c \in Client, ForwardRequest(c) PROVE UNCHANGED Abstract!vars
  BY <1>7, <1>8 DEF ForwardRequest, hist, gone
<1>9. CASE DesktopRegister \/ DesktopGone
  BY <1>7, <1>9 DEF DesktopRegister, DesktopGone, hist, gone
<1>10. CASE UNCHANGED vars
  BY <1>7, <1>10 DEF vars, hist, gone
<1>11. QED
  BY <1>1, <1>2, <1>3, <1>4, <1>5, <1>6, <1>8, <1>9, <1>10, RequestGrants,
     ForwardPasses, DisconnectFrees DEF Next

\* The download table with its handlers implements the governed transfer of
\* Transfer, for any clients, ids, declared sizes and limits.
THEOREM TransferImplemented == Spec => ImplementsTransfer
<1>1. Init => Abstract!Init
  BY DEF Init, Abstract!Init, Owner, Passed, Stale, Keys
<1>2. QED
  BY <1>1, TransferStep, IInvAlways, PTL DEF Spec, ImplementsTransfer, Abstract!Spec

=============================================================================
