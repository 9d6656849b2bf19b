---------------------------- MODULE UploadsProofs ----------------------------
(***************************************************************************)
(* Proofs about Uploads, for any set of clients, ids and declared sizes,   *)
(* any MAX_ACTIVE_UPLOADS and any limits on sizes.                         *)
(***************************************************************************)
EXTENDS Uploads, FiniteSetTheorems, TLAPS

\* The clients' uploads whose entry is gone without a result.
Gone == lost \cup ousted

USE DEF Gone

Table == [Id -> Entry \cup {None}]

\* What an entry promises: its bytes are within the declared size and the
\* maximum, and a buffer that has not been taken holds all that was sent.
Good(e) ==
  /\ e.bytes <= Least(e.size, MaxSize)
  /\ e.taken <= 1
  /\ e.buffer # None => e.buffer = e.sent /\ e.taken = 0

\* What ties the table t to the open connections o, the clients' uploads w
\* that wait for a result and those of them, l, whose entry is gone.
Sound(t, w, l, o) ==
  /\ t \in Table
  /\ IsFiniteSet(Keys(t)) /\ Cardinality(Keys(t)) <= MaxActive
  /\ \A u \in Id : t[u] # None => Good(t[u]) /\ t[u].owner \in o
  /\ \A c \in Client, u \in Id : <<c, u>> \in w => Owns(t, c, u) \/ <<c, u>> \in l

\* What ties the table t to the suspended handlers: one that is about to mark
\* its upload as a report has sent nothing for it, and nothing was taken.
Fresh(t, p, a) ==
  \A c \in Conn :
    /\ p[c] # "loop" => a[c] \in Id
    /\ p[c] = "mark" /\ Owns(t, c, a[c]) => t[a[c]].sent = 0 /\ t[a[c]].taken = 0

\* The inductive invariant.
IInv ==
  /\ TypeOK
  /\ Sound(uploads, waiting, Gone, open)
  /\ Fresh(uploads, pc, arg)

-----------------------------------------------------------------------------
(* What the operations do to a sound table.                                *)

\* A table with fewer entries stays finite and within the slots.
LEMMA Shrinks ==
  ASSUME NEW s, NEW t, IsFiniteSet(Keys(s)), Cardinality(Keys(s)) <= MaxActive,
         Keys(t) \subseteq Keys(s)
  PROVE  IsFiniteSet(Keys(t)) /\ Cardinality(Keys(t)) <= MaxActive
<1>1. IsFiniteSet(Keys(t)) /\ Cardinality(Keys(t)) <= Cardinality(Keys(s))
  BY FS_Subset
<1>2. Cardinality(Keys(t)) \in Nat /\ Cardinality(Keys(s)) \in Nat
  BY <1>1, FS_CardinalityType
<1>3. QED
  BY <1>1, <1>2, UploadsAssumption

\* Entries are dropped; a client that still waits for a dropped one has lost it.
LEMMA DropSound ==
  ASSUME NEW t, NEW w, NEW l, NEW o, Sound(t, w, l, o),
         NEW s \in Table, \A u \in Id : s[u] # None => s[u] = t[u],
         NEW v, v \subseteq w, NEW k, NEW q,
         \A u \in Id : s[u] # None => s[u].owner \in q,
         \A c \in Client, u \in Id : <<c, u>> \in v =>
             \/ Owns(t, c, u) /\ s[u] = t[u]
             \/ <<c, u>> \in k
  PROVE  Sound(s, v, k, q)
<1>1. Keys(s) \subseteq Keys(t)
  BY DEF Keys
<1>2. IsFiniteSet(Keys(s)) /\ Cardinality(Keys(s)) <= MaxActive
  BY <1>1, Shrinks DEF Sound
<1>3. \A u \in Id : s[u] # None => Good(s[u])
  BY DEF Sound
<1>4. \A c \in Client, u \in Id : <<c, u>> \in v => Owns(s, c, u) \/ <<c, u>> \in k
  BY DEF Owns
<1>5. QED
  BY <1>2, <1>3, <1>4 DEF Sound

\* An entry is updated in place, for the same owner.
LEMMA UpdateSound ==
  ASSUME NEW t, NEW w, NEW l, NEW o, Sound(t, w, l, o), NEW u \in Id, t[u] # None,
         NEW e \in Entry, e.owner = t[u].owner, Good(e),
         NEW s \in Table, \A v \in Id : s[v] = IF v = u THEN e ELSE t[v]
  PROVE  Sound(s, w, l, o)
<1>1. e # None
  BY UploadsAssumption DEF Entry, Conn
<1>2. Keys(s) \subseteq Keys(t)
  BY <1>1 DEF Keys
<1>3. IsFiniteSet(Keys(s)) /\ Cardinality(Keys(s)) <= MaxActive
  BY <1>2, Shrinks DEF Sound
<1>4. \A v \in Id : s[v] # None => Good(s[v]) /\ s[v].owner \in o
  BY DEF Sound
<1>5. \A c \in Client, v \in Id : <<c, v>> \in w => Owns(s, c, v) \/ <<c, v>> \in l
  BY <1>1 DEF Sound, Owns
<1>6. QED
  BY <1>3, <1>4, <1>5 DEF Sound

\* gc_uploads: what it drops is accounted for as lost.
LEMMA GcSound ==
  ASSUME IInv
  PROVE  /\ Sound(Gc, waiting, Gone \cup Collected, open)
         /\ Gc \in Table
         /\ \A u \in Id : Gc[u] # None => Gc[u] = uploads[u]
         /\ Gone \cup Collected \subseteq Client \X Id
<1> USE UploadsAssumption
<1>1. /\ uploads \in Table /\ Gc \in Table
      /\ \A u \in Id : Gc[u] # None => Gc[u] = uploads[u]
      /\ \A u \in Id : uploads[u] # None /\ Gc[u] = None => uploads[u].idle
  BY DEF IInv, TypeOK, Gc, Table
<1>2. \A c \in Client, u \in Id :
         uploads[u] # None /\ uploads[u].idle /\ uploads[u].owner = c
           => <<c, u>> \in Collected
  BY DEF Collected, Keys
<1>3. \A u \in Id : Gc[u] # None => Gc[u].owner \in open
  BY <1>1 DEF IInv, Sound
<1>4. ASSUME NEW c \in Client, NEW u \in Id, <<c, u>> \in waiting
      PROVE  \/ Owns(uploads, c, u) /\ Gc[u] = uploads[u]
             \/ <<c, u>> \in Gone \cup Collected
  <2>1. CASE <<c, u>> \in Gone
    BY <2>1
  <2>2. CASE Owns(uploads, c, u)
    BY <1>1, <1>2, <2>2 DEF Owns
  <2>3. QED
    BY <1>4, <2>1, <2>2 DEF IInv, Sound
<1>5. Sound(Gc, waiting, Gone \cup Collected, open)
  <2>1. Sound(uploads, waiting, Gone, open)
    BY DEF IInv
  <2>2. QED
    BY <1>1, <1>3, <1>4, <2>1, DropSound
<1>6. Collected \subseteq Client \X Id
  BY DEF Collected
<1>7. QED
  BY <1>1, <1>5, <1>6 DEF IInv, TypeOK

\* A free slot is taken for an unused id.
LEMMA AddSound ==
  ASSUME NEW t, NEW w, NEW l, NEW o, Sound(t, w, l, o), NEW u \in Id, NEW c \in Conn,
         c \in o, Cardinality(Keys(t)) < MaxActive, t[u] = None,
         NEW e \in Entry, e.owner = c, Good(e)
  PROVE  Sound([t EXCEPT ![u] = e], w \cup ({<<c, u>>} \cap (Client \X Id)),
               l \ {<<c, u>>}, o)
<1> DEFINE s == [t EXCEPT ![u] = e]
           v == w \cup ({<<c, u>>} \cap (Client \X Id))
<1> USE UploadsAssumption
<1>1. e # None
  BY DEF Entry, Conn
<1>2. s \in Table /\ \A x \in Id : s[x] = IF x = u THEN e ELSE t[x]
  BY DEF Sound, Table
<1> HIDE DEF s
<1>3. Keys(s) = Keys(t) \cup {u}
  BY <1>1, <1>2 DEF Keys
<1>4. /\ IsFiniteSet(Keys(s))
      /\ \/ Cardinality(Keys(s)) = Cardinality(Keys(t))
         \/ Cardinality(Keys(s)) = Cardinality(Keys(t)) + 1
  BY <1>3, FS_AddElement DEF Sound
<1>5. Cardinality(Keys(t)) \in Nat
  BY FS_CardinalityType DEF Sound
<1>6. Cardinality(Keys(s)) <= MaxActive
  BY <1>4, <1>5
<1>7. \A x \in Id : s[x] # None => Good(s[x]) /\ s[x].owner \in o
  BY <1>2 DEF Sound
<1>8. ASSUME NEW d \in Client, NEW x \in Id, <<d, x>> \in v
      PROVE  Owns(s, d, x) \/ <<d, x>> \in l \ {<<c, u>>}
  <2>1. CASE d = c /\ x = u
    BY <1>1, <1>2, <2>1 DEF Owns
  <2>2. CASE ~(d = c /\ x = u)
    <3>1. <<d, x>> \in w /\ <<d, x>> # <<c, u>>
      BY <1>8, <2>2
    <3>2. Owns(t, d, x) \/ <<d, x>> \in l
      BY <3>1 DEF Sound
    <3>3. Owns(t, d, x) => Owns(s, d, x)
      BY <1>2 DEF Owns
    <3>4. QED
      BY <3>1, <3>2, <3>3
  <2>3. QED
    BY <2>1, <2>2
<1>9. Sound(s, v, l \ {<<c, u>>}, o)
  BY <1>2, <1>4, <1>6, <1>7, <1>8 DEF Sound
<1>10. QED
  BY <1>9 DEF s

\* The handler of c makes a step after which it is not about to mark anything,
\* and every entry of another connection is as before or gone.
LEMMA FreshStep ==
  ASSUME NEW t, NEW s, NEW p, NEW a, NEW q, NEW b, Fresh(t, p, a), NEW c \in Conn,
         \A d \in Conn \ {c} : q[d] = p[d] /\ b[d] = a[d],
         q[c] # "mark", q[c] # "loop" => b[c] \in Id,
         \A d \in Conn \ {c}, v \in Id : Owns(s, d, v) => s[v] = t[v]
  PROVE  Fresh(s, q, b)
<1> SUFFICES ASSUME NEW d \in Conn
             PROVE  /\ q[d] # "loop" => b[d] \in Id
                    /\ q[d] = "mark" /\ Owns(s, d, b[d]) =>
                         s[b[d]].sent = 0 /\ s[b[d]].taken = 0
  BY DEF Fresh
<1>1. CASE d = c
  BY <1>1
<1>2. CASE d # c
  BY <1>2 DEF Fresh, Owns
<1>3. QED
  BY <1>1, <1>2

-----------------------------------------------------------------------------
(* One step per operation.                                                 *)

\* The common part of the steps that begin with gc_uploads.
LEMMA GcFacts ==
  ASSUME IInv
  PROVE  /\ \A u \in Id : Gc[u] # None =>
              Gc[u] \in Entry /\ Good(Gc[u]) /\ Gc[u].owner \in open
         /\ \A c \in Conn, u \in Id : Owns(Gc, c, u) => Gc[u] = uploads[u]
<1>1. Sound(Gc, waiting, Gone \cup Collected, open)
      /\ \A u \in Id : Gc[u] # None => Gc[u] = uploads[u]
  BY GcSound
<1>2. QED
  BY <1>1 DEF Sound, Table, Owns

\* What is left to show of the invariant once table and handlers are dealt with.
Rest ==
  /\ open' \subseteq Conn
  /\ pc' \in [Conn -> {"loop", "mark", "tell", "online", "clear", "finish", "end"}]
  /\ arg' \in [Conn -> Id \cup {None}]
  /\ told' \subseteq Id
  /\ waiting' \subseteq Client \X Id
  /\ Gone' \subseteq Client \X Id

\* The three parts make the invariant.
LEMMA Assemble ==
  ASSUME Rest, Sound(uploads', waiting', Gone', open'), Fresh(uploads', pc', arg')
  PROVE  IInv'
BY DEF Rest, IInv, TypeOK, Sound, Table

\* file_upload_begin, refused or accepted.
LEMMA BeginStep ==
  ASSUME IInv, NEW c \in Conn, NEW u \in Id, NEW kind \in Kind, NEW size \in Sizes,
         UploadRefused(c, u, kind, size) \/ UploadBegin(c, u, kind, size)
  PROVE  IInv'
<1> USE UploadsAssumption
<1> DEFINE l == Gone \cup Collected
<1>0. /\ TypeOK /\ Sound(uploads, waiting, Gone, open) /\ Fresh(uploads, pc, arg)
      /\ Sound(Gc, waiting, l, open) /\ Gc \in Table /\ l \subseteq Client \X Id
  BY GcSound DEF IInv
<1> HIDE DEF l
<1>1. CASE UploadRefused(c, u, kind, size)
  <2>1. waiting' \subseteq waiting /\ open' = open /\ pc' = pc /\ arg' = arg
        /\ told' = told
    BY <1>1 DEF UploadRefused, Result, calls
  <2>2. pc[c] = "loop"
    BY <1>1 DEF UploadRefused, Reads
  <2>3. CASE UNCHANGED <<uploads, Gone>>
    <3>1. Sound(uploads', waiting', Gone', open')
      BY <1>0, <2>1, <2>3 DEF Sound
    <3>2. Rest /\ Fresh(uploads', pc', arg')
      BY <1>0, <2>1, <2>3 DEF Rest, TypeOK
    <3>3. QED
      BY <3>1, <3>2, Assemble
  <2>4. CASE uploads' = Gc /\ Gone' = l
    <3>1. Sound(uploads', waiting', Gone', open')
      BY <1>0, <2>1, <2>4 DEF Sound
    <3>2. Fresh(uploads', pc', arg')
      BY <1>0, <2>1, <2>2, <2>4, GcFacts, FreshStep
    <3>3. Rest
      BY <1>0, <2>1, <2>4 DEF Rest, TypeOK
    <3>4. QED
      BY <3>1, <3>2, <3>3, Assemble
  <2>5. QED
    BY <1>1, <2>3, <2>4 DEF UploadRefused, GcThen, gone, l
<1>2. CASE UploadBegin(c, u, kind, size)
  <2> DEFINE e == [owner |-> c, size |-> size, bytes |-> 0, idle |-> FALSE,
                   finished |-> FALSE, buffer |-> None, sent |-> 0, taken |-> 0]
  <2>1. e \in Entry /\ e.owner = c /\ Good(e) /\ e.sent = 0 /\ e.taken = 0
    BY DEF Entry, Good, Least
  <2>2. uploads' = [Gc EXCEPT ![u] = e]
    BY <1>2 DEF UploadBegin
  <2> HIDE DEF e
  <2>3. /\ c \in open /\ pc[c] = "loop"
        /\ Gc[u] = None
        /\ Gone' = l \ {<<c, u>>}
        /\ waiting' = waiting \cup ({<<c, u>>} \cap (Client \X Id))
        /\ open' = open /\ told' = told
    BY <1>2 DEF UploadBegin, Reads, Refused, l
  <2>4. Cardinality(Keys(Gc)) < MaxActive
    <3>1. Cardinality(Keys(Gc)) \in Nat
      BY <1>0, FS_CardinalityType DEF Sound
    <3>2. QED
      BY <1>2, <3>1 DEF UploadBegin, Refused
  <2>5. Sound(uploads', waiting', Gone', open')
    <3>1. Sound([Gc EXCEPT ![u] = e], waiting \cup ({<<c, u>>} \cap (Client \X Id)),
                l \ {<<c, u>>}, open)
      BY <1>0, <2>1, <2>3, <2>4, AddSound
    <3>2. QED
      BY <2>2, <2>3, <3>1
  <2>6. /\ pc' \in [Conn -> {"loop", "mark", "tell", "online", "clear", "finish", "end"}]
        /\ arg' \in [Conn -> Id \cup {None}]
        /\ arg'[c] = u
        /\ \A d \in Conn \ {c} : pc'[d] = pc[d] /\ arg'[d] = arg[d]
    BY <1>0, <1>2 DEF UploadBegin, Goto, TypeOK
  <2>7. \A v \in Id : uploads'[v] = IF v = u THEN e ELSE Gc[v]
    BY <1>0, <2>2 DEF Table
  <2>8. Fresh(uploads', pc', arg')
    <3> SUFFICES ASSUME NEW d \in Conn
                 PROVE  /\ pc'[d] # "loop" => arg'[d] \in Id
                        /\ pc'[d] = "mark" /\ Owns(uploads', d, arg'[d]) =>
                             uploads'[arg'[d]].sent = 0 /\ uploads'[arg'[d]].taken = 0
      BY DEF Fresh
    <3>1. CASE d = c
      BY <2>1, <2>6, <2>7, <3>1
    <3>2. CASE d # c
      <4>1. pc'[d] = pc[d] /\ arg'[d] = arg[d] /\ (pc[d] # "loop" => arg[d] \in Id)
        BY <1>0, <2>6, <3>2 DEF Fresh
      <4>2. ASSUME pc[d] = "mark", Owns(uploads', d, arg[d])
            PROVE  arg[d] # u /\ Owns(Gc, d, arg[d]) /\ uploads'[arg[d]] = Gc[arg[d]]
        BY <2>1, <2>7, <3>2, <4>1, <4>2 DEF Owns
      <4>3. QED
        BY <1>0, <4>1, <4>2, GcFacts DEF Fresh, Owns
    <3>3. QED
      BY <3>1, <3>2
  <2>9. Rest
    BY <1>0, <2>3, <2>6 DEF Rest, TypeOK
  <2>10. QED
    BY <2>5, <2>8, <2>9, Assemble
<1>3. QED
  BY <1>1, <1>2

\* record_upload_chunk, in each of its outcomes.
LEMMA ChunkStep ==
  ASSUME IInv, NEW c \in Conn, NEW u \in Id,
         ChunkDrop(c, u) \/ ChunkForward(c, u) \/ ChunkOverrun(c, u)
  PROVE  IInv'
<1> USE UploadsAssumption
<1> DEFINE l == Gone \cup Collected
<1>0. /\ TypeOK /\ Fresh(uploads, pc, arg)
      /\ Sound(Gc, waiting, l, open) /\ Gc \in Table /\ l \subseteq Client \X Id
  BY GcSound DEF IInv
<1>1. /\ pc[c] = "loop" /\ Gone' = l
      /\ open' = open /\ pc' = pc /\ arg' = arg /\ told' = told
      /\ waiting' \subseteq waiting
  BY DEF ChunkDrop, ChunkForward, ChunkOverrun, GcThen, Reads, Result, calls
<1> HIDE DEF l
<1>2. Rest
  BY <1>0, <1>1 DEF Rest, TypeOK
<1>3. CASE ChunkDrop(c, u)
  <2>1. uploads' = Gc /\ waiting' = waiting
    BY <1>3 DEF ChunkDrop, GcThen
  <2>2. Sound(uploads', waiting', Gone', open')
    BY <1>0, <1>1, <2>1
  <2>3. Fresh(uploads', pc', arg')
    BY <1>0, <1>1, <2>1, GcFacts, FreshStep
  <2>4. QED
    BY <1>2, <2>2, <2>3, Assemble
<1>4. CASE ChunkForward(c, u)
  <2> DEFINE g == Gc[u]
             e == [g EXCEPT !.bytes = @ + 1, !.idle = FALSE,
                            !.sent = IF Gc[u].owner = c THEN @ + 1 ELSE @,
                            !.buffer = IF @ = None THEN None ELSE @ + 1]
  <2>1. g \in Entry /\ g # None /\ Good(g) /\ g.owner = c
    BY <1>4, GcFacts DEF ChunkForward, Takes, Owns
  <2>2. g.bytes \in Nat /\ g.sent \in Nat /\ g.buffer \in Nat \cup {None} /\ g.taken \in Nat
        /\ g.size \in Nat
    BY <2>1 DEF Entry
  <2>3. e = [g EXCEPT !.bytes = g.bytes + 1, !.idle = FALSE, !.sent = g.sent + 1,
                      !.buffer = IF g.buffer = None THEN None ELSE g.buffer + 1]
    BY <2>1 DEF Entry
  <2>5. /\ e \in Entry /\ e.owner = g.owner /\ e.size = g.size /\ e.taken = g.taken
        /\ e.bytes = g.bytes + 1 /\ e.sent = g.sent + 1
        /\ e.buffer = IF g.buffer = None THEN None ELSE g.buffer + 1
    <3> DEFINE m == g.bytes + 1
               n == g.sent + 1
               b == IF g.buffer = None THEN None ELSE g.buffer + 1
    <3>1. m \in Nat /\ n \in Nat /\ b \in Nat \cup {None}
      BY <2>2
    <3>2. e = [g EXCEPT !.bytes = m, !.idle = FALSE, !.sent = n, !.buffer = b]
      BY <2>3
    <3> HIDE DEF m, n, b, e, g
    <3>3. /\ e \in Entry /\ e.owner = g.owner /\ e.size = g.size /\ e.taken = g.taken
          /\ e.bytes = m /\ e.sent = n /\ e.buffer = b
      BY <2>1, <3>1, <3>2 DEF Entry
    <3>4. QED
      BY <3>3 DEF m, n, b
  <2>6. uploads' = [Gc EXCEPT ![u] = e]
    BY <1>0, <1>4 DEF ChunkForward, GcThen, Table
  <2> HIDE DEF e
  <2>7. Good(e)
    <3>1. g.bytes + 1 <= Least(g.size, MaxSize)
      BY <1>4 DEF ChunkForward, Fits
    <3>2. QED
      BY <2>1, <2>2, <2>5, <3>1 DEF Good
  <2>8. uploads' \in Table /\ \A v \in Id : uploads'[v] = IF v = u THEN e ELSE Gc[v]
    BY <1>0, <2>5, <2>6 DEF Table
  <2>9. waiting' = waiting
    BY <1>4 DEF ChunkForward
  <2>10. Sound(uploads', waiting', Gone', open')
    <3>1. Sound(uploads', waiting, l, open)
      BY <1>0, <2>1, <2>5, <2>7, <2>8, UpdateSound
    <3>2. QED
      BY <1>1, <2>9, <3>1
  <2>11. \A d \in Conn \ {c}, v \in Id : Owns(uploads', d, v) => uploads'[v] = uploads[v]
    BY <2>1, <2>5, <2>8, GcFacts DEF Owns
  <2>12. Fresh(uploads', pc', arg')
    BY <1>0, <1>1, <2>11, FreshStep
  <2>13. QED
    BY <1>2, <2>10, <2>12, Assemble
<1>5. CASE ChunkOverrun(c, u)
  <2>1. /\ uploads' = [Gc EXCEPT ![u] = None] /\ waiting' = waiting \ {<<c, u>>}
        /\ Owns(Gc, c, u)
    BY <1>5 DEF ChunkOverrun, GcThen, Result, Takes
  <2>2. uploads' \in Table /\ \A v \in Id : uploads'[v] = IF v = u THEN None ELSE Gc[v]
    BY <1>0, <2>1 DEF Table
  <2>3. ASSUME NEW d \in Client, NEW v \in Id, <<d, v>> \in waiting'
        PROVE  \/ Owns(Gc, d, v) /\ uploads'[v] = Gc[v]
               \/ <<d, v>> \in l
    <3>1. <<d, v>> \in waiting /\ ~(d = c /\ v = u)
      BY <2>1, <2>3
    <3>2. Owns(Gc, d, v) \/ <<d, v>> \in l
      BY <1>0, <3>1 DEF Sound
    <3>3. QED
      BY <2>1, <2>2, <3>1, <3>2 DEF Owns
  <2>4. \A v \in Id : uploads'[v] # None => uploads'[v] = Gc[v] /\ uploads'[v].owner \in open
    BY <2>2, GcFacts
  <2>5. Sound(uploads', waiting', l, open)
    BY <1>0, <1>1, <2>2, <2>3, <2>4, DropSound
  <2>6. \A d \in Conn \ {c}, v \in Id : Owns(uploads', d, v) => uploads'[v] = uploads[v]
    BY <2>2, GcFacts DEF Owns
  <2>7. Fresh(uploads', pc', arg')
    BY <1>0, <1>1, <2>6, FreshStep
  <2>8. QED
    BY <1>1, <1>2, <2>5, <2>7, Assemble
<1>6. QED
  BY <1>3, <1>4, <1>5

\* mark_bug_report_upload: the upload becomes buffered before its first byte.
LEMMA MarkStep ==
  ASSUME IInv, NEW c \in Conn, Mark(c)
  PROVE  IInv'
<1> USE UploadsAssumption
<1> DEFINE u == arg[c]
<1>0. /\ TypeOK /\ Sound(uploads, waiting, Gone, open) /\ Fresh(uploads, pc, arg)
      /\ uploads \in Table
  BY DEF IInv, Sound
<1>1. pc[c] = "mark" /\ u \in Id
  BY <1>0 DEF Mark, Fresh
<1>2. /\ open' = open /\ told' = told
      /\ waiting' = waiting /\ Gone' = Gone
  BY DEF Mark, hist, gone
<1>3. /\ pc' \in [Conn -> {"loop", "mark", "tell", "online", "clear", "finish", "end"}]
      /\ arg' \in [Conn -> Id \cup {None}]
      /\ pc'[c] # "mark" /\ (pc'[c] # "loop" => arg'[c] \in Id)
      /\ \A d \in Conn \ {c} : pc'[d] = pc[d] /\ arg'[d] = arg[d]
  BY <1>0, <1>1 DEF Mark, Return, Goto, TypeOK
<1>4. Rest
  BY <1>0, <1>2, <1>3 DEF Rest, TypeOK
<1>5. CASE ~Owns(uploads, c, u)
  <2>1. uploads' = uploads
    BY <1>5 DEF Mark
  <2>2. Fresh(uploads', pc', arg')
    BY <1>0, <1>3, <2>1, FreshStep
  <2>3. Sound(uploads', waiting', Gone', open')
    BY <1>0, <1>2, <2>1
  <2>4. QED
    BY <1>4, <2>2, <2>3, Assemble
<1>6. CASE Owns(uploads, c, u)
  <2> DEFINE g == uploads[u]
             e == [g EXCEPT !.buffer = 0]
  <2>1. g \in Entry /\ g # None /\ Good(g) /\ g.owner = c /\ g.sent = 0 /\ g.taken = 0
    BY <1>0, <1>1, <1>6 DEF Owns, Sound, Table, Fresh
  <2>2. /\ e \in Entry /\ e.owner = g.owner /\ e.size = g.size /\ e.taken = g.taken
        /\ e.bytes = g.bytes /\ e.sent = g.sent /\ e.buffer = 0
    BY <2>1 DEF Entry
  <2>3. uploads' = [uploads EXCEPT ![u] = e]
    BY <1>0, <1>6 DEF Mark, Table
  <2> HIDE DEF e
  <2>4. Good(e)
    BY <2>1, <2>2 DEF Good
  <2>5. uploads' \in Table /\ \A v \in Id : uploads'[v] = IF v = u THEN e ELSE uploads[v]
    BY <1>0, <2>2, <2>3 DEF Table
  <2>6. Sound(uploads', waiting', Gone', open')
    <3>1. Sound(uploads', waiting, Gone, open)
      BY <1>0, <1>1, <2>1, <2>2, <2>4, <2>5, UpdateSound
    <3>2. QED
      BY <1>2, <3>1
  <2>7. \A d \in Conn \ {c}, v \in Id : Owns(uploads', d, v) => uploads'[v] = uploads[v]
    BY <2>1, <2>2, <2>5 DEF Owns
  <2>8. Fresh(uploads', pc', arg')
    BY <1>0, <1>3, <2>7, FreshStep
  <2>9. QED
    BY <1>4, <2>6, <2>8, Assemble
<1>7. QED
  BY <1>5, <1>6

\* A step of a handler that leaves table, requests and reports alone.
LEMMA CallStep ==
  ASSUME IInv, NEW c \in Conn, NEW u \in Id,
         TellBegin(c) \/ AskOnline(c) \/ TellEnd(c) \/ OtherEnd(c, u)
  PROVE  IInv'
<1>0. /\ TypeOK /\ Sound(uploads, waiting, Gone, open) /\ Fresh(uploads, pc, arg)
  BY DEF IInv
<1>1. /\ open' = open /\ uploads' = uploads
      /\ waiting' = waiting /\ Gone' = Gone
  BY DEF TellBegin, AskOnline, TellEnd, OtherEnd, hist, gone
<1>2. /\ pc' \in [Conn -> {"loop", "mark", "tell", "online", "clear", "finish", "end"}]
      /\ arg' \in [Conn -> Id \cup {None}]
      /\ pc'[c] # "mark" /\ (pc'[c] # "loop" => arg'[c] \in Id)
      /\ \A d \in Conn \ {c} : pc'[d] = pc[d] /\ arg'[d] = arg[d]
      /\ told' \subseteq Id
  BY <1>0 DEF TellBegin, AskOnline, TellEnd, OtherEnd, Return, Goto, TypeOK, Fresh
<1>3. Rest
  BY <1>0, <1>1, <1>2 DEF Rest, TypeOK
<1>4. Fresh(uploads', pc', arg')
  BY <1>0, <1>1, <1>2, FreshStep
<1>5. QED
  BY <1>0, <1>1, <1>3, <1>4, Assemble

\* take_bug_report_buffer and persist_bug_report.
LEMMA ReportEndStep ==
  ASSUME IInv, NEW c \in Conn, NEW u \in Id, ReportEnd(c, u)
  PROVE  IInv'
<1> USE UploadsAssumption
<1> DEFINE g == uploads[u]
           e == [g EXCEPT !.buffer = None, !.taken = @ + 1]
<1>0. /\ TypeOK /\ Sound(uploads, waiting, Gone, open) /\ Fresh(uploads, pc, arg)
      /\ uploads \in Table
  BY DEF IInv, Sound
<1>1. g \in Entry /\ g # None /\ Good(g) /\ g.owner = c /\ g.buffer # None
  BY <1>0 DEF ReportEnd, Take, Buffered, Owns, Sound, Table
<1>2. g.buffer = g.sent /\ g.taken = 0 /\ g.sent \in Nat
  BY <1>1 DEF Good, Entry
<1>3. /\ e \in Entry /\ e.owner = g.owner /\ e.size = g.size /\ e.bytes = g.bytes
      /\ e.buffer = None /\ e.taken = 1
  <2>1. e = [g EXCEPT !.buffer = None, !.taken = 1]
    BY <1>1, <1>2 DEF Entry
  <2> HIDE DEF e, g
  <2>2. QED
    BY <1>1, <2>1 DEF Entry
<1>4. uploads' = [uploads EXCEPT ![u] = e]
  BY <1>0 DEF ReportEnd, Take, Table
<1> HIDE DEF e
<1>5. Good(e)
  BY <1>1, <1>3 DEF Good
<1>6. uploads' \in Table /\ \A v \in Id : uploads'[v] = IF v = u THEN e ELSE uploads[v]
  BY <1>0, <1>3, <1>4 DEF Table
<1>7. open' = open /\ told' = told /\ waiting' = waiting /\ Gone' = Gone
  BY DEF ReportEnd, gone
<1>8. Sound(uploads', waiting', Gone', open')
  <2>1. Sound(uploads', waiting, Gone, open)
    BY <1>0, <1>1, <1>3, <1>5, <1>6, UpdateSound
  <2>2. QED
    BY <1>7, <2>1
<1>9. /\ pc' \in [Conn -> {"loop", "mark", "tell", "online", "clear", "finish", "end"}]
      /\ arg' \in [Conn -> Id \cup {None}]
      /\ pc'[c] # "mark" /\ arg'[c] \in Id
      /\ \A d \in Conn \ {c} : pc'[d] = pc[d] /\ arg'[d] = arg[d]
  BY <1>0 DEF ReportEnd, Goto, TypeOK
<1>10. \A d \in Conn \ {c}, v \in Id : Owns(uploads', d, v) => uploads'[v] = uploads[v]
  BY <1>1, <1>3, <1>6 DEF Owns
<1>11. Fresh(uploads', pc', arg')
  BY <1>0, <1>9, <1>10, FreshStep
<1>12. Rest
  BY <1>0, <1>7, <1>9 DEF Rest, TypeOK
<1>13. QED
  BY <1>8, <1>11, <1>12, Assemble

\* resolve_upload by the relay itself.
LEMMA ClearStep ==
  ASSUME IInv, NEW c \in Conn, Clear(c)
  PROVE  IInv'
<1> USE UploadsAssumption
<1> DEFINE u == arg[c]
           l == Gone \cup Collected
<1>0. /\ TypeOK /\ Fresh(uploads, pc, arg)
      /\ Sound(Gc, waiting, l, open) /\ Gc \in Table /\ l \subseteq Client \X Id
  BY GcSound DEF IInv
<1>1. /\ pc[c] = "clear" /\ u \in Id
      /\ uploads' = [Gc EXCEPT ![u] = None] /\ waiting' = waiting \ {<<c, u>>}
      /\ Gone' = l \cup OthersWaiting(c, u)
      /\ open' = open /\ told' = told
  BY <1>0 DEF Clear, Fresh, Result
<1> HIDE DEF l
<1>2. /\ pc' \in [Conn -> {"loop", "mark", "tell", "online", "clear", "finish", "end"}]
      /\ arg' \in [Conn -> Id \cup {None}]
      /\ pc'[c] = "loop"
      /\ \A d \in Conn \ {c} : pc'[d] = pc[d] /\ arg'[d] = arg[d]
  BY <1>0 DEF Clear, Return, Goto, TypeOK
<1>3. uploads' \in Table /\ \A v \in Id : uploads'[v] = IF v = u THEN None ELSE Gc[v]
  BY <1>0, <1>1 DEF Table
<1>4. ASSUME NEW d \in Client, NEW v \in Id, <<d, v>> \in waiting'
      PROVE  \/ Owns(Gc, d, v) /\ uploads'[v] = Gc[v]
             \/ <<d, v>> \in Gone'
  <2>1. <<d, v>> \in waiting /\ ~(d = c /\ v = u)
    BY <1>1, <1>4
  <2>2. Owns(Gc, d, v) \/ <<d, v>> \in l
    BY <1>0, <2>1 DEF Sound
  <2>3. CASE v = u
    BY <1>1, <2>1, <2>2, <2>3 DEF OthersWaiting
  <2>4. CASE v # u
    BY <1>1, <1>3, <2>2, <2>4
  <2>5. QED
    BY <2>3, <2>4
<1>5. \A v \in Id : uploads'[v] # None => uploads'[v] = Gc[v] /\ uploads'[v].owner \in open
  BY <1>3, GcFacts
<1>6. waiting' \subseteq waiting
  BY <1>1
<1>7. Sound(uploads', waiting', Gone', open)
  BY <1>0, <1>3, <1>4, <1>5, <1>6, DropSound
<1>8. \A d \in Conn \ {c}, v \in Id : Owns(uploads', d, v) => uploads'[v] = uploads[v]
  BY <1>3, GcFacts DEF Owns
<1>9. Fresh(uploads', pc', arg')
  BY <1>0, <1>2, <1>8, FreshStep
<1>10. Rest
  BY <1>0, <1>1, <1>2, <1>6 DEF Rest, TypeOK, OthersWaiting
<1>11. QED
  BY <1>1, <1>7, <1>9, <1>10, Assemble

\* finish_upload
LEMMA FinishStep ==
  ASSUME IInv, NEW c \in Conn, Finish(c)
  PROVE  IInv'
<1> USE UploadsAssumption
<1> DEFINE u == arg[c]
           l == Gone \cup Collected
<1>0. /\ TypeOK /\ Fresh(uploads, pc, arg)
      /\ Sound(Gc, waiting, l, open) /\ Gc \in Table /\ l \subseteq Client \X Id
  BY GcSound DEF IInv
<1>1. /\ pc[c] = "finish" /\ u \in Id /\ Gone' = l
      /\ open' = open /\ told' = told /\ waiting' = waiting
  BY <1>0 DEF Finish, Fresh, GcThen
<1>2. /\ pc' \in [Conn -> {"loop", "mark", "tell", "online", "clear", "finish", "end"}]
      /\ arg' \in [Conn -> Id \cup {None}]
      /\ pc'[c] = "end" /\ arg'[c] = u
      /\ \A d \in Conn \ {c} : pc'[d] = pc[d] /\ arg'[d] = arg[d]
  BY <1>0, <1>1 DEF Finish, Goto, TypeOK
<1>3. Rest
  BY <1>0, <1>1, <1>2 DEF Rest, TypeOK
<1> HIDE DEF l
<1>4. CASE ~Owns(Gc, c, u)
  <2>1. uploads' = Gc
    BY <1>4 DEF Finish, GcThen
  <2>2. Fresh(uploads', pc', arg')
    BY <1>0, <1>1, <1>2, <2>1, GcFacts, FreshStep
  <2>3. QED
    BY <1>0, <1>1, <1>3, <2>1, <2>2, Assemble
<1>5. CASE Owns(Gc, c, u)
  <2> DEFINE g == Gc[u]
             e == [g EXCEPT !.finished = TRUE, !.idle = FALSE]
  <2>1. g \in Entry /\ g # None /\ Good(g) /\ g.owner = c
    BY <1>1, <1>5, GcFacts DEF Owns
  <2>2. /\ e \in Entry /\ e.owner = g.owner /\ e.size = g.size /\ e.taken = g.taken
        /\ e.bytes = g.bytes /\ e.sent = g.sent /\ e.buffer = g.buffer
    BY <2>1 DEF Entry
  <2>3. uploads' = [Gc EXCEPT ![u] = e]
    BY <1>0, <1>5 DEF Finish, GcThen, Table
  <2> HIDE DEF e
  <2>4. Good(e)
    BY <2>1, <2>2 DEF Good
  <2>5. uploads' \in Table /\ \A v \in Id : uploads'[v] = IF v = u THEN e ELSE Gc[v]
    BY <1>0, <2>2, <2>3 DEF Table
  <2>6. Sound(uploads', waiting', Gone', open')
    <3>1. Sound(uploads', waiting, l, open)
      BY <1>0, <1>1, <2>1, <2>2, <2>4, <2>5, UpdateSound
    <3>2. QED
      BY <1>1, <3>1
  <2>7. \A d \in Conn \ {c}, v \in Id : Owns(uploads', d, v) => uploads'[v] = uploads[v]
    BY <2>1, <2>2, <2>5, GcFacts DEF Owns
  <2>8. Fresh(uploads', pc', arg')
    BY <1>0, <1>1, <1>2, <2>7, FreshStep
  <2>9. QED
    BY <1>3, <2>6, <2>8, Assemble
<1>6. QED
  BY <1>4, <1>5

\* file_upload_result: resolve_upload for the desktop.
LEMMA ResultStep ==
  ASSUME IInv, NEW u \in Id, UploadResult(u)
  PROVE  IInv'
<1> USE UploadsAssumption
<1> DEFINE l == Gone \cup Collected
<1>0. /\ TypeOK /\ Fresh(uploads, pc, arg)
      /\ Sound(Gc, waiting, l, open) /\ Gc \in Table /\ l \subseteq Client \X Id
  BY GcSound DEF IInv
<1>1. /\ uploads' = [Gc EXCEPT ![u] = None] /\ Gone' = l
      /\ open' = open /\ told' \subseteq told
      /\ pc' = pc /\ arg' = arg /\ waiting' \subseteq waiting
      /\ Gc[u] # None => waiting' = waiting \ {<<Gc[u].owner, u>>}
  BY DEF UploadResult, GcThen, Result, calls
<1> HIDE DEF l
<1>2. uploads' \in Table /\ \A v \in Id : uploads'[v] = IF v = u THEN None ELSE Gc[v]
  BY <1>0, <1>1 DEF Table
<1>3. ASSUME NEW d \in Client, NEW v \in Id, <<d, v>> \in waiting'
      PROVE  \/ Owns(Gc, d, v) /\ uploads'[v] = Gc[v]
             \/ <<d, v>> \in l
  <2>1. Owns(Gc, d, v) \/ <<d, v>> \in l
    BY <1>0, <1>1, <1>3 DEF Sound
  <2>2. Owns(Gc, d, v) => v # u
    BY <1>1, <1>3 DEF Owns
  <2>3. QED
    BY <1>2, <2>1, <2>2
<1>4. \A v \in Id : uploads'[v] # None => uploads'[v] = Gc[v] /\ uploads'[v].owner \in open
  BY <1>2, GcFacts
<1>5. Sound(uploads', waiting', l, open)
  BY <1>0, <1>1, <1>2, <1>3, <1>4, DropSound
<1>6. Desk \in Conn /\ pc[Desk] = "loop"
  BY DEF UploadResult, Reads, Conn
<1>7. /\ \A d \in Conn \ {Desk}, v \in Id : Owns(uploads', d, v) => uploads'[v] = uploads[v]
      /\ \A d \in Conn \ {Desk} : pc'[d] = pc[d] /\ arg'[d] = arg[d]
      /\ pc'[Desk] # "mark" /\ (pc'[Desk] # "loop" => arg'[Desk] \in Id)
  BY <1>1, <1>2, <1>6, GcFacts DEF Owns
<1>8. Fresh(uploads', pc', arg')
  BY <1>0, <1>6, <1>7, FreshStep
<1>9. Rest
  BY <1>0, <1>1 DEF Rest, TypeOK
<1>10. QED
  BY <1>1, <1>5, <1>8, <1>9, Assemble

\* Time passes for an upload.
LEMMA IdleStep ==
  ASSUME IInv, NEW u \in Id, GoIdle(u)
  PROVE  IInv'
<1> USE UploadsAssumption
<1> DEFINE g == uploads[u]
           e == [g EXCEPT !.idle = TRUE]
<1>0. /\ TypeOK /\ Sound(uploads, waiting, Gone, open) /\ Fresh(uploads, pc, arg)
      /\ uploads \in Table
  BY DEF IInv, Sound
<1>1. g \in Entry /\ g # None /\ Good(g)
  BY <1>0 DEF GoIdle, Sound, Table
<1>2. /\ e \in Entry /\ e.owner = g.owner /\ e.size = g.size /\ e.taken = g.taken
      /\ e.bytes = g.bytes /\ e.sent = g.sent /\ e.buffer = g.buffer
  BY <1>1 DEF Entry
<1>3. uploads' = [uploads EXCEPT ![u] = e]
  BY <1>0 DEF GoIdle, Table
<1> HIDE DEF e
<1>4. Good(e)
  BY <1>1, <1>2 DEF Good
<1>5. uploads' \in Table /\ \A v \in Id : uploads'[v] = IF v = u THEN e ELSE uploads[v]
  BY <1>0, <1>2, <1>3 DEF Table
<1>6. Sound(uploads', waiting, Gone, open)
  BY <1>0, <1>1, <1>2, <1>4, <1>5, UpdateSound
<1>7. /\ open' = open /\ told' = told /\ waiting' = waiting
      /\ Gone' = Gone /\ pc' = pc /\ arg' = arg
  BY DEF GoIdle, hist, gone, calls
<1>8. \A v \in Id : uploads'[v] # None =>
        /\ uploads[v] # None /\ uploads'[v].owner = uploads[v].owner
        /\ uploads'[v].sent = uploads[v].sent /\ uploads'[v].taken = uploads[v].taken
  BY <1>1, <1>2, <1>5
<1>9. Fresh(uploads', pc', arg')
  BY <1>0, <1>7, <1>8 DEF Fresh, Owns
<1>10. Rest
  BY <1>0, <1>7 DEF Rest, TypeOK
<1>11. QED
  BY <1>6, <1>7, <1>9, <1>10, Assemble

\* unregister_client, unregister_desktop
LEMMA DisconnectStep ==
  ASSUME IInv, NEW c \in Conn, Disconnect(c)
  PROVE  IInv'
<1> USE UploadsAssumption
<1>0. /\ TypeOK /\ Sound(uploads, waiting, Gone, open) /\ Fresh(uploads, pc, arg)
      /\ uploads \in Table
  BY DEF IInv, Sound
<1>1. /\ open' = open \ {c} /\ pc' = pc /\ arg' = arg
      /\ pc[c] = "loop" /\ told' \subseteq told
      /\ waiting' \subseteq waiting /\ Gone' \subseteq Gone
  BY DEF Disconnect, Reads, calls
<1>2. \A d \in Client, u \in Id :
        /\ <<d, u>> \in waiting' => <<d, u>> \in waiting /\ d # c
        /\ <<d, u>> \in Gone /\ d # c => <<d, u>> \in Gone'
  BY DEF Disconnect
<1>3. /\ uploads' \in Table
      /\ \A u \in Id : uploads'[u] = IF Owns(uploads, c, u) THEN None ELSE uploads[u]
  BY <1>0 DEF Disconnect, Freed, Table
<1>4. \A u \in Id : uploads'[u] # None =>
        uploads'[u] = uploads[u] /\ uploads'[u].owner \in open'
  BY <1>0, <1>1, <1>3 DEF Owns, Sound
<1>5. ASSUME NEW d \in Client, NEW u \in Id, <<d, u>> \in waiting'
      PROVE  \/ Owns(uploads, d, u) /\ uploads'[u] = uploads[u]
             \/ <<d, u>> \in Gone'
  BY <1>0, <1>2, <1>3, <1>5 DEF Sound, Owns
<1>6. Sound(uploads', waiting', Gone', open')
  BY <1>0, <1>1, <1>3, <1>4, <1>5, DropSound
<1>7. Fresh(uploads', pc', arg')
  BY <1>0, <1>1, <1>4, FreshStep DEF Owns
<1>8. Rest
  BY <1>0, <1>1 DEF Rest, TypeOK
<1>9. QED
  BY <1>6, <1>7, <1>8, Assemble

\* Every step keeps the invariant.
LEMMA IInvStep == IInv /\ [Next]_vars => IInv'
<1> SUFFICES ASSUME IInv, [Next]_vars PROVE IInv'
  OBVIOUS
<1>1. ASSUME NEW c \in Conn, TellBegin(c) \/ AskOnline(c) \/ TellEnd(c) PROVE IInv'
  <2>1. arg[c] \in Id
    BY <1>1 DEF TellBegin, AskOnline, TellEnd, IInv, Fresh
  <2>2. QED
    BY <1>1, <2>1, CallStep
<1>2. ASSUME NEW c \in Conn, Connect(c) PROVE IInv'
  <2>1. /\ open' = open \cup {c} /\ uploads' = uploads /\ waiting' = waiting
        /\ Gone' = Gone /\ told' = told /\ pc' = pc /\ arg' = arg
    BY <1>2 DEF Connect, calls, hist, gone
  <2>2. Sound(uploads', waiting', Gone', open') /\ Fresh(uploads', pc', arg')
    BY <2>1 DEF IInv, Sound
  <2>3. Rest
    BY <2>1 DEF Rest, IInv, TypeOK, Conn
  <2>4. QED
    BY <2>2, <2>3, Assemble
<1>3. CASE UNCHANGED vars
  <2>1. /\ open' = open /\ uploads' = uploads /\ waiting' = waiting
        /\ Gone' = Gone /\ told' = told /\ pc' = pc /\ arg' = arg
    BY <1>3 DEF vars, calls, hist, gone
  <2>2. Sound(uploads', waiting', Gone', open') /\ Fresh(uploads', pc', arg')
    BY <2>1 DEF IInv
  <2>3. Rest
    BY <2>1 DEF Rest, IInv, TypeOK
  <2>4. QED
    BY <2>2, <2>3, Assemble
<1>4. QED
  BY <1>1, <1>2, <1>3, MarkStep, ClearStep, FinishStep, DisconnectStep, ChunkStep,
     ReportEndStep, CallStep, BeginStep, ResultStep, IdleStep
     DEF Next

\* The empty table is sound.
LEMMA IInvInit == Init => IInv
<1> SUFFICES ASSUME Init PROVE IInv
  OBVIOUS
<1> USE UploadsAssumption
<1>1. Keys(uploads) = {}
  BY DEF Init, Keys
<1>2. IsFiniteSet(Keys(uploads)) /\ Cardinality(Keys(uploads)) = 0
  BY <1>1, FS_EmptySet
<1>3. Cardinality(Keys(uploads)) <= MaxActive
  BY <1>2
<1>4. Sound(uploads, waiting, Gone, open)
  BY <1>2, <1>3 DEF Init, Sound, Table
<1>5. pc \in [Conn -> {"loop", "mark", "tell", "online", "clear", "finish", "end"}]
      /\ Fresh(uploads, pc, arg)
  BY DEF Init, Fresh
<1>6. TypeOK
  BY <1>5 DEF Init, TypeOK, Conn
<1>7. QED
  BY <1>4, <1>5, <1>6 DEF IInv

\* The reachable states satisfy the inductive invariant.
LEMMA IInvAlways == Spec => []IInv
BY IInvInit, IInvStep, PTL DEF Spec

-----------------------------------------------------------------------------
(* Results.                                                                *)

\* Every reachable state is well typed.
THEOREM TypeCorrect == Spec => []TypeOK
<1>1. IInv => TypeOK
  BY DEF IInv
<1>2. QED
  BY <1>1, IInvAlways, PTL

\* Slots, sizes and owners: the table never exceeds MAX_ACTIVE_UPLOADS, no
\* upload exceeds what was declared or MAX_UPLOAD_SIZE, and no slot is held for
\* a connection that is gone.
THEOREM UploadsGoverned == Spec => []Governed
<1>1. IInv => Governed
  BY DEF IInv, Sound, Good, Governed, Keys
<1>2. QED
  BY <1>1, IInvAlways, PTL

\* What is handed to persist_bug_report is exactly what the reporter sent for it.
THEOREM ReportsWhole == Spec => ReportWhole
<1>1. IInv => \A c \in Conn, u \in Id :
                ReportEnd(c, u) => uploads[u].buffer = uploads[u].sent
  BY DEF IInv, Sound, Good, ReportEnd, Take, Buffered, Owns
<1>2. QED
  BY <1>1, IInvAlways, PTL DEF ReportWhole

\* A report is taken for persistence at most once.
THEOREM ReportsOnce == Spec => []ReportOnce
<1>1. IInv => ReportOnce
  BY DEF IInv, Sound, Good, ReportOnce, Keys
<1>2. QED
  BY <1>1, IInvAlways, PTL

\* No upload of a connected client ends in silence, except by the idle
\* collection or by the end that another connection sent under its id.
THEOREM EndsAreTold == Spec => []NoSilentEnd
<1>1. IInv => NoSilentEnd
  <2> SUFFICES ASSUME IInv, NEW p \in waiting
               PROVE  Owns(uploads, p[1], p[2]) \/ p \in Gone
    BY DEF NoSilentEnd
  <2>1. p = <<p[1], p[2]>> /\ p[1] \in Client /\ p[2] \in Id
    BY DEF IInv, TypeOK
  <2>2. QED
    BY <2>1 DEF IInv, Sound
<1>2. QED
  BY <1>1, IInvAlways, PTL

-----------------------------------------------------------------------------
(* Uploads implement Transfer                                              *)

\* What gc_uploads drops; there may be more that is stale.
Idle == {u \in Keys(uploads) : uploads[u].idle}

\* A step that frees the slots T and leaves the others, and the calls of
\* resolve_upload that are due for them, as they are.
LEMMA Frees ==
  ASSUME NEW T,
         \A v \in Id \cap T : uploads'[v] = None,
         \A v \in Id \ T : /\ uploads'[v] = None <=> uploads[v] = None
                           /\ uploads[v] # None =>
                                /\ uploads'[v].owner = uploads[v].owner
                                /\ uploads'[v].bytes = uploads[v].bytes
                                /\ uploads'[v].idle <=> uploads[v].idle,
         \A d \in Conn, v \in Id \ T : uploads[v] # None =>
             (pc'[d] = "clear" /\ arg'[d] = v <=> pc[d] = "clear" /\ arg[d] = v)
  PROVE  /\ Owner' = Abstract!Freed(T) /\ Passed' = Abstract!Cleared(T)
         /\ Stale' = Stale \ T
<1>1. \A v \in Id : /\ Owner'[v] = IF v \in T THEN None ELSE Owner[v]
                    /\ Passed'[v] = IF v \in T THEN 0 ELSE Passed[v]
  BY DEF Owner, Passed
<1>2. Owner' = [v \in Id |-> Owner'[v]] /\ Passed' = [v \in Id |-> Passed'[v]]
  BY DEF Owner, Passed
<1>3. \A v \in Id : v \in Stale' <=> v \in Stale /\ v \notin T
  BY DEF Stale, Keys
<1>4. Stale \subseteq Id /\ Stale' \subseteq Id
  BY DEF Stale, Keys
<1>5. QED
  BY <1>1, <1>2, <1>3, <1>4 DEF Abstract!Freed, Abstract!Cleared

\* gc_uploads in the terms of Transfer.
LEMMA GcGivesUp ==
  ASSUME IInv
  PROVE  /\ \A v \in Id : Gc[v] = IF v \in Idle THEN None ELSE uploads[v]
         /\ \A v \in Id : Gc[v] # None => ~Gc[v].idle
         /\ Idle \subseteq Stale /\ Stale \subseteq Id
         /\ Abstract!Held = Keys(uploads)
         /\ Keys(Gc) = Abstract!Held \ Idle
         /\ Abstract!Vain(Idle) \cap waiting = (Gone \cup Collected) \cap waiting
<1>1. \A v \in Id : uploads[v] # None => uploads[v].owner \in Conn
  BY DEF IInv, Sound, Table, Entry
<1>2. \A v \in Id : Gc[v] = IF v \in Idle THEN None ELSE uploads[v]
  BY DEF Gc, Idle, Keys
<1>3. Idle \subseteq Stale /\ Stale \subseteq Id
  BY DEF Stale, Idle, Keys
<1>4. \A v \in Id : Owner[v] # None <=> uploads[v] # None
  BY <1>1, UploadsAssumption DEF Owner, Conn
<1>5. Abstract!Held = Keys(uploads)
  BY <1>4 DEF Abstract!Held, Keys
<1>6. Keys(Gc) = Abstract!Held \ Idle
  BY <1>2, <1>5 DEF Keys
<1>7. \A v \in Idle : Owner[v] = uploads[v].owner
  BY DEF Idle, Keys, Owner
<1>8. {<<Owner[v], v>> : v \in Idle} \cap (Client \X Id) = Collected
  BY <1>7 DEF Collected, Idle
<1>9. waiting \subseteq Client \X Id
  BY DEF IInv, TypeOK
<1>10. Abstract!Vain(Idle) \cap waiting = (Gone \cup Collected) \cap waiting
  BY <1>8, <1>9 DEF Abstract!Vain
<1>11. \A v \in Id : Gc[v] # None => ~Gc[v].idle
  BY DEF Gc
<1>12. QED
  BY <1>2, <1>3, <1>5, <1>6, <1>10, <1>11

\* Slots T are given up; at most one that waits is answered.
LEMMA GiveUp ==
  ASSUME NEW T, T \subseteq Stale, open' = open,
         Owner' = Abstract!Freed(T), Passed' = Abstract!Cleared(T), Stale' = Stale \ T,
         Gone' \cap waiting' = Abstract!Vain(T) \cap waiting',
         waiting' = waiting \/ \E p : waiting' = waiting \ {p}
  PROVE  Abstract!Next
<1>1. CASE waiting' = waiting
  <2>1. Abstract!Collect(T)
    BY <1>1 DEF Abstract!Collect
  <2>2. QED
    BY <2>1 DEF Abstract!Next
<1>2. ASSUME NEW p \in waiting, waiting' = waiting \ {p} PROVE Abstract!Next
  <2>1. Abstract!Answer(T, p)
    BY <1>2 DEF Abstract!Answer
  <2>2. QED
    BY <1>2, <2>1 DEF Abstract!Next
<1>3. QED
  BY <1>1, <1>2

\* A call that collects what is idle and gives nothing else back.
LEMMA CollectStep ==
  ASSUME IInv, open' = open,
         Gone' \cap waiting' = (Gone \cup Collected) \cap waiting',
         \A v \in Id : /\ uploads'[v] = None <=> Gc[v] = None
                       /\ Gc[v] # None => /\ ~uploads'[v].idle
                                             /\ uploads'[v].owner = Gc[v].owner
                                             /\ uploads'[v].bytes = Gc[v].bytes,
         \A d \in Conn, v \in Id : Gc[v] # None =>
             (pc'[d] = "clear" /\ arg'[d] = v <=> pc[d] = "clear" /\ arg[d] = v),
         waiting' = waiting \/ \E p : waiting' = waiting \ {p}
  PROVE  Abstract!Next
<1>1. \A v \in Id \cap Idle : uploads'[v] = None
  BY GcGivesUp
<1>2. \A v \in Id \ Idle :
         /\ uploads'[v] = None <=> uploads[v] = None
         /\ uploads[v] # None => /\ uploads'[v].owner = uploads[v].owner
                                 /\ uploads'[v].bytes = uploads[v].bytes
                                 /\ ~uploads'[v].idle /\ ~uploads[v].idle
  BY GcGivesUp
<1>3. \A v \in Id \ Idle : uploads[v] # None => (uploads'[v].idle <=> uploads[v].idle)
  BY <1>2
<1>4. \A d \in Conn, v \in Id \ Idle : uploads[v] # None =>
         (pc'[d] = "clear" /\ arg'[d] = v <=> pc[d] = "clear" /\ arg[d] = v)
  BY GcGivesUp
<1>5. /\ Owner' = Abstract!Freed(Idle) /\ Passed' = Abstract!Cleared(Idle)
      /\ Stale' = Stale \ Idle
  BY <1>1, <1>2, <1>3, <1>4, Frees
<1>6. waiting' \subseteq waiting
  OBVIOUS
<1>7. Gone' \cap waiting' = Abstract!Vain(Idle) \cap waiting'
  BY <1>6, GcGivesUp
<1>8. QED
  BY <1>5, <1>7, GcGivesUp, GiveUp

\* A call that ends an upload after the collection and tells its owner.
LEMMA EndStep ==
  ASSUME IInv, open' = open, NEW u \in Id, Gc[u] # None,
         waiting' = waiting \ {<<Gc[u].owner, u>>},
         Gone' \cap waiting' = (Gone \cup Collected) \cap waiting',
         \A v \in Id : uploads'[v] = IF v = u THEN None ELSE Gc[v],
         \A d \in Conn, v \in Id \ {u} :
             pc'[d] = "clear" /\ arg'[d] = v <=> pc[d] = "clear" /\ arg[d] = v
  PROVE  Abstract!Next
<1>1. \A v \in Id \cap (Idle \cup {u}) : uploads'[v] = None
  BY GcGivesUp
<1>2. \A v \in Id \ (Idle \cup {u}) : uploads'[v] = uploads[v]
  BY GcGivesUp
<1>3. /\ Owner' = Abstract!Freed(Idle \cup {u})
      /\ Passed' = Abstract!Cleared(Idle \cup {u})
      /\ Stale' = Stale \ (Idle \cup {u})
  BY <1>1, <1>2, Frees
<1>4. Gone' \cap waiting' = Abstract!Vain(Idle) \cap waiting'
  BY GcGivesUp
<1>5. u \in Abstract!Held \ Idle /\ Owner[u] = Gc[u].owner
  BY GcGivesUp DEF Keys, Owner
<1>6. Abstract!End(Idle, u)
  BY <1>3, <1>4, <1>5 DEF Abstract!End
<1>7. QED
  BY <1>5, <1>6, GcGivesUp DEF Abstract!Next

\* A call that leaves slots, owners and counts alone; upload u may become stale.
LEMMA ExpireStep ==
  ASSUME IInv, UNCHANGED <<open, waiting, Gone>>, NEW u \in Id,
         \A v \in Id : /\ uploads'[v] = None <=> uploads[v] = None
                       /\ uploads[v] # None =>
                               /\ uploads'[v].owner = uploads[v].owner
                               /\ uploads'[v].bytes = uploads[v].bytes
                               /\ uploads[v].idle => uploads'[v].idle
                               /\ uploads'[v].idle /\ v # u => uploads[v].idle,
         \A d \in Conn, v \in Id :
             /\ pc[d] = "clear" /\ arg[d] = v => pc'[d] = "clear" /\ arg'[d] = v
             /\ pc'[d] = "clear" /\ arg'[d] = v /\ v # u => pc[d] = "clear" /\ arg[d] = v
  PROVE  Abstract!Next \/ UNCHANGED Abstract!vars
<1>1. Owner' = Owner /\ Passed' = Passed
  BY DEF Owner, Passed
<1>2. \A v \in Id : /\ v \in Stale => v \in Stale'
                    /\ v \in Stale' /\ v # u => v \in Stale
  BY DEF Stale, Keys
<1>3. Stale \subseteq Id /\ Stale' \subseteq Id
  BY DEF Stale, Keys
<1>4. CASE u \in Stale'
  <2>1. u \in Abstract!Held
    BY <1>4, GcGivesUp DEF Stale, Keys
  <2>2. Stale' = Stale \cup {u}
    BY <1>2, <1>3, <1>4
  <2>3. Abstract!Expire(u)
    BY <1>1, <2>2 DEF Abstract!Expire
  <2>4. QED
    BY <2>1, <2>3 DEF Abstract!Next
<1>5. CASE u \notin Stale'
  <2>1. Stale' = Stale
    BY <1>2, <1>3, <1>5
  <2>2. QED
    BY <1>1, <2>1 DEF Abstract!vars
<1>6. QED
  BY <1>4, <1>5

\* begin_upload: a free id and slot, that of an idle upload included.
LEMMA BeginGrants ==
  ASSUME IInv, NEW c \in Conn, NEW u \in Id, NEW kind \in Kind, NEW size \in Sizes,
         UploadBegin(c, u, kind, size)
  PROVE  Abstract!Next
<1> DEFINE e == [owner |-> c, size |-> size, bytes |-> 0, idle |-> FALSE,
                 finished |-> FALSE, buffer |-> None, sent |-> 0, taken |-> 0]
<1>0. Gc \in Table
  BY GcSound
<1>1. e.owner = c /\ e.bytes = 0 /\ ~e.idle /\ e # None
  <2>1. e \in Entry
    BY UploadsAssumption DEF Entry
  <2>2. QED
    BY <2>1, UploadsAssumption DEF Entry, Conn
<1>2. \A v \in Id : uploads'[v] = IF v = u THEN e ELSE Gc[v]
  BY <1>0 DEF UploadBegin, Table
<1> HIDE DEF e
<1>3. c \in open /\ Gc[u] = None /\ (u \in Idle \/ uploads[u] = None)
  BY GcGivesUp DEF UploadBegin, Reads, Refused
<1>4. /\ Owner' = [Abstract!Freed(Idle) EXCEPT ![u] = c]
      /\ Passed' = [Abstract!Cleared(Idle) EXCEPT ![u] = 0]
  <2>1. \A v \in Id :
          /\ Owner'[v] = IF v = u THEN c ELSE IF v \in Idle THEN None ELSE Owner[v]
          /\ Passed'[v] = IF v = u THEN 0 ELSE IF v \in Idle THEN 0 ELSE Passed[v]
    BY <1>1, <1>2, GcGivesUp DEF Owner, Passed
  <2>2. Owner' = [v \in Id |-> Owner'[v]] /\ Passed' = [v \in Id |-> Passed'[v]]
    BY DEF Owner, Passed
  <2>3. QED
    BY <2>1, <2>2 DEF Abstract!Freed, Abstract!Cleared
<1>5. Stale' \in {Stale \ Idle, (Stale \ Idle) \cup {u}}
  <2>1. \A d \in Conn, v \in Id :
           pc'[d] = "clear" /\ arg'[d] = v <=> pc[d] = "clear" /\ arg[d] = v
    BY DEF UploadBegin, Goto, Reads, IInv, TypeOK
  <2>2. \A v \in Id \ {u} : v \in Stale' <=> v \in Stale /\ v \notin Idle
    BY <1>2, <2>1, GcGivesUp DEF Stale, Keys, Idle
  <2>3. u \notin Stale \ Idle
    BY <1>3 DEF Stale, Keys
  <2>4. Stale \subseteq Id /\ Stale' \subseteq Id
    BY DEF Stale, Keys
  <2>5. QED
    BY <2>2, <2>3, <2>4
<1>6. Cardinality(Abstract!Held \ Idle) < MaxActive
  <2>1. Cardinality(Keys(Gc)) \in Nat
    BY GcSound, FS_CardinalityType DEF Sound
  <2>2. Cardinality(Keys(Gc)) < MaxActive
    BY <2>1, UploadsAssumption DEF UploadBegin, Refused
  <2>3. QED
    BY <2>2, GcGivesUp
<1>7. Abstract!Cardinality(Abstract!Held \ Idle) = Cardinality(Abstract!Held \ Idle)
  BY DEF Abstract!Cardinality, Cardinality
<1>8. /\ open' = open
      /\ Gone' = (Gone \cup Collected) \ {<<c, u>>}
      /\ waiting' = waiting \cup ({<<c, u>>} \cap (Client \X Id))
  BY DEF UploadBegin
<1>9. waiting' = IF c \in Client THEN waiting \cup {<<c, u>>} ELSE waiting
  BY <1>8
<1>10. Gone' \cap waiting' = (Abstract!Vain(Idle) \cap waiting) \ {<<c, u>>}
  BY <1>8, GcGivesUp
<1>11. Owner[u] = None \/ u \in Idle
  BY <1>3 DEF Owner
<1>12. Abstract!Vain(Idle \cup (Abstract!Held \cap {u})) = Abstract!Vain(Idle)
  <2>1. Abstract!Held \cap {u} \subseteq Idle
    BY <1>11 DEF Abstract!Held
  <2>2. Idle \cup (Abstract!Held \cap {u}) = Idle
    BY <2>1
  <2>3. QED
    BY <2>2
<1>13. Abstract!Grant(Idle, c, u)
  BY <1>4, <1>5, <1>6, <1>7, <1>8, <1>9, <1>10, <1>11, <1>12 DEF Abstract!Grant
<1>14. QED
  BY <1>3, <1>13, GcGivesUp DEF Abstract!Next

\* record_upload_chunk: Forward.
LEMMA ForwardPasses ==
  ASSUME IInv, NEW c \in Conn, NEW u \in Id, ChunkForward(c, u)
  PROVE  Abstract!Next
<1> DEFINE g == Gc[u]
           n == IF g.owner = c THEN g.sent + 1 ELSE g.sent
           b == IF g.buffer = None THEN None ELSE g.buffer + 1
           e == [g EXCEPT !.bytes = g.bytes + 1, !.idle = FALSE, !.sent = n, !.buffer = b]
<1>0. Gc \in Table /\ g # None /\ g \in Entry
  <2>1. Gc \in Table
    BY GcSound
  <2>2. QED
    BY <2>1 DEF ChunkForward, Takes, Owns, Table
<1>1. \A v \in Id : uploads'[v] = IF v = u THEN e ELSE Gc[v]
  BY <1>0 DEF ChunkForward, GcThen, Table, Entry
<1>2. e.owner = g.owner /\ e.bytes = g.bytes + 1 /\ e.idle = FALSE /\ e # None
  <2> DEFINE m == g.bytes + 1
  <2>1. m \in Nat /\ n \in Nat /\ b \in Nat \cup {None}
    BY <1>0, UploadsAssumption DEF Entry
  <2>2. e = [g EXCEPT !.bytes = m, !.idle = FALSE, !.sent = n, !.buffer = b]
    OBVIOUS
  <2> HIDE DEF m, n, b, e, g
  <2>3. e \in Entry /\ e.owner = g.owner /\ e.bytes = m /\ e.idle = FALSE
    BY <1>0, <2>1, <2>2 DEF Entry
  <2>4. e # None
    BY <2>3, UploadsAssumption DEF Entry, Conn
  <2>5. QED
    BY <2>3, <2>4 DEF m
<1> HIDE DEF e, n, b
<1>3. /\ u \in Abstract!Held \ Idle /\ u \notin Idle /\ uploads[u] = g
      /\ Passed[u] = g.bytes /\ Owner[u] = g.owner /\ ~g.idle
  BY <1>0, GcGivesUp DEF Keys, Owner, Passed
<1>4. Passed[u] < MaxSize
  BY <1>0, <1>3, UploadsAssumption DEF ChunkForward, Fits, Least, Entry
<1> HIDE DEF g
<1>5. /\ Owner' = Abstract!Freed(Idle)
      /\ Passed' = [Abstract!Cleared(Idle) EXCEPT ![u] = @ + 1]
  <2>1. \A v \in Id :
          /\ Owner'[v] = IF v \in Idle THEN None ELSE Owner[v]
          /\ Passed'[v] = IF v = u THEN Passed[u] + 1
                          ELSE IF v \in Idle THEN 0 ELSE Passed[v]
    BY <1>0, <1>1, <1>2, <1>3, GcGivesUp DEF Owner, Passed
  <2>2. Owner' = [v \in Id |-> Owner'[v]] /\ Passed' = [v \in Id |-> Passed'[v]]
    BY DEF Owner, Passed
  <2>3. QED
    BY <1>3, <2>1, <2>2 DEF Abstract!Freed, Abstract!Cleared
<1>6. /\ open' = open /\ waiting' = waiting /\ Gone' = Gone \cup Collected
      /\ pc' = pc /\ arg' = arg
  BY DEF ChunkForward, GcThen, calls
<1>7. Stale' = Stale \ Idle
  <2>1. \A v \in Id : v \in Stale' <=> v \in Stale /\ v \notin Idle
    BY <1>0, <1>1, <1>2, <1>3, <1>6, GcGivesUp DEF Stale, Keys, Idle
  <2>2. Stale \subseteq Id /\ Stale' \subseteq Id
    BY DEF Stale, Keys
  <2>3. QED
    BY <2>1, <2>2
<1>8. Gone' \cap waiting' = Abstract!Vain(Idle) \cap waiting
  BY <1>6, GcGivesUp
<1>9. Abstract!Pass(Idle, u)
  BY <1>4, <1>5, <1>6, <1>7, <1>8 DEF Abstract!Pass
<1>10. QED
  BY <1>3, <1>9, GcGivesUp DEF Abstract!Next

\* resolve_upload by the relay itself: it ends an upload of its own, or gives
\* up the stale one that another connection has begun under the id.
LEMMA ClearEnds ==
  ASSUME IInv, NEW c \in Conn, Clear(c)
  PROVE  Abstract!Next
<1> DEFINE u == arg[c]
           l == Gone \cup Collected
<1>0. /\ Gc \in Table /\ Sound(Gc, waiting, l, open)
      /\ waiting \subseteq Client \X Id
  BY GcSound DEF IInv, TypeOK
<1>1. /\ pc[c] = "clear" /\ u \in Id /\ open' = open
      /\ waiting' = waiting \ {<<c, u>>}
      /\ Gone' = l \cup OthersWaiting(c, u)
  BY DEF Clear, Result, IInv, Fresh
<1>2. \A v \in Id : uploads'[v] = IF v = u THEN None ELSE Gc[v]
  BY <1>0 DEF Clear, Table
<1>3. \A d \in Conn, v \in Id \ {u} :
         pc'[d] = "clear" /\ arg'[d] = v <=> pc[d] = "clear" /\ arg[d] = v
  BY <1>1, UploadsAssumption DEF Clear, Return, Goto, IInv, TypeOK
<1>4. \A p \in waiting : p[1] # c /\ p[2] = u =>
         \/ Gc[u] # None /\ Gc[u].owner = p[1]
         \/ p \in l
  <2> SUFFICES ASSUME NEW p \in waiting, p[1] # c, p[2] = u
               PROVE  (Gc[u] # None /\ Gc[u].owner = p[1]) \/ p \in l
    OBVIOUS
  <2>1. p = <<p[1], p[2]>> /\ p[1] \in Client /\ p[2] \in Id
    BY <1>0
  <2>2. QED
    BY <1>0, <2>1 DEF Sound, Owns
<1> HIDE DEF l
<1>5. CASE Gc[u] = None
  <2>1. Gone' \cap waiting' = l \cap waiting'
    BY <1>1, <1>4, <1>5 DEF OthersWaiting, Owns
  <2>2. \A v \in Id : uploads'[v] = Gc[v]
    BY <1>2, <1>5
  <2>3. QED
    BY <1>1, <1>3, <1>5, <2>1, <2>2, GcGivesUp, CollectStep DEF l
<1>6. CASE Gc[u] # None /\ Gc[u].owner = c
  <2>1. Gone' \cap waiting' = l \cap waiting'
    BY <1>1, <1>4, <1>6 DEF OthersWaiting, Owns
  <2>2. QED
    BY <1>1, <1>2, <1>3, <1>6, <2>1, EndStep DEF l
<1>7. CASE Gc[u] # None /\ Gc[u].owner # c
  <2> DEFINE T == Idle \cup {u}
  <2>1. uploads[u] = Gc[u] /\ Owner[u] = Gc[u].owner /\ u \in Stale
    BY <1>1, <1>7, GcGivesUp DEF Owner, Stale, Keys
  <2>2. \A v \in Id \cap T : uploads'[v] = None
    BY <1>2, GcGivesUp
  <2>3. \A v \in Id \ T : uploads'[v] = uploads[v]
    BY <1>2, GcGivesUp
  <2>4. /\ Owner' = Abstract!Freed(T) /\ Passed' = Abstract!Cleared(T)
        /\ Stale' = Stale \ T
    BY <1>3, <2>2, <2>3, Frees
  <2>5. Abstract!Vain(T) = Abstract!Vain(Idle) \cup {<<Gc[u].owner, u>>}
    BY <2>1 DEF Abstract!Vain
  <2>6. \A p \in waiting : p = <<Gc[u].owner, u>> <=> p[1] = Gc[u].owner /\ p[2] = u
    BY <1>0
  <2>7. Gone' \cap waiting' = Abstract!Vain(T) \cap waiting'
    <3>1. \A p \in waiting' : p \in Gone' <=> p \in l \/ p = <<Gc[u].owner, u>>
      BY <1>1, <1>4, <1>7, <2>6 DEF OthersWaiting, Owns
    <3>2. waiting' \subseteq waiting
      BY <1>1
    <3>3. \A p \in waiting : p \in l <=> p \in Abstract!Vain(Idle)
      BY GcGivesUp DEF l
    <3>4. QED
      BY <2>5, <3>1, <3>2, <3>3
  <2>8. T \subseteq Stale
    BY <2>1, GcGivesUp
  <2>9. QED
    BY <1>1, <2>4, <2>7, <2>8, GiveUp
<1>8. QED
  BY <1>5, <1>6, <1>7

\* begin_upload refuses, or the handler does before it.
LEMMA RefusedAnswers ==
  ASSUME IInv, NEW c \in Conn, NEW u \in Id, NEW kind \in Kind, NEW size \in Sizes,
         UploadRefused(c, u, kind, size)
  PROVE  Abstract!Next
<1>1. /\ waiting' = waiting \ {<<c, u>>} /\ open' = open /\ pc' = pc /\ arg' = arg
  BY DEF UploadRefused, Result, calls
<1>2. CASE UNCHANGED <<uploads, Gone>>
  <2>1. /\ Owner' = Abstract!Freed({}) /\ Passed' = Abstract!Cleared({})
        /\ Stale' = Stale \ {}
    BY <1>1, <1>2, Frees
  <2>2. Gone' \cap waiting' = Abstract!Vain({}) \cap waiting'
    BY <1>1, <1>2 DEF Abstract!Vain
  <2>3. QED
    BY <1>1, <2>1, <2>2, GiveUp
<1>3. CASE GcThen(Gc)
  <2>1. uploads' = Gc /\ Gone' = Gone \cup Collected
    BY <1>3 DEF GcThen
  <2>2. QED
    BY <1>1, <2>1, GcGivesUp, CollectStep
<1>4. QED
  BY <1>2, <1>3 DEF UploadRefused, gone

\* unregister_client, unregister_desktop: the slots of the connection are free.
LEMMA DisconnectFrees ==
  ASSUME IInv, NEW c \in Conn, Disconnect(c)
  PROVE  Abstract!Next
<1> DEFINE S == {u \in Abstract!Held : Owner[u] = c}
<1>1. \A v \in Id : v \in S <=> Owns(uploads, c, v)
  BY GcGivesUp DEF Keys, Owner, Owns
<1>2. \A v \in Id : uploads'[v] = IF v \in S THEN None ELSE uploads[v]
  BY <1>1 DEF Disconnect, Freed
<1> HIDE DEF S
<1>3. pc' = pc /\ arg' = arg
  BY DEF Disconnect, calls
<1>4. /\ Owner' = Abstract!Freed(S) /\ Passed' = Abstract!Cleared(S)
      /\ Stale' = Stale \ S
  BY <1>2, <1>3, Frees
<1>5. /\ open' = open \ {c} /\ waiting' = {p \in waiting : p[1] # c}
      /\ Gone' \cap waiting' = {p \in Gone \cap waiting : p[1] # c}
  BY DEF Disconnect
<1>6. Abstract!Disconnect(c)
  BY <1>4, <1>5 DEF Abstract!Disconnect, S
<1>7. QED
  BY <1>6 DEF Abstract!Next

\* Every step is one of Transfer, or changes nothing there.
LEMMA TransferStep ==
  IInv /\ [Next]_vars => [Abstract!Next]_(Abstract!vars)
<1> SUFFICES ASSUME IInv, [Next]_vars
             PROVE  Abstract!Next \/ UNCHANGED Abstract!vars
  OBVIOUS
<1>0. /\ Gc \in Table /\ uploads \in Table
      /\ \A c \in Conn : pc[c] # "loop" => arg[c] \in Id
      /\ pc \in [Conn -> {"loop", "mark", "tell", "online", "clear", "finish", "end"}]
      /\ arg \in [Conn -> Id \cup {None}]
  BY GcSound DEF IInv, Sound, Fresh, TypeOK
<1>1. ASSUME NEW c \in Conn, NEW u \in Id, ChunkDrop(c, u) PROVE Abstract!Next
  <2>1. /\ uploads' = Gc /\ Gone' = Gone \cup Collected /\ open' = open
        /\ waiting' = waiting /\ pc' = pc /\ arg' = arg
    BY <1>1 DEF ChunkDrop, GcThen, calls
  <2>2. QED
    BY <2>1, GcGivesUp, CollectStep
<1>2. ASSUME NEW c \in Conn, NEW u \in Id, ChunkOverrun(c, u) PROVE Abstract!Next
  <2>1. /\ Gc[u] # None /\ Gc[u].owner = c
        /\ Gone' = Gone \cup Collected /\ open' = open
        /\ waiting' = waiting \ {<<c, u>>} /\ pc' = pc /\ arg' = arg
    BY <1>2 DEF ChunkOverrun, GcThen, Result, Takes, Owns, calls
  <2>2. \A v \in Id : uploads'[v] = IF v = u THEN None ELSE Gc[v]
    BY <1>0, <1>2 DEF ChunkOverrun, GcThen, Table
  <2>3. QED
    BY <2>1, <2>2, EndStep
<1>3. ASSUME NEW u \in Id, UploadResult(u) PROVE Abstract!Next
  <2>1. Gone' = Gone \cup Collected /\ open' = open /\ pc' = pc /\ arg' = arg
    BY <1>3 DEF UploadResult, GcThen, calls
  <2>2. \A v \in Id : uploads'[v] = IF v = u THEN None ELSE Gc[v]
    BY <1>0, <1>3 DEF UploadResult, GcThen, Table
  <2>3. CASE Gc[u] = None
    <3>1. waiting' = waiting
      BY <1>3, <2>3 DEF UploadResult
    <3>2. \A v \in Id : uploads'[v] = Gc[v]
      BY <2>2, <2>3
    <3>3. QED
      BY <2>1, <3>1, <3>2, GcGivesUp, CollectStep
  <2>4. CASE Gc[u] # None
    <3>1. waiting' = waiting \ {<<Gc[u].owner, u>>}
      BY <1>3, <2>4 DEF UploadResult, Result
    <3>2. QED
      BY <2>1, <2>2, <2>4, <3>1, EndStep
  <2>5. QED
    BY <2>3, <2>4
<1>4. ASSUME NEW c \in Conn, Finish(c) PROVE Abstract!Next
  <2> DEFINE u == arg[c]
             e == [Gc[u] EXCEPT !.finished = TRUE, !.idle = FALSE]
  <2>1. /\ Gone' = Gone \cup Collected /\ open' = open /\ waiting' = waiting
        /\ pc[c] = "finish" /\ u \in Id
    BY <1>0, <1>4 DEF Finish, GcThen
  <2>2. \A d \in Conn, v \in Id :
           pc'[d] = "clear" /\ arg'[d] = v <=> pc[d] = "clear" /\ arg[d] = v
    BY <1>0, <1>4, <2>1 DEF Finish, Goto
  <2>3. CASE ~Owns(Gc, c, u)
    <3>1. uploads' = Gc
      BY <1>4, <2>3 DEF Finish, GcThen
    <3>2. QED
      BY <2>1, <2>2, <3>1, GcGivesUp, CollectStep
  <2>4. CASE Owns(Gc, c, u)
    <3>1. Gc[u] # None /\ Gc[u] \in Entry
      BY <1>0, <2>1, <2>4 DEF Owns, Table
    <3>2. e \in Entry /\ e.owner = Gc[u].owner /\ e.bytes = Gc[u].bytes /\ e.idle = FALSE
      BY <3>1 DEF Entry
    <3>3. e # None
      BY <3>2, UploadsAssumption DEF Entry, Conn
    <3>4. \A v \in Id : uploads'[v] = IF v = u THEN e ELSE Gc[v]
      BY <1>0, <1>4, <2>4 DEF Finish, GcThen, Table
    <3> HIDE DEF e
    <3>5. QED
      BY <2>1, <2>2, <3>1, <3>2, <3>3, <3>4, GcGivesUp, CollectStep
  <2>5. QED
    BY <2>3, <2>4
<1>5. ASSUME NEW c \in Conn, Mark(c) PROVE Abstract!Next \/ UNCHANGED Abstract!vars
  <2> DEFINE u == arg[c]
             e == [uploads[u] EXCEPT !.buffer = 0]
  <2>1. UNCHANGED <<open, waiting, Gone>> /\ pc[c] = "mark" /\ u \in Id
    BY <1>0, <1>5 DEF Mark, hist, gone
  <2>2. \A d \in Conn, v \in Id :
           pc'[d] = "clear" /\ arg'[d] = v <=> pc[d] = "clear" /\ arg[d] = v
    BY <1>0, <1>5, <2>1 DEF Mark, Return, Goto
  <2>3. CASE ~Owns(uploads, c, u)
    <3>1. uploads' = uploads
      BY <1>5, <2>3 DEF Mark
    <3>2. QED
      BY <2>1, <2>2, <3>1, ExpireStep
  <2>4. CASE Owns(uploads, c, u)
    <3>1. uploads[u] # None /\ uploads[u] \in Entry
      BY <1>0, <2>1, <2>4 DEF Owns, Table
    <3>2. /\ e \in Entry /\ e.owner = uploads[u].owner /\ e.bytes = uploads[u].bytes
          /\ e.idle = uploads[u].idle
      BY <3>1 DEF Entry
    <3>3. e # None
      BY <3>2, UploadsAssumption DEF Entry, Conn
    <3>4. \A v \in Id : uploads'[v] = IF v = u THEN e ELSE uploads[v]
      BY <1>0, <1>5, <2>4 DEF Mark, Table
    <3> HIDE DEF e
    <3>5. QED
      BY <2>1, <2>2, <3>1, <3>2, <3>3, <3>4, ExpireStep
  <2>5. QED
    BY <2>3, <2>4
<1>6. ASSUME NEW c \in Conn, NEW u \in Id, ReportEnd(c, u)
      PROVE  Abstract!Next \/ UNCHANGED Abstract!vars
  <2> DEFINE g == uploads[u]
             e == [g EXCEPT !.buffer = None, !.taken = @ + 1]
  <2>1. UNCHANGED <<open, waiting, Gone>> /\ pc[c] = "loop"
    BY <1>6 DEF ReportEnd, Reads, gone
  <2>2. \A d \in Conn, v \in Id :
           /\ pc[d] = "clear" /\ arg[d] = v => pc'[d] = "clear" /\ arg'[d] = v
           /\ pc'[d] = "clear" /\ arg'[d] = v /\ v # u => pc[d] = "clear" /\ arg[d] = v
    BY <1>0, <1>6, <2>1 DEF ReportEnd, Goto
  <2>3. g # None /\ g \in Entry
    BY <1>0, <1>6 DEF ReportEnd, Take, Buffered, Owns, Table
  <2>4. e \in Entry /\ e.owner = g.owner /\ e.bytes = g.bytes /\ e.idle = g.idle
    <3> DEFINE n == g.taken + 1
    <3>1. n \in Nat
      BY <2>3 DEF Entry
    <3>2. e = [g EXCEPT !.buffer = None, !.taken = n]
      BY <2>3 DEF Entry
    <3> HIDE DEF n, e, g
    <3>3. QED
      BY <2>3, <3>1, <3>2 DEF Entry
  <2>5. e # None
    BY <2>4, UploadsAssumption DEF Entry, Conn
  <2>6. \A v \in Id : uploads'[v] = IF v = u THEN e ELSE uploads[v]
    BY <1>0, <1>6 DEF ReportEnd, Take, Table
  <2> HIDE DEF e
  <2>7. QED
    BY <2>1, <2>2, <2>3, <2>4, <2>5, <2>6, ExpireStep
<1>7. ASSUME NEW c \in Conn, NEW u \in Id, OtherEnd(c, u)
      PROVE  Abstract!Next \/ UNCHANGED Abstract!vars
  <2>1. UNCHANGED <<open, uploads, waiting, Gone>> /\ pc[c] = "loop"
    BY <1>7 DEF OtherEnd, Reads, hist, gone
  <2>2. \A d \in Conn, v \in Id :
           /\ pc[d] = "clear" /\ arg[d] = v => pc'[d] = "clear" /\ arg'[d] = v
           /\ pc'[d] = "clear" /\ arg'[d] = v /\ v # u => pc[d] = "clear" /\ arg[d] = v
    BY <1>0, <1>7, <2>1 DEF OtherEnd, Goto
  <2>3. QED
    BY <2>1, <2>2, ExpireStep
<1>8. ASSUME NEW c \in Conn, TellBegin(c) \/ AskOnline(c) \/ TellEnd(c)
      PROVE  Abstract!Next \/ UNCHANGED Abstract!vars
  <2> DEFINE u == arg[c]
  <2>1. /\ UNCHANGED <<open, uploads, waiting, Gone>>
        /\ pc[c] \in {"tell", "online", "end"} /\ u \in Id
    BY <1>0, <1>8 DEF TellBegin, AskOnline, TellEnd, hist, gone
  <2>2. \A d \in Conn, v \in Id :
           /\ pc[d] = "clear" /\ arg[d] = v => pc'[d] = "clear" /\ arg'[d] = v
           /\ pc'[d] = "clear" /\ arg'[d] = v /\ v # u => pc[d] = "clear" /\ arg[d] = v
    BY <1>0, <1>8, <2>1 DEF TellBegin, AskOnline, TellEnd, Return, Goto
  <2> HIDE DEF u
  <2>3. QED
    BY <2>1, <2>2, ExpireStep
<1>9. ASSUME NEW u \in Id, GoIdle(u) PROVE Abstract!Next \/ UNCHANGED Abstract!vars
  <2> DEFINE g == uploads[u]
             e == [g EXCEPT !.idle = TRUE]
  <2>1. UNCHANGED <<open, waiting, Gone, pc, arg>>
    BY <1>9 DEF GoIdle, hist, gone, calls
  <2>2. g # None /\ g \in Entry
    BY <1>0, <1>9 DEF GoIdle, Table
  <2>3. e \in Entry /\ e.owner = g.owner /\ e.bytes = g.bytes /\ e.idle = TRUE
    BY <2>2 DEF Entry
  <2>4. e # None
    BY <2>3, UploadsAssumption DEF Entry, Conn
  <2>5. \A v \in Id : uploads'[v] = IF v = u THEN e ELSE uploads[v]
    BY <1>0, <1>9 DEF GoIdle, Table
  <2> HIDE DEF e
  <2>6. QED
    BY <2>1, <2>2, <2>3, <2>4, <2>5, ExpireStep
<1>10. ASSUME NEW c \in Conn, Connect(c) PROVE Abstract!Next
  <2>1. Abstract!Connect(c)
    BY <1>10 DEF Connect, Abstract!Connect, Owner, Passed, Stale, Keys, hist, gone, calls
  <2>2. QED
    BY <2>1 DEF Abstract!Next, Conn
<1>11. CASE UNCHANGED vars
  BY <1>11 DEF vars, hist, gone, calls, Abstract!vars, Owner, Passed, Stale, Keys
<1>12. QED
  BY <1>1, <1>2, <1>3, <1>4, <1>5, <1>6, <1>7, <1>8, <1>9, <1>10, <1>11, BeginGrants,
     ForwardPasses, ClearEnds, RefusedAnswers, DisconnectFrees DEF Next

\* The upload table with its interleaved handlers implements the governed
\* transfer of Transfer, for any clients, ids, declared sizes and limits.
THEOREM TransferImplemented == Spec => ImplementsTransfer
<1>1. Init => Abstract!Init
  BY DEF Init, Abstract!Init, Owner, Passed, Stale, Keys, Conn
<1>2. QED
  BY <1>1, TransferStep, IInvAlways, PTL DEF Spec, ImplementsTransfer, Abstract!Spec

=============================================================================
