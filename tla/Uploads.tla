------------------------------- MODULE Uploads -------------------------------
(***************************************************************************)
(* File uploads of clients and bug-report uploads of the desktop: the      *)
(* governance table uploads with begin_upload, mark_bug_report_upload,     *)
(* take_bug_report_buffer, record_upload_chunk, finish_upload and          *)
(* resolve_upload (broker.rs), and the handlers that call them             *)
(* (server.rs).                                                            *)
(*                                                                         *)
(* A handler makes one broker call after the other and everything else     *)
(* runs in between; pc says which call comes next.  Every chunk has one    *)
(* byte.  The desktop program is outside the repository: it sends one      *)
(* result for an upload it was told of, at any time.                       *)
(***************************************************************************)
EXTENDS Naturals, FiniteSets

CONSTANTS
  Client,     \* client sockets
  Desk,       \* the desktop's socket
  Id,         \* upload ids; both ends choose them freely
  MaxActive,  \* MAX_ACTIVE_UPLOADS
  MaxSize,    \* MAX_UPLOAD_SIZE
  MaxReport,  \* MAX_BUG_REPORT_UPLOAD_SIZE
  Sizes,      \* bound of the model: the sizes that are declared
  None

ASSUME UploadsAssumption ==
  /\ Desk \notin Client
  /\ MaxActive \in Nat \ {0} /\ MaxSize \in Nat /\ MaxReport \in Nat
  /\ Sizes \subseteq Nat
  /\ None \notin Id \cup Client \cup {Desk} \cup Nat
  /\ None \notin [owner : Client \cup {Desk}, size : Nat, bytes : Nat,
                 idle : BOOLEAN, finished : BOOLEAN,
                 buffer : Nat \cup {None}, sent : Nat, taken : Nat]

Conn == Client \cup {Desk}
Kind == {"file", "bug_report"}

VARIABLES
  open,      \* sockets that are connected; for Desk: a desktop is registered
  pc, arg,   \* the broker call each handler makes next, and its upload
  uploads,   \* AccountState.uploads
  told,      \* uploads the connected desktop knows and has not answered
  waiting,   \* history: <<client, upload>> begun and without a result so far
  lost,      \* history: <<client, upload>> whose entry was collected as idle
  ousted     \* history: <<client, upload>> whose entry another connection removed

calls == <<pc, arg>>
gone  == <<lost, ousted>>
hist  == <<waiting, gone>>
vars  == <<open, calls, uploads, told, hist>>

\* buffer is None for an upload that is not (or no longer) buffered.  History:
\* sent, what the owner has sent since its begin was accepted, and taken, how
\* often the buffer was taken for persistence.
Entry == [owner : Conn, size : Nat, bytes : Nat, idle : BOOLEAN,
          finished : BOOLEAN, buffer : Nat \cup {None}, sent : Nat, taken : Nat]

Keys(t) == {u \in Id : t[u] # None}

\* Type correctness.
TypeOK ==
  /\ open \subseteq Conn
  /\ pc \in [Conn -> {"loop", "mark", "tell", "online", "clear", "finish", "end"}]
  /\ arg \in [Conn -> Id \cup {None}]
  /\ uploads \in [Id -> Entry \cup {None}]
  /\ told \subseteq Id
  /\ waiting \subseteq Client \X Id
  /\ lost \subseteq Client \X Id /\ ousted \subseteq Client \X Id

Init ==
  /\ open = Client
  /\ pc = [c \in Conn |-> "loop"] /\ arg = [c \in Conn |-> None]
  /\ uploads = [u \in Id |-> None]
  /\ told = {}
  /\ waiting = {} /\ lost = {} /\ ousted = {}

Least(m, n) == IF m <= n THEN m ELSE n

Online == Desk \in open

Reads(c) == c \in open /\ pc[c] = "loop"

Goto(c, l, u) ==
  /\ pc' = [pc EXCEPT ![c] = l]
  /\ arg' = [arg EXCEPT ![c] = u]

Return(c) == Goto(c, "loop", None)

\* gc_uploads
Gc == [u \in Id |-> IF uploads[u] # None /\ uploads[u].idle THEN None
                    ELSE uploads[u]]

\* The entries gc_uploads drops, as <<client, upload>>.
Collected == {<<uploads[u].owner, u>> : u \in {v \in Keys(uploads) : uploads[v].idle}}
               \cap (Client \X Id)

\* Every call but mark and take collects first.
GcThen(t) == uploads' = t /\ lost' = lost \cup Collected /\ UNCHANGED ousted

\* A result, of the desktop or of the relay, goes to connection c.
Result(c, u) == waiting' = waiting \ {<<c, u>>}

\* The upload u of connection c, in a table.
Owns(t, c, u) == t[u] # None /\ t[u].owner = c

-----------------------------------------------------------------------------
(* file_upload_begin                                                       *)

\* A begin of anything but a report is ignored if it comes from a desktop.
Accepts(c, kind) == c = Desk => kind = "bug_report"

\* Mutant: an id that is in use is not refused.
RefusedUnlessFull(u, size) ==
  \/ size > MaxSize
  \/ Cardinality(Keys(Gc)) >= MaxActive

\* What begin_upload refuses: a large file, no free slot, an id in use.
Refused(u, size) ==
  \/ size > MaxSize
  \/ Cardinality(Keys(Gc)) >= MaxActive
  \/ Gc[u] # None

\* Reports beyond their own limit are refused before begin_upload.
Oversized(kind, size) == kind = "bug_report" /\ size > MaxReport

\* A refusal is answered with a failure result (to a client).
UploadRefused(c, u, kind, size) ==
  /\ Reads(c) /\ Accepts(c, kind)
  /\ \/ Oversized(kind, size) /\ UNCHANGED <<uploads, gone>>
     \/ ~Oversized(kind, size) /\ Refused(u, size) /\ GcThen(Gc)
  /\ Result(c, u)
  /\ UNCHANGED <<open, calls, told>>

UploadBegin(c, u, kind, size) ==
  /\ Reads(c) /\ Accepts(c, kind)
  /\ ~Oversized(kind, size) /\ ~Refused(u, size)
  /\ uploads' = [Gc EXCEPT ![u] =
                   [owner |-> c, size |-> size, bytes |-> 0, idle |-> FALSE,
                    finished |-> FALSE, buffer |-> None, sent |-> 0, taken |-> 0]]
  /\ lost' = (lost \cup Collected) \ {<<c, u>>}
  /\ ousted' = ousted \ {<<c, u>>}
  /\ waiting' = waiting \cup ({<<c, u>>} \cap (Client \X Id))
  /\ Goto(c, IF kind = "bug_report" THEN "mark" ELSE "tell", u)
  /\ UNCHANGED <<open, told>>

\* mark_bug_report_upload
Mark(c) ==
  LET u == arg[c] IN
  /\ pc[c] = "mark"
  /\ uploads' = IF Owns(uploads, c, u) THEN [uploads EXCEPT ![u].buffer = 0]
                ELSE uploads
  /\ IF c = Desk THEN Return(c) ELSE Goto(c, "tell", u)
  /\ UNCHANGED <<open, told, hist>>

\* send_to_desktop of the begin; without a desktop it goes nowhere.
TellBegin(c) ==
  /\ pc[c] = "tell"
  /\ told' = IF Online THEN told \cup {arg[c]} ELSE told
  /\ Return(c)
  /\ UNCHANGED <<open, uploads, hist>>

-----------------------------------------------------------------------------
(* PTY_FILE_CHUNK: record_upload_chunk                                     *)

\* Mutant: the owner of the upload is not compared.
TakesAnyOwner(c, u) == Gc[u] # None /\ ~Gc[u].finished

\* An active upload of this connection; other chunks are dropped.
Takes(c, u) == Owns(Gc, c, u) /\ ~Gc[u].finished

\* Mutant: one byte too many fits.
FitsOneMore(e) == e.bytes <= Least(e.size, MaxSize)

Fits(e) == e.bytes + 1 <= Least(e.size, MaxSize)

ChunkDrop(c, u) ==
  /\ Reads(c)
  /\ ~Takes(c, u)
  /\ GcThen(Gc)
  /\ UNCHANGED <<open, calls, told, waiting>>

\* The chunk goes to the desktop (if the sender is not the desktop itself).
ChunkForward(c, u) ==
  /\ Reads(c) /\ Takes(c, u) /\ Fits(Gc[u])
  /\ GcThen([Gc EXCEPT ![u].bytes = @ + 1, ![u].idle = FALSE,
                        ![u].sent = IF Gc[u].owner = c THEN @ + 1 ELSE @,
                        ![u].buffer = IF @ = None THEN None ELSE @ + 1])
  /\ UNCHANGED <<open, calls, told, waiting>>

\* Mutant: the upload is severed and its owner not told.
ChunkOverrunSilent(c, u) ==
  /\ Reads(c) /\ Takes(c, u) /\ ~Fits(Gc[u])
  /\ GcThen([Gc EXCEPT ![u] = None])
  /\ UNCHANGED <<open, calls, told, waiting>>

\* The upload is severed; a client gets a failure result.
ChunkOverrun(c, u) ==
  /\ Reads(c) /\ Takes(c, u) /\ ~Fits(Gc[u])
  /\ GcThen([Gc EXCEPT ![u] = None])
  /\ Result(c, u)
  /\ UNCHANGED <<open, calls, told>>

-----------------------------------------------------------------------------
(* file_upload_end                                                         *)

\* A report of this connection, not taken yet.
Buffered(c, u) == Owns(uploads, c, u) /\ uploads[u].buffer # None

\* Mutant: the buffer is copied instead of taken.
TakeCopies(c, u) ==
  /\ Buffered(c, u)
  /\ uploads' = [uploads EXCEPT ![u].taken = Least(@ + 1, 2)]

\* take_bug_report_buffer returns the buffer.
Take(c, u) ==
  /\ Buffered(c, u)
  /\ uploads' = [uploads EXCEPT ![u].buffer = None, ![u].taken = @ + 1]

\* The end of a report: take the buffer and persist it.  What persist_bug_report
\* does with it, and whether it fails, the rest of the handler does not see.
ReportEnd(c, u) ==
  /\ Reads(c)
  /\ Take(c, u)
  /\ Goto(c, IF c = Desk THEN "clear" ELSE "online", u)
  /\ UNCHANGED <<open, told, waiting, gone>>

\* Any other end, that of a report collected meanwhile included.
OtherEnd(c, u) ==
  /\ Reads(c)
  /\ ~Buffered(c, u)
  /\ Goto(c, IF c = Desk THEN "clear" ELSE "finish", u)
  /\ UNCHANGED <<open, uploads, told, hist>>

\* is_desktop_online, asked for a persisted report only.
AskOnline(c) ==
  /\ pc[c] = "online"
  /\ Goto(c, IF Online THEN "finish" ELSE "clear", arg[c])
  /\ UNCHANGED <<open, uploads, told, hist>>

\* Whoever waits for the upload u, if another connection than c owns it.
OthersWaiting(c, u) == {p \in waiting : p[1] # c /\ p[2] = u /\ Owns(Gc, p[1], u)}

\* resolve_upload by the relay itself: the desktop is the endpoint of its own
\* report, and a client without a desktop gets a synthesized success.  The
\* owner is not compared: the upload of another connection under this id goes,
\* and its owner is not told.
Clear(c) ==
  LET u == arg[c] IN
  /\ pc[c] = "clear"
  /\ uploads' = [Gc EXCEPT ![u] = None]
  /\ lost' = lost \cup Collected
  /\ ousted' = ousted \cup OthersWaiting(c, u)
  /\ Result(c, u)
  /\ Return(c)
  /\ UNCHANGED <<open, told>>

\* finish_upload
Finish(c) ==
  LET u == arg[c] IN
  /\ pc[c] = "finish"
  /\ GcThen(IF Owns(Gc, c, u)
              THEN [Gc EXCEPT ![u].finished = TRUE, ![u].idle = FALSE]
              ELSE Gc)
  /\ Goto(c, "end", u)
  /\ UNCHANGED <<open, told, waiting>>

\* send_to_desktop of the end: no state of the relay changes.
TellEnd(c) ==
  /\ pc[c] = "end"
  /\ Return(c)
  /\ UNCHANGED <<open, uploads, told, hist>>

-----------------------------------------------------------------------------
(* Results, time, connections                                              *)

\* file_upload_result: resolve_upload, and the result goes to the owner; for an
\* unknown upload it is dropped.
UploadResult(u) ==
  /\ Reads(Desk)
  /\ u \in told
  /\ told' = told \ {u}
  /\ GcThen([Gc EXCEPT ![u] = None])
  /\ IF Gc[u] = None THEN UNCHANGED waiting ELSE Result(Gc[u].owner, u)
  /\ UNCHANGED <<open, calls>>

\* UPLOAD_IDLE_TIMEOUT_SECS pass without a message for the upload.
GoIdle(u) ==
  /\ uploads[u] # None /\ ~uploads[u].idle
  /\ uploads' = [uploads EXCEPT ![u].idle = TRUE]
  /\ UNCHANGED <<open, calls, told, hist>>

\* The uploads after the cleanup of connection c.
Freed(c) == [u \in Id |-> IF Owns(uploads, c, u) THEN None ELSE uploads[u]]

\* unregister_client, unregister_desktop
Disconnect(c) ==
  /\ Reads(c)
  /\ open' = open \ {c}
  /\ uploads' = Freed(c)
  /\ told' = IF c = Desk THEN {} ELSE told
  /\ waiting' = {p \in waiting : p[1] # c}
  /\ lost' = {p \in lost : p[1] # c} /\ ousted' = {p \in ousted : p[1] # c}
  /\ UNCHANGED calls

\* register_desktop, register_client: a fresh socket, for nothing refers to the
\* name of a closed one.
Connect(c) ==
  /\ c \notin open
  /\ open' = open \cup {c}
  /\ UNCHANGED <<calls, uploads, told, hist>>

Next ==
  \/ \E c \in Conn :
       \/ Mark(c) \/ TellBegin(c) \/ AskOnline(c) \/ Clear(c) \/ Finish(c)
       \/ TellEnd(c) \/ Connect(c) \/ Disconnect(c)
       \/ \E u \in Id :
            \/ ChunkDrop(c, u) \/ ChunkForward(c, u) \/ ChunkOverrun(c, u)
            \/ ReportEnd(c, u) \/ OtherEnd(c, u)
            \/ \E kind \in Kind, size \in Sizes :
                 UploadRefused(c, u, kind, size) \/ UploadBegin(c, u, kind, size)
  \/ \E u \in Id : UploadResult(u) \/ GoIdle(u)

Spec == Init /\ [][Next]_vars

-----------------------------------------------------------------------------
(* Properties                                                              *)

\* Governance: no more uploads than slots, none beyond its declared size or the
\* maximum, and no slot held for a connection that is gone, whatever begins,
\* retries, timeouts and disconnects came before.
Governed ==
  /\ Cardinality(Keys(uploads)) <= MaxActive
  /\ \A u \in Keys(uploads) :
       /\ uploads[u].bytes <= Least(uploads[u].size, MaxSize)
       /\ uploads[u].owner \in open

\* A persisted report is whole and its own: what is handed to
\* persist_bug_report is every byte the reporter sent since its begin was
\* accepted, and nothing another connection sent under the same id.
ReportWhole ==
  [][\A c \in Conn, u \in Id :
       ReportEnd(c, u) => uploads[u].buffer = uploads[u].sent]_vars

\* A report is taken for persistence once, however often its end is repeated.
ReportOnce == \A u \in Keys(uploads) : uploads[u].taken <= 1

\* No upload ends in silence: a connected client without a result has its entry
\* in the table, where the desktop's result will find it.  Two ends are silent in
\* the code: gc_uploads drops an upload that was idle for too long (lost), and
\* resolve_upload, called for the file_upload_end of the desktop or of another
\* client's report under the same id, removes an upload in progress (ousted).
\* No other way out of the table leaves its owner waiting.
NoSilentEnd ==
  \A p \in waiting : \/ Owns(uploads, p[1], p[2])
                     \/ p \in lost
                     \/ p \in ousted

\* The table as Transfer sees it.  An entry may be given up if it is idle, or if
\* resolve_upload is about to be called for another connection under its id.
Owner  == [u \in Id |-> IF uploads[u] = None THEN None ELSE uploads[u].owner]
Passed == [u \in Id |-> IF uploads[u] = None THEN 0 ELSE uploads[u].bytes]
Stale  == {u \in Keys(uploads) :
             \/ uploads[u].idle
             \/ \E c \in Conn : pc[c] = "clear" /\ arg[c] = u /\ uploads[u].owner # c}

Abstract == INSTANCE Transfer WITH
  Waiter <- Client, Ident <- Id, Exclusive <- TRUE, live <- open, owner <- Owner,
  passed <- Passed, stale <- Stale, waits <- waiting,
  vain <- (lost \cup ousted) \cap waiting

\* Uploads implement Transfer, call by call: while it is held a slot keeps its
\* owner and its count, begin_upload grants only free ids and slots, and a slot
\* is given back with an answer to its owner, with the owner's disconnect, or
\* as stale.
ImplementsTransfer == Abstract!Spec

=============================================================================
