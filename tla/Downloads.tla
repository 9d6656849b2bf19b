------------------------------ MODULE Downloads ------------------------------
(***************************************************************************)
(* File downloads, desktop to client: the governance table downloads with  *)
(* register_download, note_download_begin, record_download_chunk and       *)
(* resolve_download (broker.rs), and the handlers that call them           *)
(* (server.rs).                                                            *)
(*                                                                         *)
(* Registration and forward of a request are two broker calls, and other   *)
(* handlers run in between.  Every chunk has one byte.  The programs at    *)
(* both ends are outside the repository: a client asks for any id at any   *)
(* time; a desktop streams what it was asked for, in any order, and goes   *)
(* on when the relay has given the download up.  Its messages name the id  *)
(* only, and the relay sends them to whoever has the entry of that id.     *)
(***************************************************************************)
EXTENDS Naturals, FiniteSets

CONSTANTS
  Client,     \* client sockets; each is connected once
  Id,         \* download ids
  MaxActive,  \* MAX_ACTIVE_DOWNLOADS
  MaxSize,    \* MAX_DOWNLOAD_SIZE
  Sizes,      \* bound of the model: the sizes a desktop declares
  None

ASSUME DownloadsAssumption ==
  /\ MaxActive \in Nat \ {0} /\ MaxSize \in Nat
  /\ Sizes \subseteq Nat
  /\ None \notin Id \cup Client \cup Nat
  /\ None \notin [owner : Client, size : Nat \cup {None}, bytes : Nat,
                 idle : BOOLEAN]

VARIABLES
  open,       \* client sockets that are connected
  pc,         \* the download each client handler is about to forward, or None
  online,     \* a desktop is registered
  streams,    \* <<client, download>> a desktop was asked for and has not ended
  downloads,  \* AccountState.downloads
  waiting,    \* history: <<client, download>> requested and not ended
  lost,       \* history: those of them whose entry was collected as idle
  ousted,     \* history: those whose entry another client's request replaced
  reused      \* history: ids requested while they were in use

gone == <<lost, ousted>>
hist == <<waiting, gone, reused>>
vars == <<open, pc, online, streams, downloads, hist>>

\* size is None until file_download_begin has passed.
Entry == [owner : Client, size : Nat \cup {None}, bytes : Nat, idle : BOOLEAN]

Keys(t) == {u \in Id : t[u] # None}

\* Type correctness.
TypeOK ==
  /\ open \subseteq Client
  /\ pc \in [Client -> Id \cup {None}]
  /\ online \in BOOLEAN
  /\ streams \subseteq Client \X Id
  /\ downloads \in [Id -> Entry \cup {None}]
  /\ waiting \subseteq Client \X Id
  /\ lost \subseteq Client \X Id /\ ousted \subseteq Client \X Id
  /\ reused \subseteq Id

Init ==
  /\ open = Client
  /\ pc = [c \in Client |-> None]
  /\ online = FALSE /\ streams = {}
  /\ downloads = [u \in Id |-> None]
  /\ waiting = {} /\ lost = {} /\ ousted = {} /\ reused = {}

\* gc_downloads, called first by every operation on the table.
Gc == [u \in Id |-> IF downloads[u] # None /\ downloads[u].idle THEN None
                    ELSE downloads[u]]

Collected ==
  {<<downloads[u].owner, u>> : u \in {v \in Keys(downloads) : downloads[v].idle}}

GcThen(t) == downloads' = t /\ lost' = lost \cup Collected

-----------------------------------------------------------------------------
(* file_download_request                                                   *)

Asks(c) == c \in open /\ pc[c] = None

Full == Cardinality(Keys(Gc)) >= MaxActive

\* The id u is in use when c asks for it: it has an entry, or another client's
\* request for it is on its way to the desktop or being streamed.
InUse(c, u) ==
  \/ Gc[u] # None
  \/ \E d \in Client \ {c} : pc[d] = u \/ <<d, u>> \in streams

Reuse(c, u) == reused' = IF InUse(c, u) THEN reused \cup {u} ELSE reused

\* register_download refuses; the client gets a failure end.
RequestRefused(c, u) ==
  /\ Asks(c) /\ Full
  /\ GcThen(Gc)
  /\ waiting' = waiting \ {<<c, u>>}
  /\ Reuse(c, u)
  /\ UNCHANGED <<open, pc, online, streams, ousted>>

\* register_download accepts; an entry with the same id is replaced, whoever has
\* it, and its owner is not told.
Request(c, u) ==
  /\ Asks(c) /\ ~Full
  /\ downloads' = [Gc EXCEPT ![u] = [owner |-> c, size |-> None, bytes |-> 0,
                                     idle |-> FALSE]]
  /\ waiting' = waiting \cup {<<c, u>>}
  /\ lost' = (lost \cup Collected) \ {<<c, u>>}
  /\ ousted' = (ousted \cup {<<Gc[v].owner, v>> : v \in Keys(Gc) \cap {u}}) \ {<<c, u>>}
  /\ Reuse(c, u)
  /\ pc' = [pc EXCEPT ![c] = u]
  /\ UNCHANGED <<open, online, streams>>

\* send_to_desktop; without a desktop the request goes nowhere.
ForwardRequest(c) ==
  /\ pc[c] # None
  /\ streams' = IF online THEN streams \cup {<<c, pc[c]>>} ELSE streams
  /\ pc' = [pc EXCEPT ![c] = None]
  /\ UNCHANGED <<open, online, downloads, hist>>

-----------------------------------------------------------------------------
(* The desktop's messages, of a stream s.  For an unknown download they    *)
(* are dropped.                                                            *)

\* Where a message of s goes.
Dest(s) == <<Gc[s[2]].owner, s[2]>>

Known(s) == s \in streams /\ Gc[s[2]] # None

\* file_download_end, from the desktop or from the relay, reaches its client.
DeliverEnd(s) == waiting' = waiting \ {Dest(s)}

DropUnknown(s) ==
  /\ s \in streams /\ Gc[s[2]] = None
  /\ GcThen(Gc)
  /\ UNCHANGED <<open, pc, online, streams, waiting, ousted, reused>>

\* Mutant: a begin starts the count of bytes anew.
DownloadBeginAnew(s, size) ==
  /\ Known(s)
  /\ GcThen([Gc EXCEPT ![s[2]].size = size, ![s[2]].bytes = 0, ![s[2]].idle = FALSE])
  /\ UNCHANGED <<open, pc, online, streams, waiting, ousted, reused>>

\* note_download_begin
DownloadBegin(s, size) ==
  /\ Known(s)
  /\ GcThen([Gc EXCEPT ![s[2]].size = size, ![s[2]].idle = FALSE])
  /\ UNCHANGED <<open, pc, online, streams, waiting, ousted, reused>>

Least(m, n) == IF m <= n THEN m ELSE n

\* The next byte is within the declared size and the maximum.
Fits(e) == e.bytes + 1 <= IF e.size = None THEN MaxSize ELSE Least(e.size, MaxSize)

\* record_download_chunk: Forward
ChunkForward(s) ==
  /\ Known(s)
  /\ Fits(Gc[s[2]])
  /\ GcThen([Gc EXCEPT ![s[2]].bytes = @ + 1, ![s[2]].idle = FALSE])
  /\ UNCHANGED <<open, pc, online, streams, waiting, ousted, reused>>

\* Mutant: the download is severed and its owner not told.
ChunkOverrunSilent(s) ==
  /\ Known(s)
  /\ ~Fits(Gc[s[2]])
  /\ GcThen([Gc EXCEPT ![s[2]] = None])
  /\ UNCHANGED <<open, pc, online, streams, waiting, ousted, reused>>

\* Mutant: the owner gets its failure end and the entry is kept.
ChunkOverrunKeeps(s) ==
  /\ Known(s)
  /\ ~Fits(Gc[s[2]])
  /\ GcThen(Gc)
  /\ DeliverEnd(s)
  /\ UNCHANGED <<open, pc, online, streams, ousted, reused>>

\* record_download_chunk: Overrun, the download is severed and its owner gets
\* a failure end.
ChunkOverrun(s) ==
  /\ Known(s)
  /\ ~Fits(Gc[s[2]])
  /\ GcThen([Gc EXCEPT ![s[2]] = None])
  /\ DeliverEnd(s)
  /\ UNCHANGED <<open, pc, online, streams, ousted, reused>>

\* resolve_download
DownloadEnd(s) ==
  /\ s \in streams
  /\ streams' = streams \ {s}
  /\ GcThen([Gc EXCEPT ![s[2]] = None])
  /\ IF Gc[s[2]] = None THEN UNCHANGED waiting ELSE DeliverEnd(s)
  /\ UNCHANGED <<open, pc, online, ousted, reused>>

-----------------------------------------------------------------------------
(* Time and connections                                                    *)

\* UPLOAD_IDLE_TIMEOUT_SECS pass without a message for the download.
GoIdle(u) ==
  /\ downloads[u] # None /\ ~downloads[u].idle
  /\ downloads' = [downloads EXCEPT ![u].idle = TRUE]
  /\ UNCHANGED <<open, pc, online, streams, hist>>

\* Mutant: the cleanup leaves the downloads alone.
FreedNothing(c) == downloads

\* The downloads after the cleanup of connection c.
Freed(c) == [u \in Id |-> IF downloads[u] # None /\ downloads[u].owner = c THEN None
                          ELSE downloads[u]]

\* unregister_client
Disconnect(c) ==
  /\ c \in open /\ pc[c] = None
  /\ open' = open \ {c}
  /\ downloads' = Freed(c)
  /\ waiting' = {p \in waiting : p[1] # c}
  /\ lost' = {p \in lost : p[1] # c} /\ ousted' = {p \in ousted : p[1] # c}
  /\ UNCHANGED <<pc, online, streams, reused>>

\* A desktop registers; one that it evicts may still be streaming.
DesktopRegister ==
  /\ ~online
  /\ online' = TRUE
  /\ UNCHANGED <<open, pc, streams, downloads, hist>>

\* unregister_desktop; it leaves the table alone, and a stale desktop may
\* stream on.
DesktopGone ==
  /\ online
  /\ online' = FALSE
  /\ streams' \in {streams, {}}
  /\ UNCHANGED <<open, pc, downloads, hist>>

Next ==
  \/ \E c \in Client : \/ ForwardRequest(c) \/ Disconnect(c)
                       \/ \E u \in Id : Request(c, u) \/ RequestRefused(c, u)
  \/ \E s \in streams : \/ DropUnknown(s) \/ ChunkForward(s) \/ ChunkOverrun(s)
                        \/ DownloadEnd(s)
                        \/ \E size \in Sizes : DownloadBegin(s, size)
  \/ \E u \in Id : GoIdle(u)
  \/ DesktopRegister \/ DesktopGone

Spec == Init /\ [][Next]_vars

-----------------------------------------------------------------------------
(* Properties                                                              *)

\* Governance: no more downloads than slots, none beyond the maximum, declared
\* or not, and no slot held for a connection that is gone, although the desktop
\* does not know which of its streams the relay has given up.
Governed ==
  /\ Cardinality(Keys(downloads)) <= MaxActive
  /\ \A u \in Keys(downloads) :
       /\ downloads[u].bytes <= MaxSize
       /\ downloads[u].owner \in open

\* A client gets begin, chunks and end of a download only from the stream it
\* asked for, and only while it waits for it: a message of a stream s, which can
\* come at any time, goes nowhere or to the client of s, which still waits.  So
\* nothing comes after an end, and nothing of another client's download.  That
\* holds for every id that was never requested while it was in use.  For one
\* that was, register_download does not compare owners and the desktop's
\* messages name the id only: the streams under it go to whoever asked last.
Solicited ==
  \A s \in streams : Known(s) => \/ Dest(s) = s /\ s \in waiting
                                 \/ s[2] \in reused

\* No download ends in silence: a client that waits has its entry in the table,
\* where the desktop's end will find it.  Two ends are silent in the code:
\* gc_downloads drops a download that was idle for too long (lost), and
\* register_download replaces the entry of another client under the same id
\* (ousted).  No other way out of the table leaves its owner waiting.
NoSilentEnd ==
  \A p \in waiting : \/ downloads[p[2]] # None /\ downloads[p[2]].owner = p[1]
                     \/ p \in lost
                     \/ p \in ousted

\* The table as Transfer sees it.
Owner  == [u \in Id |-> IF downloads[u] = None THEN None ELSE downloads[u].owner]
Passed == [u \in Id |-> IF downloads[u] = None THEN 0 ELSE downloads[u].bytes]
Stale  == {u \in Keys(downloads) : downloads[u].idle}

Abstract == INSTANCE Transfer WITH
  Conn <- Client, Waiter <- Client, Ident <- Id, Exclusive <- FALSE,
  live <- open, owner <- Owner, passed <- Passed, stale <- Stale,
  waits <- waiting, vain <- (lost \cup ousted) \cap waiting

\* Downloads implement Transfer, call by call, with ids that may be taken from
\* their owner: until a request under its id takes it over, a slot keeps its
\* owner and its count of bytes, which no second begin resets, and it is given
\* back with an answer to its owner, with the owner's disconnect, or once it
\* is idle.
ImplementsTransfer == Abstract!Spec

=============================================================================
