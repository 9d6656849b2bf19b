-------------------------------- MODULE Wire --------------------------------
(***************************************************************************)
(* The binary frames of protocol.rs: one type byte, an identifier in a     *)
(* slot of fixed width, the payload.  A byte is one of a few symbols that  *)
(* the code tells apart; the slot is IdLen wide (36 in the code).          *)
(***************************************************************************)
EXTENDS Naturals, Sequences, SequencesExt

CONSTANTS
  IdLen,         \* BINARY_HEADER_LEN - 1
  MaxPayload     \* longest payload of the frames considered (bound)

ASSUME WireAssumption == IdLen \in Nat \ {0} /\ MaxPayload \in Nat

\* PTY_OUTPUT .. PTY_FILE_DOWNLOAD_CHUNK
FrameType == {"output", "input", "scrollback", "fileChunk", "downloadChunk"}

\* What a type byte may be, and what an identifier's byte may be: a blank, an
\* ASCII character, the first and the second byte of a two-byte character.
TypeByte == FrameType \cup {"unknown"}
IdByte   == {"blank", "a", "lead", "cont"}

\* std::str::from_utf8
Utf8(s) ==
  \A i \in 1..Len(s) :
    /\ s[i] = "lead" => i < Len(s) /\ s[i + 1] = "cont"
    /\ s[i] = "cont" => i > 1 /\ s[i - 1] = "lead"

Failed == [ok |-> FALSE]

\* parse_binary_frame: too short, unknown type, identifier not UTF-8.
Parse(f) ==
  IF \/ Len(f) < IdLen + 1
     \/ f[1] \notin FrameType
     \/ ~Utf8(SubSeq(f, 2, IdLen + 1))
    THEN Failed
    ELSE [ok |-> TRUE, type |-> f[1], id |-> SubSeq(f, 2, IdLen + 1),
          payload |-> SubSeq(f, IdLen + 2, Len(f))]

\* Mutant: the identifier is copied without padding it.
BuildUnpadded(t, id, payload) == <<t>> \o id \o payload

\* build_binary_frame: a short identifier is padded with blanks, a long one
\* cut, wherever that cuts it.
Build(t, id, payload) ==
  <<t>> \o [i \in 1..IdLen |-> IF i <= Len(id) THEN id[i] ELSE "blank"] \o payload

Identifier == {s \in BoundedSeq(IdByte, IdLen + 2) : Utf8(s)}
Payload    == BoundedSeq({"x", "lead"}, MaxPayload)

\* Whatever parses is the frame of its own parts.
Faithful(f) ==
  LET m == Parse(f) IN m.ok => Build(m.type, m.id, m.payload) = f

\* A frame that build_binary_frame makes comes back from parse_binary_frame
\* with its type and payload, whatever the payload holds, and with its
\* identifier exactly when that fills the slot; only an identifier cut in the
\* middle of a character makes it unreadable.  And a frame that parses holds
\* nothing but its parts.
RoundTrip ==
  /\ \A t \in FrameType, id \in Identifier, p \in Payload :
       LET m == Parse(Build(t, id, p))
           cut == Len(id) > IdLen /\ id[IdLen] = "lead"
       IN  /\ m.ok <=> ~cut
           /\ m.ok => m.type = t /\ m.payload = p
           /\ m.ok => (m.id = id <=> Len(id) = IdLen)
  /\ \A t \in TypeByte, s \in BoundedSeq(IdByte, IdLen + 1) : Faithful(<<t>> \o s)

=============================================================================
