------------------------------ MODULE EventPath ------------------------------
(***************************************************************************)
(* The text of an event stream on its way to the client: where one event   *)
(* ends and the next begins (client/response.hpp:118-165 and 345-381).     *)
(*   "chunked sse"  read_chunked_sse appends HTTP chunks to a block until  *)
(*                  a chunk ends with an empty line;                       *)
(*   "sse"          read_sse looks for the first empty line in the bytes   *)
(*                  after the header, minus those that the read of the     *)
(*                  header has already taken from the socket.              *)
(* What becomes of an event after it is read is the subject of             *)
(* ClientStream.                                                           *)
(*                                                                         *)
(* The text of the stream is kept as a whole; the reader's buffers are     *)
(* what lies between two positions of it.                                  *)
(***************************************************************************)
EXTENDS EventFormat, SequencesExt

CONSTANTS
  Peer,       \* who writes the events, see TextOf
  Events,     \* the events it writes; NoField is a comment that keeps alive
  MaxEvents   \* bound on them, in Send

\* A newline separates the lines of data, in other fields it has no meaning,
\* and a return has none in any; a retry is a number.
WellFormed(event) ==
  /\ \E fields \in SUBSET FieldSet : event \in [fields -> Seq(Words)]
  /\ \A f \in DOMAIN event : \A i \in 1..Len(event[f]) :
       event[f][i] # Return /\ (f # "data" => event[f][i] # NewLine)
  /\ "retry" \in DOMAIN event => \E n \in Numerals : event["retry"] = <<n>>

ASSUME PeerAssumption ==
  /\ Peer \in {"library", "lines"} /\ MaxEvents \in Nat
  /\ \A event \in Events : WellFormed(event)

VARIABLES
  mode,      \* which of the readers runs
  sent,      \* the events the server has sent
  text,      \* the text of the stream that the server has written
  ends,      \* where the text of each event ends; 0 is where the first begins
  started,   \* the header has been read and the reader runs
  skipped,   \* the number of events the read of the header has swallowed
  cut,       \* and it has taken the start of the next one
  from,      \* what lies between from and read is the local block of
  read,      \* read_chunked_sse, and beyond read nothing has been read
  out,       \* the events the reader has made
  passed     \* the events past whose end a chunk has gone on

vars == <<mode, sent, text, ends, started, skipped, cut, from, read, out, passed>>

-----------------------------------------------------------------------------
(* The server.                                                             *)

TextOf(event) == IF Peer = "library" THEN ToHttpChunk(event) ELSE ToLines(event)

\* server.js opens the stream with a newline; other servers do not.  A server
\* of this library always streams events in chunks.
Init ==
  /\ mode \in (IF Peer = "library" THEN {"chunked sse"} ELSE {"chunked sse", "sse"})
  /\ text \in (IF Peer = "library" THEN {<<>>} ELSE {<<>>, <<NewLine>>})
  /\ ends = [i \in 0..0 |-> Len(text)]
  /\ sent = <<>> /\ started = FALSE /\ skipped = 0 /\ cut = FALSE
  /\ from = 0 /\ read = 0 /\ out = <<>> /\ passed = {}

Send(event) ==
  /\ Len(sent) < MaxEvents
  /\ sent' = Append(sent, event) /\ text' = text \o TextOf(event)
  /\ ends' = [i \in 0..Len(sent') |-> IF i > Len(sent) THEN Len(text') ELSE ends[i]]
  /\ UNCHANGED <<mode, started, skipped, cut, from, read, out, passed>>

-----------------------------------------------------------------------------
(* The reader starts.  The parser of the chunked reader goes on with what  *)
(* was read after the header; the plain reader has a buffer of its own.    *)

StartChunked ==
  /\ mode = "chunked sse" /\ ~started /\ started' = TRUE
  /\ UNCHANGED <<mode, sent, text, ends, skipped, cut, from, read, out, passed>>

\* The read of the header has taken k tokens of the stream.  An event of which
\* only the newline of the empty line is left is gone as well.
StartPlain(k) ==
  /\ mode = "sse" /\ ~started /\ started' = TRUE
  /\ \E n \in 0..Len(sent) :
       /\ \A i \in 1..Len(sent) : ends[i] <= k + 1 <=> i <= n
       /\ skipped' = n /\ cut' = (k > ends[n])
  /\ read' = k
  /\ UNCHANGED <<mode, sent, text, ends, from, out, passed>>

-----------------------------------------------------------------------------
(* The readers.                                                            *)

\* The text has an empty line that ends at position i.
EmptyLine(i) == i \in 2..Len(text) /\ text[i - 1] = NewLine /\ text[i] = NewLine

\* What ends at position to and is not read yet may be an HTTP chunk.  The
\* library writes a chunk for each event; other servers cut their text as they
\* like.
IsChunk(to) ==
  Peer = "library" => \E i \in 1..Len(sent) : read = ends[i - 1] /\ to = ends[i]

\* The chunk up to position to does not stop at the ends of these events.
PassedBy(to) == {i \in 1..Len(sent) : read < ends[i] /\ ends[i] < to}

\* Mutant of OnChunkBody: a block is an event as soon as it has a line.
OnChunkBodyHasty(to) ==
  /\ mode = "chunked sse" /\ started
  /\ to \in (read + 1)..Len(text) /\ IsChunk(to)
  /\ read' = to /\ passed' = passed \cup PassedBy(to)
  /\ LET block == SubSeq(text, from + 1, to)
     IN  IF Valid(ParseBlock(block))
         THEN from' = to /\ out' = Append(out, ParseBlock(block))
         ELSE UNCHANGED <<from, out>>
  /\ UNCHANGED <<mode, sent, text, ends, started, skipped, cut>>

\* on_chunk_body of read_chunked_sse for a whole chunk.  A block that does not
\* end with an empty line or has no field is kept and the next chunk is
\* appended to it.
OnChunkBody(to) ==
  /\ mode = "chunked sse" /\ started
  /\ to \in (read + 1)..Len(text) /\ IsChunk(to)
  /\ read' = to /\ passed' = passed \cup PassedBy(to)
  /\ LET block == SubSeq(text, from + 1, to)
     IN  IF EndsEvent(block) /\ Valid(ParseBlock(block))
         THEN from' = to /\ out' = Append(out, ParseBlock(block))
         ELSE UNCHANGED <<from, out>>
  /\ UNCHANGED <<mode, sent, text, ends, started, skipped, cut>>

\* async_read_until returns with the bytes up to the first empty line, once
\* they are there.
Found(to) ==
  /\ to >= read + 2 /\ EmptyLine(to)
  /\ \A i \in (read + 2)..(to - 1) : ~EmptyLine(i)

BlockTo(to) == SubSeq(text, read + 1, to)

\* A block without a field is not consumed: async_read_until finds it again
\* and again (response.hpp:155-157).
Stuck ==
  /\ mode = "sse" /\ started
  /\ \E to \in 2..Len(text) : Found(to) /\ ~Valid(ParseBlock(BlockTo(to)))

\* Mutant of ReadBlock: all that has arrived is consumed.
ReadBlockConsumingAll(to) ==
  /\ mode = "sse" /\ started /\ Found(to) /\ Valid(ParseBlock(BlockTo(to)))
  /\ out' = Append(out, ParseBlock(BlockTo(to))) /\ read' = Len(text)
  /\ UNCHANGED <<mode, sent, text, ends, started, skipped, cut, from, passed>>

ReadBlock(to) ==
  /\ mode = "sse" /\ started /\ Found(to) /\ Valid(ParseBlock(BlockTo(to)))
  /\ out' = Append(out, ParseBlock(BlockTo(to))) /\ read' = to
  /\ UNCHANGED <<mode, sent, text, ends, started, skipped, cut, from, passed>>

-----------------------------------------------------------------------------
Start == StartChunked \/ \E k \in 0..Len(text) : StartPlain(k)
ReadStep == \E to \in (read + 1)..Len(text) : OnChunkBody(to) \/ ReadBlock(to)
Next == Start \/ ReadStep \/ \E event \in Events : Send(event)

Spec == Init /\ [][Next]_vars

-----------------------------------------------------------------------------
(* Properties.                                                             *)

\* Those of the events that have a field.
WithField(events) ==
  LET upto[i \in 0..Len(events)] ==
        IF i = 0 THEN <<>>
        ELSE IF Valid(events[i]) THEN Append(upto[i - 1], events[i])
        ELSE upto[i - 1]
  IN  upto[Len(events)]

\* What the client should read: the events sent that have a field, after
\* those that the read of the header has swallowed.
Expected == WithField(SubSeq(sent, skipped + 1, Len(sent)))

\* Two events read as one: lines of data are joined, of the other fields the
\* second counts.
Joined(a, b) ==
  [f \in DOMAIN a \cup DOMAIN b |->
     IF f \notin DOMAIN b THEN a[f]
     ELSE IF f = "data" /\ f \in DOMAIN a THEN a[f] \o <<NewLine>> \o b[f]
     ELSE b[f]]

\* What the events become when each one past whose end a chunk has gone on is
\* read as one with its successor.
Blocks ==
  LET upto[i \in 0..Len(sent)] ==
        IF i = 0 THEN [made |-> <<>>, kept |-> NoField]
        ELSE LET kept == Joined(upto[i - 1].kept, sent[i])
             IN  IF i \in passed \/ ~Valid(kept)
                 THEN [made |-> upto[i - 1].made, kept |-> kept]
                 ELSE [made |-> Append(upto[i - 1].made, kept), kept |-> NoField]
  IN  upto[Len(sent)].made

\* However the text is cut into chunks, and whatever comments stand between
\* the events, the chunked reader loses and changes nothing and makes no event
\* twice; it merges two events exactly where a chunk goes on past the end of
\* the first (response.hpp:366-374).  As long as none does, what it makes are
\* the events that were sent.
ChunkedEventsExact ==
  mode = "chunked sse" =>
    IsPrefix(out, Blocks) /\ (passed = {} => IsPrefix(out, Expected))

\* The plain reader can only spoil the event that the read of the header has
\* cut in two; from the next one on all are exact (response.hpp:131-163).
PlainEventsExact ==
  mode = "sse" =>
    /\ Len(out) <= Len(Expected)
    /\ \A i \in DOMAIN out : out[i] = Expected[i] \/ (i = 1 /\ cut)

\* The plain reader spins for ever only over a comment, or over the rest of
\* an event whose fields the read of the header has taken.
StuckOnlyByRest ==
  Stuck => (cut /\ out = <<>>) \/ \E i \in (skipped + 1)..Len(sent) : ~Valid(sent[i])

\* The reader has been through all that has arrived.
Drained ==
  /\ started /\ ~Stuck
  /\ IF mode = "sse" THEN \A to \in 2..Len(text) : ~Found(to) ELSE read = Len(text)

\* What the reader keeps back is never more than the start of an event: once
\* it has nothing left to do, every event sent has been read, on its own or as
\* one with another.  Both readers wait for the empty line, which
\* examples/server.js:55 writes after each event, and to_http_chunk
\* (message.hpp:44-61) does not.
DrainedMeansRead ==
  Drained => Len(out) = Len(IF mode = "sse" THEN Expected ELSE Blocks)
=============================================================================
