---------------------------- MODULE ClientStream ----------------------------
(***************************************************************************)
(* The client's readers of a body that arrives bit by bit, and the         *)
(* consumer coroutine of the examples behind a channel                     *)
(* (client/response.hpp, examples/client/sse.cpp and chunked.cpp):         *)
(*   "chunks"       read_chunked_encoding: every HTTP chunk is a message;  *)
(*   "chunked sse"  read_chunked_sse: chunks are collected into events;    *)
(*   "sse"          read_sse without chunked encoding: blocks up to an     *)
(*                  empty line are events.                                 *)
(*                                                                         *)
(* The chunks, or blocks, are the units 1, 2, ... of the body; a message   *)
(* is the sequence of the units it was made of.  The units in Whole end an *)
(* event: a chunk that ends with the empty line, a block that has a field. *)
(***************************************************************************)
EXTENDS Channel, SequencesExt

CONSTANTS
  MaxUnits,   \* bound on the body, in Arrive
  Whole

ASSUME UnitAssumption ==
  MaxUnits \in Nat \ {0} /\ Whole \subseteq 1..MaxUnits /\ NoMsg = <<>>

VARIABLES
  mode,      \* which of the readers runs
  arrived,   \* the number of units that have arrived
  skipped,   \* those among them that a reader's fresh buffer leaves behind
  parsed,    \* the number of units the reader is past
  batch,     \* the last unit of the read whose callbacks are running
  pending,   \* the locals message (read_chunked_encoding) and block
  eof,       \* the server has ended or reset the connection
  reader,    \* see ReaderStates
  received,  \* the messages the consumer has got
  consumer   \* "running" or "ended"

vars == <<chanVars, mode, arrived, skipped, parsed, batch, pending, eof,
          reader, received, consumer>>

Modes == {"chunks", "chunked sse", "sse"}

\* "reading": waits for the socket.  "parsing": the parser calls back for
\* the chunks of one read, and nothing else runs.  "sending": waits for room
\* in the channel.  "exited": returned, and its completion handler has run.
ReaderStates == {"reading", "parsing", "sending", "exited"}

Unit == 1..MaxUnits

\* The units that came with the header are in the response's buffer_; the
\* reader of plain events starts with an empty buffer of its own.
Init ==
  /\ ChanInit
  /\ mode \in Modes /\ arrived \in 0..1
  /\ skipped = IF mode = "sse" THEN arrived ELSE 0
  /\ parsed = skipped /\ batch = 0 /\ pending = <<>> /\ eof = FALSE
  /\ reader = "reading" /\ received = <<>> /\ consumer = "running"

-----------------------------------------------------------------------------
(* The chunked readers: one read, then one callback per chunk.             *)

ReadChunks(n) ==
  /\ mode # "sse" /\ reader = "reading" /\ n \in (parsed + 1)..arrived
  /\ batch' = n /\ reader' = "parsing"
  /\ UNCHANGED <<chanVars, mode, arrived, skipped, parsed, pending, eof,
                 received, consumer>>

\* try_send: at once or not at all.
CanSend == rcv = "waiting" \/ HasRoom
TrySend(m) == IF CanSend THEN SendAtOnce(m) ELSE UNCHANGED chanVars

\* Mutant of SendChunk: the message is given away even if nobody takes it.
SendChunkDropping(message) == TrySend(message) /\ pending' = <<>>

\* The end of on_chunk_body in read_chunked_encoding: a message that is not
\* taken is not moved from, and the next chunk is appended to it.
SendChunk(message) ==
  TrySend(message) /\ pending' = IF CanSend THEN <<>> ELSE message

\* Mutant of SendEvent: the block is cleared only when the event is taken.
SendEventKeeping(block) ==
  IF Last(block) \in Whole
  THEN TrySend(block) /\ pending' = IF CanSend THEN <<>> ELSE block
  ELSE pending' = block /\ UNCHANGED chanVars

\* The end of on_chunk_body in read_chunked_sse: a block that is an event is
\* cleared first, and the event is lost if the channel does not take it.
SendEvent(block) ==
  IF Last(block) \in Whole
  THEN TrySend(block) /\ pending' = <<>>
  ELSE pending' = block /\ UNCHANGED chanVars

OnChunkBody ==
  /\ reader = "parsing" /\ parsed' = parsed + 1
  /\ \/ mode = "chunks" /\ SendChunk(Append(pending, parsed + 1))
     \/ mode = "chunked sse" /\ SendEvent(Append(pending, parsed + 1))
  /\ reader' = IF parsed + 1 = batch THEN "reading" ELSE "parsing"
  /\ UNCHANGED <<mode, arrived, skipped, batch, eof, received, consumer>>

-----------------------------------------------------------------------------
(* The reader of plain events.                                             *)

Stuck == mode = "sse" /\ parsed < arrived /\ parsed + 1 \notin Whole

\* Mutant of ReadBlock: the event is offered with try_send.
ReadBlockTrying ==
  /\ mode = "sse" /\ reader = "reading" /\ parsed < arrived
  /\ parsed + 1 \in Whole /\ parsed' = parsed + 1
  /\ TrySend(<<parsed + 1>>)
  /\ UNCHANGED <<mode, arrived, skipped, batch, pending, eof, reader,
                 received, consumer>>

\* A block with a field.  One without is not consumed: async_read_until
\* finds it again and again, and the reader is Stuck.
ReadBlock ==
  /\ mode = "sse" /\ reader = "reading" /\ parsed < arrived
  /\ parsed + 1 \in Whole /\ parsed' = parsed + 1
  /\ \/ SendAtOnce(<<parsed + 1>>) /\ UNCHANGED reader
     \/ SendBlocks(<<parsed + 1>>) /\ reader' = "sending"
  /\ UNCHANGED <<mode, arrived, skipped, batch, pending, eof, received,
                 consumer>>

\* The connection ends or fails, the reader returns, and the completion
\* handler of its coroutine closes the channel.
ReaderReturns ==
  /\ eof /\ reader = "reading" /\ reader' = "exited"
  /\ IF mode = "chunks" THEN CloseAlone ELSE CancelAndClose
  /\ UNCHANGED <<mode, arrived, skipped, parsed, batch, pending, eof,
                 received, consumer>>

-----------------------------------------------------------------------------
(* The consumer.                                                           *)

Receive ==
  /\ StartReceive
  /\ reader' = IF blocked # blocked' THEN "reading" ELSE reader

ConsumerStarts ==
  /\ reader # "parsing" /\ consumer = "running" /\ rcv = "idle"
  /\ Receive
  /\ UNCHANGED <<mode, arrived, skipped, parsed, batch, pending, eof,
                 received, consumer>>

\* Mutant of ConsumerGets: the loop of examples/client/benchmark_sse.cpp,
\* which ends as soon as the channel is closed.
ConsumerGetsWhileOpen ==
  /\ reader # "parsing" /\ rcv = "got"
  /\ received' = Append(received, slot)
  /\ \/ open /\ Receive /\ UNCHANGED consumer
     \/ /\ ~open /\ EndReceive /\ consumer' = "ended"
        /\ UNCHANGED <<buf, open, blocked, reader>>
  /\ UNCHANGED <<mode, arrived, skipped, parsed, batch, pending, eof>>

\* A message, and the next receive.
ConsumerGets ==
  /\ reader # "parsing" /\ rcv = "got"
  /\ received' = Append(received, slot)
  /\ Receive
  /\ UNCHANGED <<mode, arrived, skipped, parsed, batch, pending, eof, consumer>>

\* The receive fails: the channel was cancelled, or is closed and empty.
ConsumerEnds ==
  /\ reader # "parsing" /\ rcv \in {"cancelled", "closed"}
  /\ consumer' = "ended" /\ EndReceive
  /\ UNCHANGED <<buf, open, blocked, mode, arrived, skipped, parsed, batch,
                 pending, eof, reader, received>>

-----------------------------------------------------------------------------
(* The server.                                                             *)

Arrive ==
  /\ reader # "parsing" /\ ~eof /\ arrived < MaxUnits
  /\ arrived' = arrived + 1
  /\ UNCHANGED <<chanVars, mode, skipped, parsed, batch, pending, eof, reader,
                 received, consumer>>

ConnectionEnds ==
  /\ reader # "parsing" /\ ~eof /\ eof' = TRUE
  /\ UNCHANGED <<chanVars, mode, arrived, skipped, parsed, batch, pending,
                 reader, received, consumer>>

-----------------------------------------------------------------------------
ReaderStep == (\E n \in Unit : ReadChunks(n)) \/ OnChunkBody \/ ReadBlock
ConsumerStep == ConsumerStarts \/ ConsumerGets \/ ConsumerEnds

Next == ReaderStep \/ ReaderReturns \/ ConsumerStep \/ Arrive \/ ConnectionEnds

Spec == Init /\ [][Next]_vars

\* Both coroutines run when they can; the server is free to stop sending.  A
\* reader that is stuck is not bound to see the end of the connection.
FairSpec == /\ Spec
            /\ WF_vars(ReaderStep) /\ WF_vars(~Stuck /\ ReaderReturns)
            /\ WF_vars(ConsumerStep)

-----------------------------------------------------------------------------
(* Properties.                                                             *)

\* All messages the channel has accepted, oldest first.
Accepted == received \o (IF rcv = "got" THEN <<slot>> ELSE <<>>) \o buf \o blocked

\* The unit is in one of the messages.
In(messages, unit) ==
  \E i \in DOMAIN messages : \E j \in DOMAIN messages[i] : messages[i][j] = unit

\* The messages are the units before the given one, in order and each once.
InARow(messages, end) ==
  /\ \A i \in DOMAIN messages :
       /\ messages[i] # <<>>
       /\ messages[i][1] = IF i = 1 THEN 1 ELSE Last(messages[i - 1]) + 1
       /\ \A j \in 1..(Len(messages[i]) - 1) : messages[i][j + 1] = messages[i][j] + 1
  /\ \A i \in DOMAIN messages : \A j \in DOMAIN messages[i] : messages[i][j] < end
  /\ end = IF messages = <<>> THEN 1 ELSE Last(Last(messages)) + 1
  /\ \A unit \in 1..(end - 1) : In(messages, unit)

\* Every variable keeps its type, only the reader of plain events ever waits
\* for room, and chunks are parsed only up to what has arrived.
TypeOK ==
  /\ ChanTypeOK(Seq(Unit))
  /\ mode \in Modes /\ arrived \in 0..MaxUnits /\ skipped \in 0..arrived
  /\ parsed \in skipped..arrived /\ batch \in 0..arrived
  /\ pending \in Seq(Unit) /\ eof \in BOOLEAN /\ reader \in ReaderStates
  /\ received \in Seq(Seq(Unit)) /\ consumer \in {"running", "ended"}
  /\ reader = "parsing" => parsed < batch
  /\ reader = "sending" => mode = "sse" /\ blocked # <<>>

\* The chunks come out in order, each exactly once: what a full channel does
\* not take is not lost but joined to the next message, and only such a rest
\* can be missing in the end.
ChunksInOrder ==
  mode = "chunks" =>
    LET first == parsed - Len(pending) + 1
    IN  /\ InARow(Accepted, first)
        /\ pending = [i \in 1..(parsed + 1 - first) |-> first + i - 1]

\* The consumer of plain events gets every block after the first read, in
\* order: a slow consumer holds the reader up.
PlainEventsComplete ==
  mode = "sse" => Accepted = [i \in 1..(parsed - skipped) |-> <<skipped + i>>]

\* Events from chunks may be dropped when the channel is full, but what is
\* received is one event, all of it, and events do not change places.
EventsWhole ==
  mode = "chunked sse" =>
    /\ \A i \in DOMAIN Accepted :
         LET e == Accepted[i]
         IN  /\ e # <<>> /\ Last(e) \in Whole
             /\ \A j \in 1..(Len(e) - 1) : e[j] \notin Whole /\ e[j + 1] = e[j] + 1
             /\ e[1] = 1 \/ e[1] - 1 \in Whole
    /\ \A i \in 1..(Len(Accepted) - 1) :
         Last(Accepted[i]) < Accepted[i + 1][1]

\* The inductive invariant behind the three properties above.  Who waits for
\* whom in the channel, and what has ended.
Suspended ==
  /\ blocked # <<>> <=> reader = "sending"
  /\ reader = "sending" => mode = "sse" /\ Len(buf) = Capacity
  /\ ~open <=> reader = "exited"
  /\ rcv \in {"waiting", "cancelled", "closed"} => buf = <<>> /\ slot = <<>>
  /\ rcv = "waiting" => open
  /\ rcv \in {"cancelled", "closed"} => ~open
  /\ consumer = "ended" => rcv = "idle" /\ buf = <<>> /\ ~open
  /\ ~open => eof

\* What the reader keeps back is the latest units, and of an event never its
\* end; what it has passed on came before.
Rest ==
  /\ Len(pending) <= parsed
  /\ \A i \in 1..Len(pending) : pending[i] = parsed - Len(pending) + i
  /\ IF mode = "sse" THEN pending = <<>> ELSE skipped = 0
  /\ mode = "chunked sse" =>
       /\ \A i \in 1..Len(pending) : pending[i] \notin Whole
       /\ parsed - Len(pending) \in {0} \cup Whole
       /\ \A i \in DOMAIN Accepted : Last(Accepted[i]) <= parsed - Len(pending)

IInv == /\ TypeOK /\ Suspended /\ Rest
        /\ ChunksInOrder /\ PlainEventsComplete /\ EventsWhole

\* When the connection ends the consumer gets all that is in the channel
\* and then ends, also if the reader was waiting for room; unless a block
\* without a field has caught the reader.
ConsumerDrains == eof ~> Stuck \/ (consumer = "ended" /\ buf = <<>>)

=============================================================================
