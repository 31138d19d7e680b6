------------------------------ MODULE Exchange ------------------------------
(***************************************************************************)
(* A streamed response from end to end: the producer, the channel and the  *)
(* session of ServerStream, whose variables keep their names, and the      *)
(* reader, the channel and the consumer of ClientStream on the other side  *)
(* of the connection.  The chunks that the server's socket took are the    *)
(* units that arrive at the client, in the same order.                     *)
(***************************************************************************)
EXTENDS ServerStream, SequencesExt

CONSTANTS
  ClientCapacity,   \* the client's channel: the examples pass 10
  Whole             \* the units that end an event, as in ClientStream

ASSUME ClientAssumption ==
  /\ ClientCapacity \in Nat \ {0}
  /\ MaxChunks # 0 /\ Whole \subseteq 1..MaxChunks

VARIABLES
  cbuf, copen, cblocked, crcv, cslot,   \* the client's channel
  mode, arrived, skipped, parsed, batch, pending, eof, reader, received,
  consumer

clientVars == <<cbuf, copen, cblocked, crcv, cslot, mode, arrived, skipped,
                parsed, batch, pending, eof, reader, received, consumer>>

Client == INSTANCE ClientStream WITH
            Capacity <- ClientCapacity, NoMsg <- <<>>, MaxUnits <- MaxChunks,
            buf <- cbuf, open <- copen, blocked <- cblocked, rcv <- crcv,
            slot <- cslot

\* The server of this library streams in chunks.
ExchangeInit ==
  /\ Init
  /\ Client!Init /\ mode # "sse" /\ arrived = 0

-----------------------------------------------------------------------------
(* The connection.                                                         *)

Deliver ==
  /\ arrived < Len(wire)
  /\ Client!Arrive /\ UNCHANGED vars

\* Mutant of StreamEnds: the last chunk overtakes the others.
StreamEndsEarly ==
  /\ last \/ peer = "gone" \/ session = "failed"
  /\ Client!ConnectionEnds /\ UNCHANGED vars

\* The parser comes to the last chunk behind all others.  A connection breaks
\* at any time.  And the answer to a handler's error is not in chunks, which
\* the reader refuses (client/response.hpp:174-176).
StreamEnds ==
  /\ \/ last /\ parsed = Len(wire)
     \/ peer = "gone"
     \/ session = "failed"
  /\ Client!ConnectionEnds /\ UNCHANGED vars

-----------------------------------------------------------------------------
ServerPart == Next /\ UNCHANGED clientVars
ClientPart ==
  /\ Client!ReaderStep \/ Client!ReaderReturns \/ Client!ConsumerStep
  /\ UNCHANGED vars

ExchangeNext == ServerPart \/ ClientPart \/ Deliver \/ StreamEnds

all == <<vars, clientVars>>

\* As in the two parts; and the network delivers what it has taken.
ExchangeSpec ==
  /\ ExchangeInit /\ [][ExchangeNext]_all
  /\ WF_vars(SessionStep /\ UNCHANGED clientVars)
  /\ WF_all(ClientPart) /\ WF_all(Deliver) /\ WF_all(StreamEnds)

-----------------------------------------------------------------------------
(* Properties.                                                             *)

\* The producer's next chunk with a body after chunk m is chunk n.
NextSent(m, n) == n \in Sendable /\ m < n /\ \A k \in (m + 1)..(n - 1) : k \notin Sendable

\* The chunks that the consumer gets are the ones that the producer sent,
\* from the first on and without a gap, through both channels and however
\* the client's messages are joined.
EndToEndOrder ==
  mode = "chunks" =>
    LET messages == Append(Client!Accepted, pending)
        Chunks(i) == [j \in DOMAIN messages[i] |-> wire[messages[i][j]]]
    IN  \A i \in DOMAIN messages : \A j \in DOMAIN messages[i] :
          NextSent(IF j > 1 THEN Chunks(i)[j - 1]
                   ELSE IF i > 1 THEN Last(Chunks(i - 1)) ELSE 0, Chunks(i)[j])

\* The consumer has got the chunk, or it is in the rest that waits to be
\* joined to the next one.
Got(n) ==
  \/ \E i \in DOMAIN received : \E j \in DOMAIN received[i] : wire[received[i][j]] = n
  \/ \E j \in DOMAIN pending : wire[pending[j]] = n

\* When the session has returned without an error and the consumer has ended,
\* it has got all but what was left in the server's channel when it closed
\* (response.hpp:170), and a rest that the client's channel did not take;
\* unless the connection broke before the client's parser came to the end of
\* what the server's socket took: the session's success is not delivery.
CleanEndComplete ==
  (mode = "chunks" /\ consumer = "ended" /\ session = "returned" /\ ~ec) =>
    \/ peer = "gone" /\ parsed < Len(wire)
    \/ \A n \in 1..(sent - Len(buf)) : n \in Sendable => Got(n)

\* A chunk that is sent reaches the consumer, or is the rest that waits to be
\* joined to the next one, unless the client stalls or is cut off, or the
\* producer ends before the session gets to the chunk.
ChunkReachesConsumer ==
  \A n \in Sendable :
    (mode = "chunks" /\ sent >= n /\ session \in Streaming) ~>
      \/ Got(n)
      \/ peer # "reading" \/ ~open

\* Once the producer has finished, or its handler has failed, the session
\* returns and the end of the stream reaches the consumer, in both modes and
\* whatever it or the session waits for, unless the client stops reading: no
\* timeout covers the write of a response.
EndReachesConsumer ==
  (session \in Streaming /\ producer = "exited") \/ session \in {"returned", "failed"} ~>
    (consumer = "ended" /\ session \notin Streaming) \/ peer = "stalled"
=============================================================================
