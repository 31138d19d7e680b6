---------------------------- MODULE ServerStream ----------------------------
(***************************************************************************)
(* One streamed response of the server: the service that starts a producer *)
(* coroutine (chunked_service, sse_service, dummy_sse_service in           *)
(* server/service.hpp), the channel between the producer and the session,  *)
(* and the session coroutine in response::async_write (server/response.hpp)*)
(* that copies chunks from the channel to the socket.                      *)
(*                                                                         *)
(* Every action is one run of a coroutine from the completion of an        *)
(* asynchronous operation to the start of the next: the examples run one   *)
(* io_context on one thread, so nothing interleaves inside such a run.     *)
(*                                                                         *)
(* Chunks are numbered 1, 2, ... in the order the producer sends them; 0   *)
(* is the value-initialised http_chunk{}.  EmptyChunks are the numbers     *)
(* whose body is empty.                                                    *)
(***************************************************************************)
EXTENDS Channel

CONSTANTS
  MaxChunks,    \* bound on what the producer sends, in the guard of Send
  EmptyChunks   \* the chunks sent with an empty body

ASSUME ChunkAssumption ==
  /\ MaxChunks \in Nat /\ EmptyChunks \subseteq 1..MaxChunks
  /\ NoMsg = 0

VARIABLES
  producer,  \* the producer coroutine (event_loop), see ProducerStates
  sent,      \* the number of chunks it has passed to async_send
  session,   \* the session coroutine, see SessionStates
  chunk,     \* the local variable of response.hpp:169
  ec,        \* the error code bound to the session's yield_context is set
  peer,      \* the client's end of the connection, see PeerStates
  wire,      \* the chunks the socket took, in order
  last       \* the socket took the terminating chunk

vars == <<chanVars, producer, sent, session, chunk, ec, peer, wire, last>>

\* "none": never spawned.  "ready": spawned, or in the timer wait that
\* follows a send, and about to run the loop head.  "blocked": suspended in
\* async_send.  "exited": the completion handler has run.
ProducerStates == {"none", "ready", "blocked", "exited"}

\* The operation the session is suspended in; "failed" is a handler that
\* returned an error, for which nothing is streamed.
SessionStates ==
  {"handler", "header", "receive", "write", "last", "returned", "failed"}

Streaming == {"header", "receive", "write", "last"}

\* A stalled peer keeps the connection and does not read: a write to it
\* completes only when it reads again or goes away.
PeerStates == {"reading", "stalled", "gone"}

Chunk == 1..MaxChunks

\* http_chunk::valid
\* Mutant of Valid: the test is on the object, not on the body.
ValidAny(n) == n # NoMsg
Valid(n) == n # NoMsg /\ n \notin EmptyChunks

Init ==
  /\ ChanInit
  /\ producer = "none" /\ sent = 0
  /\ session = "handler" /\ chunk = NoMsg /\ ec = FALSE
  /\ peer = "reading" /\ wire = <<>> /\ last = FALSE

-----------------------------------------------------------------------------
(* The session coroutine.                                                  *)

\* handle_chunked_request spawns the producer, which runs as soon as the
\* handler is suspended or the response is being written.
HandlerSpawns ==
  /\ session = "handler" /\ producer = "none" /\ producer' = "ready"
  /\ UNCHANGED <<chanVars, sent, session, chunk, ec, peer, wire, last>>

\* It returned a header: the response is the header and the channel.
HandlerReturns ==
  /\ session = "handler" /\ session' = "header"
  /\ UNCHANGED <<chanVars, producer, sent, chunk, ec, peer, wire, last>>

\* It returned an error instead: the channel's receiving side is dropped and
\* the session answers with server_error.
HandlerFails ==
  /\ session = "handler" /\ session' = "failed"
  /\ UNCHANGED <<chanVars, producer, sent, chunk, ec, peer, wire, last>>

\* Mutant of LoopHead: the loop ends when nothing is buffered, not on close.
LoopHeadUntilEmpty ==
  \/ /\ open /\ buf # <<>> /\ session' = "receive" /\ StartReceive
     /\ producer' = IF blocked # blocked' THEN "ready" ELSE producer
  \/ /\ ~open \/ buf = <<>>
     /\ session' = "last" /\ EndReceive
     /\ UNCHANGED <<buf, open, blocked, producer>>

\* while (rx_->is_open()): the next receive, which may unblock the producer,
\* or the write of the last chunk.
LoopHead ==
  \/ /\ open /\ session' = "receive" /\ StartReceive
     /\ producer' = IF blocked # blocked' THEN "ready" ELSE producer
  \/ /\ ~open /\ session' = "last" /\ EndReceive
     /\ UNCHANGED <<buf, open, blocked, producer>>

\* An operation on the socket completes, and sets ec to its own outcome.
WriteCompletes == peer # "stalled" /\ ec' = (peer = "gone")

HeaderWritten ==
  /\ session = "header" /\ WriteCompletes /\ LoopHead
  /\ UNCHANGED <<sent, chunk, peer, wire, last>>

\* async_receive completed.  An invalid chunk, also the one that comes with
\* an error, is skipped.
Received ==
  /\ session = "receive" /\ rcv \in {"got", "cancelled", "closed"}
  /\ chunk' = slot /\ ec' = (rcv # "got")
  /\ \/ /\ Valid(slot) /\ session' = "write" /\ EndReceive
        /\ UNCHANGED <<buf, open, blocked, producer>>
     \/ ~Valid(slot) /\ LoopHead
  /\ UNCHANGED <<sent, peer, wire, last>>

ChunkWritten ==
  /\ session = "write" /\ WriteCompletes /\ LoopHead
  /\ wire' = IF peer = "gone" THEN wire ELSE Append(wire, chunk)
  /\ UNCHANGED <<sent, chunk, peer, last>>

\* Mutant of LastWritten: the outcome of the previous operation is reported.
LastWrittenKeepsEc ==
  /\ session = "last" /\ peer # "stalled" /\ ec' = FALSE
  /\ session' = "returned" /\ last' = (peer # "gone")
  /\ UNCHANGED <<chanVars, producer, sent, chunk, peer, wire>>

LastWritten ==
  /\ session = "last" /\ WriteCompletes
  /\ session' = "returned" /\ last' = (peer # "gone")
  /\ UNCHANGED <<chanVars, producer, sent, chunk, peer, wire>>

-----------------------------------------------------------------------------
(* The producer coroutine.                                                 *)

Send ==
  /\ producer = "ready" /\ open /\ sent < MaxChunks
  /\ sent' = sent + 1
  /\ \/ SendAtOnce(sent + 1) /\ producer' = "ready"
     \/ SendBlocks(sent + 1) /\ producer' = "blocked"
  /\ UNCHANGED <<session, chunk, ec, peer, wire, last>>

\* The coroutine returns or throws, and its completion handler runs.
Exit ==
  /\ producer = "ready" /\ producer' = "exited"
  /\ CancelAndClose
  /\ UNCHANGED <<sent, session, chunk, ec, peer, wire, last>>

-----------------------------------------------------------------------------
(* The client's end of the connection.  It may also break when the session *)
(* has returned: the last write succeeds when the socket takes the bytes,  *)
(* and the session only destroys the socket then (server.hpp:129-135).     *)

PeerChanges(to) ==
  /\ \/ peer = "reading" /\ to \in {"stalled", "gone"}
     \/ peer = "stalled" /\ to \in {"reading", "gone"}
  /\ peer' = to
  /\ UNCHANGED <<chanVars, producer, sent, session, chunk, ec, wire, last>>

-----------------------------------------------------------------------------
SessionStep == HeaderWritten \/ Received \/ ChunkWritten \/ LastWritten

Next ==
  \/ HandlerSpawns \/ HandlerReturns \/ HandlerFails
  \/ SessionStep
  \/ Send
  \/ Exit
  \/ \E to \in PeerStates : PeerChanges(to)

Spec == Init /\ [][Next]_vars

\* The io_context runs every handler that is ready, in the order it became
\* ready, so the session takes a step it can take.  Nothing obliges the
\* handler, the producer or the peer to act.
FairSpec == Spec /\ WF_vars(SessionStep)

-----------------------------------------------------------------------------
(* Properties.                                                             *)

\* The chunks that have a body.
Sendable == Chunk \ EmptyChunks

OnWire(n) == \E i \in DOMAIN wire : wire[i] = n

\* The chunks the session has taken off the channel, and those of them it
\* has also written, failed to write, or skipped.
Handed == sent - Len(buf) - Len(blocked)
Settled == Handed - (IF rcv = "got" \/ session = "write" THEN 1 ELSE 0)

\* Every variable keeps its type; the buffer never exceeds its capacity.
TypeOK ==
  /\ ChanTypeOK(Chunk)
  /\ producer \in ProducerStates /\ sent \in 0..MaxChunks
  /\ session \in SessionStates /\ chunk \in Chunk \cup {NoMsg}
  /\ ec \in BOOLEAN /\ peer \in PeerStates
  /\ wire \in Seq(Chunk) /\ last \in BOOLEAN

\* What the client reads is a prefix of what the producer sent: no chunk is
\* empty (on the wire it would end the body), repeated or out of order, and
\* none is missing before the last one that arrived.
WireIsPrefix ==
  /\ \A i \in DOMAIN wire : wire[i] \in Sendable /\ wire[i] <= sent
  /\ \A i, j \in DOMAIN wire : i < j => wire[i] < wire[j]
  /\ \A i \in DOMAIN wire : \A n \in 1..wire[i] : n \in Sendable => OnWire(n)

\* The producer and the session never wait for each other: the producer waits
\* only on a full channel, and the session only on an empty one whose producer
\* neither waits nor has ended.  It may be one that no handler ever spawned:
\* then the session waits for good.
NoMutualWait ==
  /\ rcv = "waiting" => buf = <<>> /\ producer \notin {"blocked", "exited"}
  /\ producer = "blocked" => Len(buf) = Capacity /\ open

\* The response ends only after the producer has finished, never because the
\* channel ran empty or the client left; what is then lost is exactly what
\* was still buffered, because is_open() is false as soon as the completion
\* handler has closed the channel (response.hpp:170).
LossOnlyAtClose ==
  session \in {"last", "returned"} =>
    /\ producer = "exited" /\ ~open
    /\ Settled = sent - Len(buf)

\* async_write reports success only if the last chunk and every chunk it took
\* off the channel reached the socket, although it looks at no error code
\* between the writes and each operation overwrites the one before.
OkMeansAllWritten ==
  session = "returned" /\ ~ec =>
    /\ last
    /\ \A n \in 1..(sent - Len(buf)) : n \in Sendable => OnWire(n)

\* The inductive invariant behind the four properties above.  The channel
\* holds the latest chunks in the order they were sent, and the session has
\* at most the one before them in hand.
Fifo ==
  /\ \A i \in 1..Len(buf) : buf[i] = Handed + i
  /\ \A i \in 1..Len(blocked) : blocked[i] = sent
  /\ slot = IF rcv = "got" THEN Handed ELSE NoMsg
  /\ session = "write" => chunk = Handed /\ Valid(chunk)

\* Who is suspended in which half of the channel, and what that means for
\* the other side.
Suspended ==
  /\ producer = "blocked" <=> Len(blocked) = 1
  /\ Len(blocked) = 1 => Len(buf) = Capacity /\ open
  /\ producer = "exited" <=> ~open
  /\ rcv # "idle" <=> session = "receive"
  /\ rcv = "waiting" => buf = <<>> /\ blocked = <<>> /\ open
  /\ rcv \in {"cancelled", "closed"} => ~open
  /\ session \in {"last", "returned"} => ~open

\* As long as the client is there the socket takes every chunk that is
\* settled, and when it takes the last one it has taken them all; what it took
\* never runs ahead of that, and stays a prefix when the client leaves.
Delivered ==
  /\ WireIsPrefix
  /\ \A i \in DOMAIN wire : wire[i] <= Settled
  /\ peer # "gone" \/ last => \A n \in 1..Settled : n \in Sendable => OnWire(n)
  /\ last => session = "returned"
  /\ session = "returned" => last = ~ec /\ (ec => peer = "gone")

IInv == TypeOK /\ Fifo /\ Suspended /\ Delivered

\* The response refines the promise of StreamPromise.
Promise == INSTANCE StreamPromise WITH
             offered <- sent, pos <- Settled, cut <- (peer = "gone"),
             done <- (session \in {"last", "returned"})
RefinesPromise == Promise!Spec
=============================================================================
