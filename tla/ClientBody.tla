----------------------------- MODULE ClientBody -----------------------------
(***************************************************************************)
(* The body of a client's response that is not streamed: read() and        *)
(* close() of client/response.hpp, called by coroutines of one io_context, *)
(* and what Beast's async_read makes of the pieces of the body, of the end *)
(* of the connection and of its failure.                                   *)
(***************************************************************************)
EXTENDS Naturals, Sequences

CONSTANT MaxPieces   \* bound on the body, in Init

ASSUME BodyAssumption == MaxPieces \in Nat

VARIABLES
  framing,    \* how the header says where the body ends
  secure,     \* the connection is an ssl_stream_
  total,      \* the number of pieces the server means to send
  arrived,    \* of them, how many have come
  conn,       \* "up"; "ended" or "reset" by the server; "gone": the reset is known
  parsed,     \* the number of pieces the parser is past
  body,       \* parser_.get().body()
  reading,    \* a call of read() waits
  done,       \* done_
  closed,     \* close() has been called
  result,     \* how the last read() returned
  failed,     \* a read() has failed
  delivered   \* the number of bodies returned

server == <<framing, secure, total, arrived, conn>>
caller == <<reading, done, closed, result, failed, delivered>>
vars == <<server, parsed, body, caller>>

Results == {"none", "body", "error", "eof", "bad_transfer_encoding"}

Init ==
  /\ framing \in {"length", "until close", "streamed"} /\ secure \in BOOLEAN
  /\ total \in 0..MaxPieces /\ arrived \in 0..total /\ conn = "up"
  /\ parsed = 0 /\ body = <<>> /\ reading = FALSE /\ done = FALSE
  /\ closed = FALSE /\ result = "none" /\ failed = FALSE /\ delivered = 0

-----------------------------------------------------------------------------
(* read().                                                                 *)

ReadRefused ==
  /\ ~reading /\ (done \/ framing = "streamed")
  /\ result' = IF done THEN "eof" ELSE "bad_transfer_encoding"
  /\ UNCHANGED <<server, parsed, body, reading, done, closed, failed, delivered>>

\* Mutant of ReadStarts: the check of done_ is dropped.
ReadStartsAnyway ==
  /\ ~reading /\ framing # "streamed"
  /\ reading' = TRUE /\ body' = <<>>
  /\ UNCHANGED <<server, parsed, done, closed, result, failed, delivered>>

ReadStarts ==
  /\ ~reading /\ ~done /\ framing # "streamed"
  /\ reading' = TRUE /\ body' = <<>>
  /\ UNCHANGED <<server, parsed, done, closed, result, failed, delivered>>

\* Nothing more to parse.
Whole == framing = "length" /\ parsed = total

\* async_read goes on until the parser is done: it never returns a part.
\* A reset connection has lost what was not read.
Read ==
  /\ reading /\ ~Whole /\ parsed < arrived /\ conn \in {"up", "ended"}
  /\ parsed' = parsed + 1 /\ body' = Append(body, parsed + 1)
  /\ UNCHANGED <<server, caller>>

\* done_ is parser_.is_done() now, and read() returns the body.
Succeed ==
  /\ reading' = FALSE /\ done' = TRUE /\ result' = "body"
  /\ delivered' = delivered + 1
  /\ UNCHANGED <<parsed, body, closed, failed>>

\* Mutant of Fail: done_ is set to parser_.is_done() on this path, too.
FailResettingDone ==
  /\ reading' = FALSE /\ result' = "error" /\ failed' = TRUE /\ done' = FALSE
  /\ UNCHANGED <<parsed, body, closed, delivered>>

\* done_ stays what it is.
Fail ==
  /\ reading' = FALSE /\ result' = "error" /\ failed' = TRUE
  /\ UNCHANGED <<parsed, body, done, closed, delivered>>

ReadWhole == reading /\ Whole /\ Succeed /\ UNCHANGED server

\* Mutant of AtEof: close() leaves the socket as it is.
AtEofRemote == (conn = "ended" /\ parsed = arrived) \/ conn = "gone"

\* The socket says eof: the server has ended the connection, or close() has
\* shut the socket down, or a reset was reported before.
AtEof == \/ conn = "ended" /\ parsed = arrived
         \/ conn = "gone"
         \/ closed /\ ~secure

\* Mutant of ReadEof: the end of the connection is the end of any body.
ReadEofLenient == reading /\ AtEof /\ Succeed /\ UNCHANGED server

\* The parser's put_eof: the end of a body without a length, and an error,
\* partial_message, in the middle of one with a length.
ReadEof ==
  /\ reading /\ AtEof /\ UNCHANGED server
  /\ \/ framing = "until close" /\ Succeed
     \/ framing = "length" /\ ~Whole /\ Fail

ReadReset ==
  /\ reading /\ ~Whole /\ conn = "reset" /\ Fail
  /\ conn' = IF secure THEN "reset" ELSE "gone"
  /\ UNCHANGED <<framing, secure, total, arrived>>

-----------------------------------------------------------------------------
(* close(), of which the ssl_stream_ learns nothing, and the server, which *)
(* a socket that is shut down no longer hears.                             *)

Close ==
  /\ ~closed /\ closed' = TRUE /\ done' = TRUE
  /\ UNCHANGED <<server, parsed, body, reading, result, failed, delivered>>

Arrive ==
  /\ conn = "up" /\ arrived < total /\ ~(closed /\ ~secure)
  /\ arrived' = arrived + 1
  /\ UNCHANGED <<framing, secure, total, conn, parsed, body, caller>>

\* Over TLS an end without close_notify is a failure like a reset.
ConnectionEnds ==
  /\ conn = "up" /\ conn' \in {"ended", "reset"}
  /\ UNCHANGED <<framing, secure, total, arrived, parsed, body, caller>>

-----------------------------------------------------------------------------
ReadReturns == ReadWhole \/ ReadEof \/ ReadReset

Next == \/ ReadRefused \/ ReadStarts \/ Read \/ ReadReturns
        \/ Close \/ Arrive \/ ConnectionEnds

Spec == Init /\ [][Next]_vars

\* The read goes on when it can; the server may be silent for ever.
FairSpec == Spec /\ WF_vars(Read \/ ReadReturns)

-----------------------------------------------------------------------------
(* Properties.                                                             *)

\* A body that is returned is all of it: every piece of one with a length,
\* and of one without, every piece that came, unless close() has cut it off
\* under the read, or a read that failed has been tried again
\* (client/response.hpp:207-227).
BodyWhole ==
  result = "body" =>
    /\ framing = "length" \/ ~failed => body = [i \in 1..parsed |-> i]
    /\ framing = "length" => parsed = total
    /\ framing # "length" /\ ~failed /\ ~closed => parsed = arrived

\* A body is returned once, and complete() stands for a body that has been
\* returned or a close(), however they interleave: a read that waits while
\* close() is called does not undo it, one that fails does not complete, and
\* none returns the empty body that body().clear() has left.
BodyOnce == delivered <= 1 /\ (done <=> closed \/ delivered = 1)

\* A read whose body is there, whose connection is gone, or whose socket has
\* been shut down returns.
ReadEnds ==
  (reading /\ (\/ framing = "length" /\ arrived = total
               \/ conn # "up"
               \/ closed /\ ~secure)) ~> ~reading
=============================================================================
