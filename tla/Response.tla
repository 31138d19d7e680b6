------------------------------ MODULE Response ------------------------------
(***************************************************************************)
(* How the header of a response comes about: a handler calls               *)
(* response_builder in any order (server/response.hpp), chunked_service    *)
(* and sse_service complete the header of a stream (server/service.hpp).   *)
(* What Beast's message does to its fields is modelled with the calls that *)
(* the code makes.  What the header is good for is said in ResponseHeader. *)
(***************************************************************************)
EXTENDS ResponseHeader, Naturals

CONSTANT MaxCalls   \* bound on the calls of the builder, in each of them

ASSUME ResponseAssumption == MaxCalls \in Nat

VARIABLE calls      \* their number

vars == <<header, asked, calls, origin, wire>>

Versions == {10, 11}
Statuses == {"ok", "error", "no_content"}
Connections == {"", "keep-alive", "close"}
Types == {"", "text/plain", "text/event-stream"}

Header == [version : Versions, status : Statuses, connection : Connections,
           chunked : BOOLEAN, length : BOOLEAN, type : Types]

\* A response is HTTP/1.1 and has status ok until it is told otherwise.
Init ==
  /\ header = [version |-> 11, status |-> "ok", connection |-> "",
               chunked |-> FALSE, length |-> FALSE, type |-> ""]
  /\ asked = "nothing" /\ calls = 0 /\ origin = "builder" /\ wire = "none"

-----------------------------------------------------------------------------
(* The builder.                                                            *)

Call(changed) ==
  /\ origin = "builder" /\ calls < MaxCalls
  /\ header' = changed /\ calls' = calls + 1
  /\ UNCHANGED <<origin, wire>>

Status(s) == Call([header EXCEPT !.status = s]) /\ UNCHANGED asked
Version(v) == Call([header EXCEPT !.version = v]) /\ UNCHANGED asked
ContentType(t) == Call([header EXCEPT !.type = t]) /\ UNCHANGED asked

\* message::keep_alive: what is the default of the version is said by saying
\* nothing.
KeepAliveField(version, keep) ==
  IF version = 11 THEN IF keep THEN "" ELSE "close"
  ELSE IF keep THEN "keep-alive" ELSE ""

\* Mutant of KeepAlive: the field is set for HTTP/1.0 alone.
KeepAliveOld(keep) ==
  /\ Call([header EXCEPT !.connection =
             IF header.version = 10 THEN KeepAliveField(10, keep) ELSE @])
  /\ asked' = IF keep THEN "keep" ELSE "close"

KeepAlive(keep) ==
  /\ Call([header EXCEPT !.connection = KeepAliveField(header.version, keep)])
  /\ asked' = IF keep THEN "keep" ELSE "close"

\* set() of a field, which the handler is free to do.
SetConnection(value) ==
  /\ Call([header EXCEPT !.connection = value])
  /\ asked' = CASE value = "close" -> "close" [] value = "keep-alive" -> "keep"
               [] OTHER -> "nothing"
SetChunked == Call([header EXCEPT !.chunked = TRUE]) /\ UNCHANGED asked
SetLength == Call([header EXCEPT !.length = TRUE]) /\ UNCHANGED asked

-----------------------------------------------------------------------------
(* The response is made and written.                                       *)

\* message::chunked(true) and content_length(n) take each other's field out.
Chunked(h) == [h EXCEPT !.chunked = TRUE, !.length = FALSE]
Sized(h) == [h EXCEPT !.chunked = FALSE, !.length = TRUE]

Finish(from, h, how) ==
  /\ origin = "builder" /\ origin' = from /\ header' = h /\ wire' = how
  /\ UNCHANGED <<asked, calls>>

\* With status no_content only an empty body is written.
BodyOnWire == IF header.status = "no_content" THEN "nothing" ELSE "length"

\* Mutant of Body: to_generator does not prepare the payload.
BodyUnprepared == Finish("body", header, BodyOnWire)

\* body(), and prepare_payload in to_generator.
Body == Finish("body", Sized(header), BodyOnWire)

\* prepare_payload throws for a body that is not empty where there must be
\* none, which ends the session before anything is written.
BodyThrows == header.status = "no_content" /\ Finish("thrown", header, "none")

\* streaming(): chunked whatever the status.
Streaming == Finish("streaming", Chunked(header), "chunks")

\* chunked_service::handle_request marks the header of a stream only if its
\* status is ok; it is written in chunks in any case.
Marked(h) == IF h.status = "ok" THEN Chunked(h) ELSE h

\* sse_service::handle_chunked_request.
Typed(h) == IF h.status = "ok" THEN [h EXCEPT !.type = "text/event-stream"] ELSE h

ChunkedService == Finish("service", Marked(header), "chunks")
SseService == Finish("sse service", Marked(Typed(header)), "chunks")

\* not_found, bad_request and server_error of util.hpp, the answers of
\* dispatch_request: the version and the wish of the request.
ErrorAnswer(version, keep) ==
  /\ calls = 0 /\ origin = "builder" /\ origin' = "answer" /\ wire' = "length"
  /\ header' = Sized([header EXCEPT !.version = version, !.status = "error",
                        !.type = "text/plain",
                        !.connection = KeepAliveField(version, keep)])
  /\ asked' = IF keep THEN "keep" ELSE "close"
  /\ UNCHANGED calls

-----------------------------------------------------------------------------
Next ==
  \/ \E s \in Statuses : Status(s)
  \/ \E v \in Versions : Version(v)
  \/ \E t \in Types : ContentType(t)
  \/ \E keep \in BOOLEAN : KeepAlive(keep)
  \/ \E c \in Connections : SetConnection(c)
  \/ SetChunked \/ SetLength
  \/ Body \/ BodyThrows \/ Streaming \/ ChunkedService \/ SseService
  \/ \E v \in Versions, keep \in BOOLEAN : ErrorAnswer(v, keep)

Spec == Init /\ [][Next]_vars
=============================================================================
