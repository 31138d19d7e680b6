--------------------------- MODULE ResponseHeader ---------------------------
(***************************************************************************)
(* The header of a response and those who rely on it: do_session decides   *)
(* by it whether the connection is kept (server/server.hpp), and the       *)
(* client how to find the end of the body (client/response.hpp).           *)
(***************************************************************************)
VARIABLES
  header,   \* the fields that matter
  asked,    \* what the handler has last said about the connection, and how
  origin,   \* "builder", or what has become of it
  wire      \* how the body is sent: "length", "chunks", "nothing" where a
            \* status allows no body, "none" if no response is written (yet)

-----------------------------------------------------------------------------
(* The readers of the header.                                              *)

\* do_session compares the field with one value (server.hpp:115-117).
ServerKeeps == header.connection = "keep-alive"

\* How the client's parser finds the end of the body: two fields that frame
\* it are an error, and after no_content, which stands for the statuses 1xx,
\* 204 and 304, it looks for no body whatever the fields say.
ClientReads ==
  IF header.chunked /\ header.length THEN "refused"
  ELSE IF header.status = "no_content" THEN "nothing"
  ELSE IF header.chunked THEN "chunks"
  ELSE IF header.length THEN "length" ELSE "until close"

-----------------------------------------------------------------------------
(* Properties.                                                             *)

\* The streams whose chunks the client does not take for chunks: one under a
\* status without a body (server/response.hpp:253-256 looks at no status), and
\* one that a service has begun with a status other than ok, if the handler
\* has not made the chunked header itself (service.hpp:52-56).
Misframed ==
  /\ wire = "chunks"
  /\ \/ header.status = "no_content"
     \/ /\ origin \in {"service", "sse service"} /\ header.status # "ok"
        /\ ~header.chunked \/ header.length

\* Whatever the handler has called and in whatever order, the client reads
\* the body the way it was written, by the one field that frames it, exactly
\* if it is none of these streams; and a stream of events that is ok with
\* read_chunked_sse (client/response.hpp:71-74, 121-130).
FramingTruthful ==
  wire # "none" =>
    /\ ClientReads = wire <=> ~Misframed
    /\ origin = "sse service" /\ header.status = "ok" =>
         header.type = "text/event-stream"

\* A handler that has last asked for the connection to be closed gets it
\* closed, whatever version it sets before or after.
CloseHonoured == wire # "none" /\ asked = "close" => ~ServerKeeps
=============================================================================
