------------------------------ MODULE Session ------------------------------
(***************************************************************************)
(* The server's listener and its sessions (server/server.hpp): do_listen   *)
(* accepts connections and spawns one do_session per connection, which     *)
(* reads a request, dispatches it, writes the response, and reads again if *)
(* the response says so.                                                   *)
(*                                                                         *)
(* An action is one run of a coroutine between two asynchronous            *)
(* operations.  The client may send its requests ahead (pipelining); they  *)
(* are numbered 1, 2, ... on each connection.  How a streamed response is  *)
(* written is the subject of ServerStream; here a write is one operation.  *)
(***************************************************************************)
EXTENDS Naturals, Sequences

CONSTANTS
  Conn,             \* the connections clients may open
  MaxRequests,      \* bound on each connection's requests, in ClientSends
  MaxAcceptErrors   \* bound on failing accepts, in AcceptFails

ASSUME SessionAssumption ==
  MaxRequests \in [Conn -> Nat] /\ MaxAcceptErrors \in Nat

VARIABLES
  listener,  \* the operation do_listen is at, see ListenerStates
  failures,  \* the accepts that have failed
  conn       \* what each connection is like, see ConnType

vars == <<listener, failures, conn>>

\* do_listen sets the acceptor up in this order.
SetUp == <<"open", "set_option", "bind", "listen", "accept">>
ListenerStates == {SetUp[i] : i \in DOMAIN SetUp} \cup {"stopped"}

\* The session's state, and "none" and "queued" before the accept.
States == {"none", "queued", "reading", "handling", "writing", "closed"}

\* Why do_session left its loop.
Reasons == {"", "read", "timeout", "bad target", "thrown", "payload",
            "error code", "write", "not keep-alive"}

\* A request may be none that Beast parses, or one whose target is no URL.
Forms == {"good", "bad target", "malformed"}
Request == [n : Nat \ {0}, form : Forms]

\* Of a response counts its Connection field, "" if it has none.
Connections == {"", "keep-alive", "close"}
Reply == [n : Nat \ {0}, connection : Connections]

ConnType == [state : States, why : Reasons,
             armed : BOOLEAN,          \* stream.expires_after is in force
             sent : Nat,               \* requests the client has sent
             inbox : Seq(Request),     \* those in the socket or the buffer
             taken : Seq(Request),     \* those async_read has returned
             reply : Seq(Reply),       \* the response being written, if any
             log : Seq(Reply),         \* the responses written
             peer : {"reading", "stalled", "gone"}]

NewConn == [state |-> "none", why |-> "", armed |-> FALSE, sent |-> 0,
            inbox |-> <<>>, taken |-> <<>>, reply |-> <<>>, log |-> <<>>,
            peer |-> "reading"]

Init ==
  /\ listener = "open" /\ failures = 0
  /\ conn = [c \in Conn |-> NewConn]

-----------------------------------------------------------------------------
(* The listener.                                                           *)

\* The next step of the set-up; the first that fails ends do_listen.
ListenerSetUp ==
  /\ \E i \in 1..(Len(SetUp) - 1) :
       listener = SetUp[i] /\ listener' \in {SetUp[i + 1], "stopped"}
  /\ UNCHANGED <<failures, conn>>

\* Mutant of AcceptFails: an accept that fails ends do_listen as well.
AcceptFailsForGood ==
  /\ listener = "accept" /\ failures < MaxAcceptErrors
  /\ failures' = failures + 1 /\ listener' = "stopped"
  /\ UNCHANGED conn

\* The error is reported and the loop goes on.
AcceptFails ==
  /\ listener = "accept" /\ failures < MaxAcceptErrors
  /\ failures' = failures + 1
  /\ UNCHANGED <<listener, conn>>

StartRead(r) == [r EXCEPT !.state = "reading", !.armed = TRUE]

Accept(c) ==
  /\ listener = "accept" /\ conn[c].state = "queued"
  /\ conn' = [conn EXCEPT ![c] = StartRead(@)]
  /\ UNCHANGED <<listener, failures>>

-----------------------------------------------------------------------------
(* A session.                                                              *)

\* do_session returns, or its coroutine is unwound; the socket is closed.
End(r, reason) ==
  [r EXCEPT !.state = "closed", !.why = reason, !.armed = FALSE, !.reply = <<>>]

\* Mutant of TakeRequest: a buffer of its own for every read.
TakeRequestFreshBuffer(r) ==
  [r EXCEPT !.state = "handling", !.armed = FALSE,
            !.taken = Append(@, Head(r.inbox)), !.inbox = <<>>]

\* Mutant of TakeRequest: no expires_never after the read.
TakeRequestStillArmed(r) ==
  [r EXCEPT !.state = "handling",
            !.taken = Append(@, Head(r.inbox)), !.inbox = Tail(@)]

\* async_read returns the oldest request; what follows stays in the buffer.
TakeRequest(r) ==
  [r EXCEPT !.state = "handling", !.armed = FALSE,
            !.taken = Append(@, Head(r.inbox)), !.inbox = Tail(@)]

\* async_read fails on a malformed request.  For a target that is no URL the
\* constructor of request throws (request.hpp:20), before any dispatch.
AfterRead(r) ==
  CASE Head(r.inbox).form = "good"       -> TakeRequest(r)
    [] Head(r.inbox).form = "bad target" -> End(TakeRequest(r), "bad target")
    [] Head(r.inbox).form = "malformed"  -> End(r, "read")

Read(c) ==
  /\ conn[c].state = "reading" /\ conn[c].inbox # <<>>
  /\ conn' = [conn EXCEPT ![c] = AfterRead(@)]
  /\ UNCHANGED <<listener, failures>>

\* The client is gone and has sent no further request.
ReadFails(c) ==
  /\ conn[c].state = "reading" /\ conn[c].inbox = <<>> /\ conn[c].peer = "gone"
  /\ conn' = [conn EXCEPT ![c] = End(@, "read")]
  /\ UNCHANGED <<listener, failures>>

\* The deadline of the stream passes: a pending operation on it fails.
Expire(c) ==
  /\ conn[c].armed /\ conn[c].state \in {"reading", "writing"}
  /\ conn' = [conn EXCEPT ![c] = End(@, "timeout")]
  /\ UNCHANGED <<listener, failures>>

\* dispatch_request: not_found and server_error take version and keep-alive
\* from the request, and a service may set any field to any value.
Replies(r) == [n : {r.n}, connection : Connections]

Dispatch(c) ==
  /\ conn[c].state = "handling"
  /\ \E reply \in Replies(conn[c].taken[Len(conn[c].taken)]) :
       conn' = [conn EXCEPT ![c].state = "writing", ![c].reply = <<reply>>]
  /\ UNCHANGED <<listener, failures>>

\* The handler throws, which the detached session swallows; or it leaves the
\* error code it was given set, and the response is dropped; or it answers
\* with a body that its status forbids, and prepare_payload throws before the
\* first byte is written (server/response.hpp:49-52).
DispatchFails(c) ==
  /\ conn[c].state = "handling"
  /\ \E reason \in {"thrown", "error code", "payload"} :
       conn' = [conn EXCEPT ![c] = End(@, reason)]
  /\ UNCHANGED <<listener, failures>>

\* Mutant of KeepAlive: whatever does not say "close" is kept.
KeepAliveUnlessClose(reply) == reply.connection # "close"
KeepAlive(reply) == reply.connection = "keep-alive"

\* The response is in the socket; a client that has left may not see it.
Written(c) ==
  /\ conn[c].state = "writing" /\ conn[c].peer # "stalled"
  /\ LET reply == Head(conn[c].reply)
         after == [conn[c] EXCEPT !.log = Append(@, reply), !.reply = <<>>]
     IN  conn' = [conn EXCEPT
           ![c] = IF KeepAlive(reply) THEN StartRead(after)
                  ELSE End(after, "not keep-alive")]
  /\ UNCHANGED <<listener, failures>>

WriteFails(c) ==
  /\ conn[c].state = "writing" /\ conn[c].peer = "gone"
  /\ conn' = [conn EXCEPT ![c] = End(@, "write")]
  /\ UNCHANGED <<listener, failures>>

-----------------------------------------------------------------------------
(* The clients.                                                            *)

Connect(c) ==
  /\ listener = "accept" /\ conn[c].state = "none"
  /\ conn' = [conn EXCEPT ![c].state = "queued"]
  /\ UNCHANGED <<listener, failures>>

ClientSends(c) ==
  /\ conn[c].state \notin {"none", "closed"} /\ conn[c].peer # "gone"
  /\ conn[c].sent < MaxRequests[c]
  /\ \E form \in Forms :
       conn' = [conn EXCEPT ![c].sent = @ + 1,
         ![c].inbox = Append(@, [n |-> conn[c].sent + 1, form |-> form])]
  /\ UNCHANGED <<listener, failures>>

PeerChanges(c, to) ==
  /\ conn[c].state \notin {"none", "closed"}
  /\ \/ conn[c].peer = "reading" /\ to \in {"stalled", "gone"}
     \/ conn[c].peer = "stalled" /\ to \in {"reading", "gone"}
  /\ conn' = [conn EXCEPT ![c].peer = to]
  /\ UNCHANGED <<listener, failures>>

-----------------------------------------------------------------------------
SessionStep(c) == Read(c) \/ ReadFails(c) \/ Written(c) \/ WriteFails(c)

Next ==
  \/ ListenerSetUp
  \/ AcceptFails
  \/ \E c \in Conn :
       \/ Accept(c) \/ SessionStep(c) \/ Expire(c)
       \/ Dispatch(c) \/ DispatchFails(c)
       \/ Connect(c) \/ ClientSends(c)
       \/ \E to \in {"reading", "stalled", "gone"} : PeerChanges(c, to)

Spec == Init /\ [][Next]_vars

\* The io_context runs what is ready, the accept loop always has the next
\* accept outstanding, and an armed timer fires if its operation does not
\* end before.  No handler is obliged to return and no client to act.
FairSpec ==
  /\ Spec
  /\ \A c \in Conn : /\ WF_vars(Accept(c))
                     /\ WF_vars(SessionStep(c))
                     /\ WF_vars(Expire(c))

-----------------------------------------------------------------------------
(* Properties.                                                             *)

\* Every variable keeps its type, a deadline is in force exactly during a
\* read, and a response is in hand exactly during a write.
TypeOf(c, r) ==
  /\ r \in ConnType /\ r.sent <= MaxRequests[c]
  /\ r.armed <=> r.state = "reading"
  /\ Len(r.reply) = IF r.state = "writing" THEN 1 ELSE 0

TypeOK ==
  /\ listener \in ListenerStates /\ failures \in 0..MaxAcceptErrors
  /\ conn \in [Conn -> ConnType]
  /\ \A c \in Conn : TypeOf(c, conn[c])

\* Whatever the client sends ahead, the i-th request read is the i-th sent
\* and the i-th response answers it: the buffer outlives a read, and no
\* request is read before the one before it is answered.
PipelineInOrder ==
  \A c \in Conn :
    /\ \A i \in DOMAIN conn[c].taken : conn[c].taken[i].n = i
    /\ \A i \in DOMAIN conn[c].log : conn[c].log[i].n = i
    /\ conn[c].state \in {"queued", "reading"} =>
         Len(conn[c].log) = Len(conn[c].taken)

\* A request that was read stays without a response only if its target is no
\* URL, its handler failed or made a response that cannot be written, or the
\* client has gone; in particular no deadline cuts a slow handler or a slow
\* write (expires_never after the read).
UnansweredOnlyIf ==
  \A c \in Conn :
    conn[c].state = "closed" /\ Len(conn[c].log) < Len(conn[c].taken) =>
      \/ conn[c].why \in {"bad target", "thrown", "payload", "error code"}
      \/ conn[c].why = "write" /\ conn[c].peer = "gone"

\* After a response that does not say keep-alive, the session never waits for
\* another request.
ClosesAfterClose ==
  \A c \in Conn : conn[c].state = "reading" /\ conn[c].log # <<>> =>
    conn[c].log[Len(conn[c].log)].connection = "keep-alive"

\* The server keeps the promise of PipelinePromise on every connection, of
\* which a client sees the requests it has sent and the answers.
Numbers(requests) == [i \in DOMAIN requests |-> requests[i].n]
Answers(replies) ==
  [i \in DOMAIN replies |->
     [n |-> replies[i].n, keep |-> replies[i].connection = "keep-alive"]]

Promise == INSTANCE PipelinePromise WITH
  sent    <- [c \in Conn |-> conn[c].sent],
  taken   <- [c \in Conn |-> Numbers(conn[c].taken)],
  answers <- [c \in Conn |-> Answers(conn[c].log)],
  over    <- [c \in Conn |-> conn[c].state = "closed"]

RefinesPipeline == Promise!Spec

\* The inductive invariant behind the three properties above.  The requests
\* are numbered without a gap, those the session has taken first and those
\* in the buffer behind them, and the responses like the requests.
Numbered(r) ==
  /\ r.sent = Len(r.taken) + Len(r.inbox)
  /\ \A i \in 1..Len(r.inbox) : r.inbox[i].n = Len(r.taken) + i
  /\ \A i \in 1..Len(r.taken) : r.taken[i].n = i
  /\ \A i \in 1..Len(r.log) : r.log[i].n = i

\* In each of its states the session owes as many responses as it should,
\* and the one being written answers the request that was taken last.
InHand(r) ==
  /\ r.state \in {"none", "queued"} => r.taken = <<>> /\ r.log = <<>>
  /\ r.state = "reading" => Len(r.log) = Len(r.taken)
  /\ r.state \in {"handling", "writing"} => Len(r.taken) = Len(r.log) + 1
  /\ r.state = "writing" => r.reply[1].n = Len(r.taken)
  /\ r.state = "closed" =>
       \/ Len(r.log) = Len(r.taken)
       \/ r.why \in {"bad target", "thrown", "payload", "error code"}
       \/ r.why = "write" /\ r.peer = "gone"
  /\ r.state = "reading" /\ r.log # <<>> =>
       r.log[Len(r.log)].connection = "keep-alive"

IInv == TypeOK /\ \A c \in Conn : InHand(conn[c]) /\ Numbered(conn[c])

\* An accept that fails does not end the listener: a client that waits is
\* accepted.
WaitingIsAccepted ==
  \A c \in Conn : conn[c].state = "queued" ~> conn[c].state # "queued"

=============================================================================
