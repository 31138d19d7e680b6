----------------------------- MODULE ClientSend -----------------------------
(***************************************************************************)
(* One call of client::send (client/client.hpp): resolve the host, connect *)
(* (and shake hands for https), write the request, read the header of the  *)
(* response, and follow redirections by calling send again from within     *)
(* send_http or send_https, whose stream stays open until they return.     *)
(*                                                                         *)
(* An action is one run of the coroutine from the completion of an         *)
(* asynchronous operation to the start of the next.                        *)
(***************************************************************************)
EXTENDS Naturals, Sequences

CONSTANT Limits   \* the values of http_request::max_redirects considered

ASSUME LimitsAssumption == Limits \subseteq Nat

VARIABLES
  auto,     \* http_request::auto_redirect
  limit,    \* http_request::max_redirects
  timed,    \* http_request::timeout_ms > 0
  phase,    \* the operation the call is suspended in, or "done"
  scheme,   \* of the URL of the current hop
  hop,      \* the argument redirect_count
  streams,  \* the open streams, the outermost call's first
  result    \* "none" until the call returns

request == <<auto, limit, timed>>
vars == <<request, phase, scheme, hop, streams, result>>

Schemes == {"http", "https"}

\* The operations a stream's deadline applies to; the resolver has none.
StreamOps == {"connect", "handshake", "write", "header"}

\* The deadline of a tcp_stream.  Once it has passed, the pending and every
\* further operation on the stream fails.
Deadlines == {"never", "armed", "passed"}

Current == streams[Len(streams)]
SetDeadline(d) == [streams EXCEPT ![Len(streams)] = d]

\* expires_after, when a timeout is configured.
FreshDeadline == IF timed THEN "armed" ELSE "never"
Rearm == IF timed THEN SetDeadline("armed") ELSE streams

-----------------------------------------------------------------------------
\* Mutant of Enter: the stream of the hop before is given up first.
EnterReplaces(s, open) ==
  /\ phase' = "resolve" /\ scheme' = s
  /\ streams' = IF s = "http" THEN <<FreshDeadline>> ELSE <<>>

\* The entry of send: http creates its stream, and starts its only deadline,
\* before it resolves; https does so after.
Enter(s, open) ==
  /\ phase' = "resolve" /\ scheme' = s
  /\ streams' = IF s = "http" THEN Append(open, FreshDeadline) ELSE open

\* Leaving all the calls: what they hold is closed, but for the stream of a
\* response that is returned.
Return(res, held) ==
  /\ phase' = "done" /\ result' = res
  /\ streams' = IF res = "response" THEN <<held[Len(held)]>> ELSE <<>>

Init ==
  /\ auto \in BOOLEAN /\ limit \in Limits /\ timed \in BOOLEAN
  /\ scheme \in Schemes /\ phase = "resolve" /\ hop = 0 /\ result = "none"
  /\ streams = IF scheme = "http" THEN <<FreshDeadline>> ELSE <<>>

\* Mutant of Resolved: an https connection is attempted without a deadline.
ResolvedUntimed ==
  /\ phase = "resolve" /\ phase' = "connect"
  /\ streams' = IF scheme = "https" THEN Append(streams, "never") ELSE streams
  /\ UNCHANGED <<request, scheme, hop, result>>

Resolved ==
  /\ phase = "resolve" /\ phase' = "connect"
  /\ streams' = IF scheme = "https" THEN Append(streams, FreshDeadline)
                                    ELSE streams
  /\ UNCHANGED <<request, scheme, hop, result>>

ResolveFails ==
  /\ phase = "resolve" /\ Return("error", streams)
  /\ UNCHANGED <<request, scheme, hop>>

Connected ==
  /\ phase = "connect" /\ Current # "passed"
  /\ \/ scheme = "http" /\ phase' = "write" /\ UNCHANGED streams
     \/ scheme = "https" /\ phase' = "handshake" /\ streams' = Rearm
  /\ UNCHANGED <<request, scheme, hop, result>>

HandshakeDone ==
  /\ phase = "handshake" /\ Current # "passed"
  /\ phase' = "write" /\ streams' = Rearm
  /\ UNCHANGED <<request, scheme, hop, result>>

Written ==
  /\ phase = "write" /\ Current # "passed" /\ phase' = "header"
  /\ UNCHANGED <<request, scheme, hop, streams, result>>

\* The peer refuses, resets, or sends what is not a header.
OperationFails ==
  /\ phase \in StreamOps /\ Return("error", streams)
  /\ UNCHANGED <<request, scheme, hop>>

TimesOut ==
  /\ phase \in StreamOps /\ Current = "passed" /\ Return("error", streams)
  /\ UNCHANGED <<request, scheme, hop>>

\* Mutant of Unarmed: the deadline of the request stays in force.
StillArmed == streams

\* The end of init_parser: no deadline for what follows on this stream.
Unarmed == SetDeadline("never")

\* Mutant of MayRedirect: no limit.
MayAlwaysRedirect == TRUE
MayRedirect == ~(hop > limit)

\* The header: an answer, or a redirection to a URL of some scheme or to no
\* usable URL.
HeaderRead(location) ==
  /\ phase = "header" /\ Current # "passed"
  /\ \/ /\ location = "none" \/ ~auto
        /\ Return("response", Unarmed) /\ UNCHANGED <<scheme, hop>>
     \/ /\ auto /\ location \in Schemes /\ MayRedirect
        /\ hop' = hop + 1 /\ Enter(location, Unarmed) /\ UNCHANGED result
     \/ /\ auto /\ \/ location = "unusable"
                   \/ location \in Schemes /\ ~MayRedirect
        /\ Return("error", streams) /\ UNCHANGED <<scheme, hop>>
  /\ UNCHANGED request

\* A deadline passes, also one of a stream with no operation pending, as
\* that of an http stream while the resolver works.
DeadlinePasses(i) ==
  /\ streams[i] = "armed"
  /\ streams' = [streams EXCEPT ![i] = "passed"]
  /\ UNCHANGED <<request, phase, scheme, hop, result>>

-----------------------------------------------------------------------------
Next ==
  \/ Resolved \/ ResolveFails
  \/ Connected \/ HandshakeDone \/ Written \/ OperationFails \/ TimesOut
  \/ \E location \in Schemes \cup {"none", "unusable"} : HeaderRead(location)
  \/ \E i \in DOMAIN streams : DeadlinePasses(i)

Spec == Init /\ [][Next]_vars

\* Timers fire, failed operations are reported, and the resolver, which has
\* timeouts of its own, gives an answer.  The peer need not do anything.
FairSpec ==
  /\ Spec
  /\ WF_vars(Resolved \/ ResolveFails)
  /\ WF_vars(\E i \in DOMAIN streams : DeadlinePasses(i))
  /\ WF_vars(TimesOut)

-----------------------------------------------------------------------------
(* Properties.                                                             *)

\* Every variable keeps its type.  The calls hold one stream for each hop
\* behind them, and one for the current hop once it has created it.
TypeOK ==
  /\ auto \in BOOLEAN /\ limit \in Limits /\ timed \in BOOLEAN
  /\ phase \in StreamOps \cup {"resolve", "done"} /\ scheme \in Schemes
  /\ hop \in Nat /\ streams \in Seq(Deadlines)
  /\ result \in {"none", "response", "error"}
  /\ phase = "done" <=> result # "none"
  /\ phase # "done" => Len(streams) =
       IF phase = "resolve" /\ scheme = "https" THEN hop ELSE hop + 1

\* A chain of redirections, however long, ends: at most max_redirects + 1 of
\* them are followed, and at most max_redirects + 2 connections are open at
\* a time, all of them until the call returns.
ConnectionsBounded == hop <= limit + 1 /\ Len(streams) <= limit + 2

\* The current hop has at most one stream beyond those held, so the newest
\* stream belongs to it unless https has still to create its own.
HeldOnly(i) ==
  i < Len(streams) \/ phase = "done" \/ (phase = "resolve" /\ scheme = "https")

\* Only the current hop has a deadline: none can fire on a connection that
\* is merely held, nor, once the response is returned, in the middle of its
\* body or of an event stream.
OnlyCurrentIsTimed ==
  \A i \in DOMAIN streams : HeldOnly(i) => streams[i] = "never"

\* With a timeout configured the call returns, whatever the servers do or
\* leave undone and however often they redirect.
SendReturns == timed ~> phase = "done"
=============================================================================
