------------------------------ MODULE Middleware ------------------------------
(***************************************************************************)
(* Services in layers: service_builder stacks middlewares, build_service   *)
(* wraps a service in a layer for each of them (server/middleware.hpp,     *)
(* service_builder.hpp), and a request goes through the layers and back    *)
(* (pre_request_service and after_response_service of service.hpp).        *)
(*                                                                         *)
(* With it goes what regex_matcher has found in the path: the smatch of a  *)
(* request holds iterators into its path, and a pre handler returns a new  *)
(* request object (service.hpp:162-166, request.hpp).                      *)
(***************************************************************************)
EXTENDS Integers, Sequences, FiniteSets

CONSTANTS
  Requests,      \* the requests considered, each in a coroutine of its own
  MaxLayers,     \* bound on the middlewares, in WithMiddleware
  MaxServices    \* bound on the services built, in BuildService

ASSUME MiddlewareAssumption == MaxLayers \in Nat /\ MaxServices \in Nat

VARIABLES
  builder,    \* the kinds of the middlewares stacked so far, innermost first
  spent,      \* the middlewares whose handler_ has been moved into a layer
  services,   \* the services built, each the sequence of its layers
  call        \* for each request, where it is

vars == <<builder, spent, services, call>>

\* "pre" and "after" hold one handler, which layer() moves out; "function"
\* holds a function that wraps the service and can be called again.
Kinds == {"pre", "after", "function"}
Phases == {"new", "in", "out", "replied", "threw"}

\* service: the service's number, 0 before there is one; at: the layer
\* reached, 0 for the service in the middle; trace: the handlers called, as
\* pairs of a direction and a middleware; short: the path is stored in the
\* request object itself; own: the matches point into the path of the
\* current request object; stale: into a path that has been moved from.
Idle == [service |-> 0, phase |-> "new", at |-> 0, trace |-> <<>>,
         short |-> FALSE, own |-> TRUE, stale |-> FALSE]

Init ==
  /\ builder = <<>> /\ spent = {} /\ services = <<>>
  /\ call = [r \in Requests |-> Idle]

-----------------------------------------------------------------------------
(* Building.                                                               *)

WithMiddleware(kind) ==
  /\ Len(builder) < MaxLayers
  /\ builder' = Append(builder, kind)
  /\ UNCHANGED <<spent, services, call>>

Movable == {i \in DOMAIN builder : builder[i] # "function"}

\* Mutant of Layers: the middleware added last comes to lie innermost.
LayersReversed ==
  LET n == Len(builder)
  IN  [i \in 1..n |-> [middleware |-> n + 1 - i, kind |-> builder[n + 1 - i],
                       empty |-> n + 1 - i \in spent]]

\* stacked_middleware::layer: the ones added earlier first.  A handler that
\* has been moved out before leaves an empty std::function.
Layers == [i \in DOMAIN builder |->
             [middleware |-> i, kind |-> builder[i], empty |-> i \in spent]]

\* Mutant of BuildService: the builder is taken to keep its handlers.
BuildServiceCopying ==
  /\ Len(services) < MaxServices
  /\ services' = Append(services, Layers)
  /\ UNCHANGED <<builder, spent, call>>

\* build_service leaves the builder as it is, but for the handlers.
BuildService ==
  /\ Len(services) < MaxServices
  /\ services' = Append(services, Layers) /\ spent' = Movable
  /\ UNCHANGED <<builder, call>>

-----------------------------------------------------------------------------
(* A request on its way in.                                                *)

LayerOf(r) == services[call[r].service][call[r].at]

Step(r, next) == call' = [call EXCEPT ![r] = next]

Begin(r, s, isShort) ==
  /\ call[r].phase = "new"
  /\ Step(r, [Idle EXCEPT !.service = s, !.phase = "in",
                          !.at = Len(services[s]), !.short = isShort])
  /\ UNCHANGED <<builder, spent, services>>

\* after_response_service calls what is inside first.
PassIn(r) ==
  /\ call[r].phase = "in" /\ call[r].at > 0 /\ LayerOf(r).kind = "after"
  /\ Step(r, [call[r] EXCEPT !.at = @ - 1])
  /\ UNCHANGED <<builder, spent, services>>

Called(r, way) == Append(call[r].trace, <<way, LayerOf(r).middleware>>)

\* The request that a pre handler returns is a new object.  Moving a short
\* path copies its characters and clears the old ones, a long one keeps its
\* buffer; a copy leaves the iterators where they are.
Returned(q, moved) ==
  [q EXCEPT !.own = @ /\ moved /\ ~q.short,
            !.stale = @ \/ (q.own /\ moved /\ q.short)]

\* What the next layer gets.  The function of a function layer is the
\* program's own; it is taken to hand on the request that it was given.
HandedOn(r, moved) ==
  IF LayerOf(r).kind = "pre" THEN Returned(call[r], moved) ELSE call[r]

\* Mutant of HandleIn: a handler that is not there is passed over.
HandleInSkipping(r, moved) ==
  /\ call[r].phase = "in" /\ call[r].at > 0 /\ LayerOf(r).kind # "after"
  /\ Step(r, [HandedOn(r, moved) EXCEPT
                !.trace = IF LayerOf(r).empty THEN @ ELSE Called(r, "in"),
                !.at = @ - 1])
  /\ UNCHANGED <<builder, spent, services>>

HandleIn(r, moved) ==
  /\ call[r].phase = "in" /\ call[r].at > 0 /\ LayerOf(r).kind # "after"
  /\ ~LayerOf(r).empty
  /\ Step(r, [HandedOn(r, moved) EXCEPT
                !.trace = Called(r, "in"), !.at = @ - 1])
  /\ UNCHANGED <<builder, spent, services>>

\* The innermost service answers, with a response or an error.
Answer(r) ==
  /\ call[r].phase = "in" /\ call[r].at = 0
  /\ Step(r, [call[r] EXCEPT !.phase = "out", !.at = 1,
                             !.trace = Append(@, <<"service", 0>>)])
  /\ UNCHANGED <<builder, spent, services>>

-----------------------------------------------------------------------------
(* And on its way out, with the response or the error.                     *)

PassOut(r) ==
  /\ call[r].phase = "out" /\ call[r].at <= Len(services[call[r].service])
  /\ LayerOf(r).kind = "pre"
  /\ Step(r, [call[r] EXCEPT !.at = @ + 1])
  /\ UNCHANGED <<builder, spent, services>>

HandleOut(r) ==
  /\ call[r].phase = "out" /\ call[r].at <= Len(services[call[r].service])
  /\ LayerOf(r).kind # "pre" /\ ~LayerOf(r).empty
  /\ Step(r, [call[r] EXCEPT !.trace = Called(r, "out"), !.at = @ + 1])
  /\ UNCHANGED <<builder, spent, services>>

Reply(r) ==
  /\ call[r].phase = "out" /\ call[r].at > Len(services[call[r].service])
  /\ Step(r, [call[r] EXCEPT !.phase = "replied"])
  /\ UNCHANGED <<builder, spent, services>>

\* A call of an empty std::function throws, through all layers and out of
\* the session.
CallsEmpty(r) ==
  /\ call[r].phase \in {"in", "out"}
  /\ call[r].at \in DOMAIN services[call[r].service]
  /\ LayerOf(r).empty
  /\ LayerOf(r).kind = (IF call[r].phase = "in" THEN "pre" ELSE "after")

Throw(r) ==
  /\ CallsEmpty(r)
  /\ Step(r, [call[r] EXCEPT !.phase = "threw"])
  /\ UNCHANGED <<builder, spent, services>>

-----------------------------------------------------------------------------
Proceed(r) ==
  \/ PassIn(r) \/ (\E moved \in BOOLEAN : HandleIn(r, moved)) \/ Answer(r)
  \/ PassOut(r) \/ HandleOut(r) \/ Reply(r) \/ Throw(r)

Next ==
  \/ \E kind \in Kinds : WithMiddleware(kind)
  \/ BuildService
  \/ \E r \in Requests, s \in DOMAIN services, isShort \in BOOLEAN : Begin(r, s, isShort)
  \/ \E r \in Requests : Proceed(r)

Spec == Init /\ [][Next]_vars

-----------------------------------------------------------------------------
(* Properties.                                                             *)

\* The handlers to be called in a service of the first n middlewares of
\* kinds, as in a trace, and where each lies on the way through the onion.
Due(kinds, n) ==
  {<<"in", i>> : i \in {j \in 1..n : kinds[j] # "after"}}
  \cup {<<"service", 0>>}
  \cup {<<"out", i>> : i \in {j \in 1..n : kinds[j] # "pre"}}

Depth(p) == IF p[1] = "in" THEN -p[2] ELSE p[2]

Has(trace, p) == \E k \in DOMAIN trace : trace[k] = p

\* The middleware added last sees a request first and its answer last, none
\* is called twice or passed over, and a request that is answered has been
\* through all of them, whatever the other requests and later builds do
\* (middleware.hpp:30-33, service.hpp:163-184).
OnionOrder ==
  \A r \in Requests : call[r].phase # "new" =>
    LET trace == call[r].trace
        due == Due(builder, Len(services[call[r].service]))
    IN  /\ \A k \in DOMAIN trace : trace[k] \in due
        /\ \A j, k \in DOMAIN trace : j < k => Depth(trace[j]) < Depth(trace[k])
        /\ \A p \in due, k \in DOMAIN trace :
             Depth(p) < Depth(trace[k]) => Has(trace, p)
        /\ call[r].phase = "replied" => \A p \in due : Has(trace, p)

\* A handler is in one place: in its middleware, or in one layer of one of
\* the services built from it (middleware.hpp:58-61 and 73-76).
HandlerInOnePlace ==
  \A i \in Movable :
    LET holders == {s \in DOMAIN services : \E l \in DOMAIN services[s] :
                      services[s][l].middleware = i /\ ~services[s][l].empty}
    IN  Cardinality(holders) = IF i \in spent THEN 1 ELSE 0

\* Of two services that one builder has built, the second answers no request
\* if they share a pre or after middleware; every other service answers.
SecondBuildThrows ==
  \A r \in Requests :
    LET s == call[r].service
        shared == {i \in 1..Len(services[s]) : builder[i] # "function" /\
                     \E t \in 1..(s - 1) : i <= Len(services[t])}
    IN  /\ call[r].phase = "replied" => shared = {}
        /\ call[r].phase = "threw" => shared # {}

\* matcher.hpp:150-151: the result of the match with the request's path is
\* stored in the request, for the service to read.
MatchesDescribePath ==
  \A r \in Requests : call[r].phase = "in" /\ call[r].at = 0 => ~call[r].stale
=============================================================================
