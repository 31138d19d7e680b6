------------------------------- MODULE Router -------------------------------
(***************************************************************************)
(* The server's tables of services (server/server.hpp): register_service   *)
(* appends to the table of the method, dispatch_request asks the matchers  *)
(* of that table one after the other.                                      *)
(***************************************************************************)
EXTENDS Matcher

CONSTANTS
  Methods,           \* the methods considered, of routes and of requests
  Patterns, Paths,   \* the routes and the request paths considered
  MaxRoutes          \* bound on the registrations, in Register

ASSUME RouterAssumption == MaxRoutes \in Nat

VARIABLES
  table,       \* the services of each method, as patterns and their numbers
  registered,  \* the calls of register_service, in order
  answer       \* what the last request got: a service's number or NotFound

vars == <<table, registered, answer>>

Supported == {"get", "post", "head", "put", "delete", "options"}
NotFound == 0

Init ==
  /\ table = [m \in Supported |-> <<>>] /\ registered = <<>>
  /\ answer = NotFound

\* Mutant of Slot: two cases of the switch share a table.
SlotShared(method) == IF method = "put" THEN "post" ELSE method

\* The table a method's services are registered in.
Slot(method) == method

\* A method without a table is dropped without a word.
Register(method, pattern) ==
  /\ Len(registered) < MaxRoutes
  /\ registered' = Append(registered, [method |-> method, pattern |-> pattern])
  /\ table' = IF method \in Supported
       THEN [table EXCEPT ![Slot(method)] = Append(@,
               [pattern |-> pattern, service |-> Len(registered) + 1])]
       ELSE table
  /\ UNCHANGED answer

\* Mutant of Select: the latest registration wins.
SelectLast(routes, path) ==
  LET hits == {i \in DOMAIN routes : Matches(routes[i].pattern, path)}
  IN  IF hits = {} THEN NotFound
      ELSE routes[CHOOSE i \in hits : \A j \in hits : j <= i].service

\* The loop of dispatch_request over one table.
Select(routes, path) ==
  LET hits == {i \in DOMAIN routes : Matches(routes[i].pattern, path)}
  IN  IF hits = {} THEN NotFound
      ELSE routes[First(hits, 0)].service

\* A request with no table for its method meets an empty one.
Dispatch(method, path) ==
  Select(IF method \in Supported THEN table[method] ELSE <<>>, path)

Serve(method, path) ==
  /\ answer' = Dispatch(method, path)
  /\ UNCHANGED <<table, registered>>

Next == \/ \E method \in Methods, pattern \in Patterns : Register(method, pattern)
        \/ \E method \in Methods, path \in Paths : Serve(method, path)

Spec == Init /\ [][Next]_vars

-----------------------------------------------------------------------------
(* Properties.                                                             *)

\* A registration changes nothing for a request that is already routed, and
\* nothing for the other methods: it can only answer requests of its own
\* method that so far were not found.
RegistrationOnlyAdds ==
  [][\A method \in Methods, path \in Paths :
       Dispatch(method, path)' # Dispatch(method, path) =>
         /\ Dispatch(method, path) = NotFound
         /\ Dispatch(method, path)' = Len(registered')
         /\ registered'[Len(registered')].method = method]_<<table, registered>>

\* matcher.hpp:24-40: a route with parameters answers the paths that have
\* the form of its pattern.
ParamRouteAnswers ==
  \A i \in DOMAIN registered : \A path \in Paths :
    LET route == registered[i]
    IN  route.method \in Supported /\ HasParams(route.pattern)
        /\ Conforms(route.pattern, path) => Dispatch(route.method, path) # NotFound
=============================================================================
