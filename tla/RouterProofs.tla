---------------------------- MODULE RouterProofs ----------------------------
(***************************************************************************)
(* Proofs about the registration and the dispatch of requests, for every   *)
(* set of methods, patterns and paths and every number of routes.          *)
(*                                                                         *)
(* The server keeps a table for each method; what it promises is about the *)
(* one order of registrations.  Files says what a table has to do with     *)
(* that order, and is all that the properties need.                        *)
(***************************************************************************)
EXTENDS Router, Integers, SequenceTheorems, WellFoundedInduction, TLAPS

-----------------------------------------------------------------------------
(* The least element of a set of numbers, and First of Matcher.            *)

\* A set of natural numbers that is not empty has a least element.
LEMMA Smallest ==
  ASSUME NEW S \in SUBSET Nat, S # {}
  PROVE  \E x \in S : \A y \in S : x <= y
<1> DEFINE R == {ss \in Nat \X Nat : ss[1] < ss[2]}
<1>1. IsWellFoundedOn(R, Nat)
  BY NatLessThanWellFounded DEF OpToRel
<1>2. \A x, y \in Nat : <<y, x>> \notin R => x <= y
  OBVIOUS
<1> HIDE DEF R
<1>3. PICK x \in S : \A y \in S : <<y, x>> \notin R
  BY <1>1, WFMin
<1> QED
  BY <1>2, <1>3

\* First finds it.
LEMMA FirstIsLeast ==
  ASSUME NEW S \in SUBSET Nat, S # {}, NEW end
  PROVE  First(S, end) \in S /\ \A j \in S : First(S, end) <= j
BY Smallest DEF First

-----------------------------------------------------------------------------
(* A route with parameters: its matcher has parsed an empty pattern.       *)

\* No marker is found in an empty pattern.
LEMMA NoMarker ==
  ASSUME NEW i \in Nat
  PROVE  FindMarker(<<>>, i) = 1
<1>1. \A j : ~IsMarker(<<>>, j) \/ j \notin From(<<>>, i)
  BY DEF IsMarker, From
<1>2. {j \in From(<<>>, i) : IsMarker(<<>>, j)} = {}
  BY <1>1
<1> QED
  BY <1>2 DEF FindMarker, First

\* Its parse has neither names nor fragments.
LEMMA ParseEmpty ==
  Parse(<<>>) = [names |-> <<>>, fragments |-> <<>>]
<1>1. \A i \in Nat : FindMarker(<<>>, i) > Len(<<>>)
  BY NoMarker
<1> DEFINE none == [names |-> <<>>, fragments |-> <<>>]
           all == [pos \in 1..(Len(<<>>) + 2) |-> none]
           F(rest) == [pos \in 1..(Len(<<>>) + 2) |->
             LET marker == FindMarker(<<>>, IF pos = 1 THEN 1 ELSE pos - 1)
                 sep    == Find(<<>>, "/", marker + 2)
             IN  IF marker > Len(<<>>)
                 THEN [names |-> <<>>,
                       fragments |-> IF pos > Len(<<>>) THEN <<>>
                                     ELSE <<SubSeq(<<>>, pos, Len(<<>>))>>]
                 ELSE [names |-> <<SubSeq(<<>>, marker + 2, sep - 1)>>
                                   \o rest[sep + 1].names,
                       fragments |-> <<SubSeq(<<>>, pos, marker)>>
                                       \o rest[sep + 1].fragments]]
<1>2. \A rest : F(rest) = all
  <2>1. Len(<<>>) = 0
    OBVIOUS
  <2>2. ASSUME NEW rest, NEW pos \in 1..(Len(<<>>) + 2) PROVE F(rest)[pos] = none
    <3>1. (IF pos = 1 THEN 1 ELSE pos - 1) \in Nat
      BY <2>1
    <3>2. FindMarker(<<>>, IF pos = 1 THEN 1 ELSE pos - 1) > Len(<<>>)
      BY <1>1, <3>1
    <3> QED
      BY <2>1, <3>2
  <2>3. ASSUME NEW rest
        PROVE  F(rest) = [pos \in 1..(Len(<<>>) + 2) |-> F(rest)[pos]]
    OBVIOUS
  <2> HIDE DEF F
  <2> QED
    BY <2>2, <2>3
<1>3. Parse(<<>>) = (CHOOSE rest : rest = F(rest))[1]
  BY DEF Parse
<1> HIDE DEF F
<1>4. (CHOOSE rest : rest = F(rest)) = all
  BY <1>2
<1>5. 1 \in 1..(Len(<<>>) + 2)
  OBVIOUS
<1> QED
  BY <1>3, <1>4, <1>5

\* And without fragments only the empty path is matched.
LEMMA MatchNothing ==
  ASSUME NEW S, NEW path \in Seq(S)
  PROVE  MatchParams([names |-> <<>>, fragments |-> <<>>], path) <=> path = <<>>
<1> DEFINE parsed == [names |-> <<>>, fragments |-> <<>>]
           n == Len(parsed.fragments)
           G(from) == [i \in 1..(n + 1) |-> [at \in 1..(Len(path) + 2) |->
             IF i > n THEN at > Len(path)
             ELSE LET next == at + Len(parsed.fragments[i])
                  IN  /\ next <= Len(path) + 1
                      /\ SubSeq(path, at, Len(path)) = parsed.fragments[i]
                      /\ from[i + 1][IF i > Len(parsed.names) THEN next
                                     ELSE Find(path, "/", next) + 1]]]
           all == [i \in 1..(n + 1) |->
                    [at \in 1..(Len(path) + 2) |-> at > Len(path)]]
<1>1. MatchParams(parsed, path) = (CHOOSE from : from = G(from))[1][1]
  BY DEF MatchParams
<1>2. n = 0
  OBVIOUS
<1>3. Len(path) \in Nat /\ (path = <<>> <=> Len(path) = 0)
  BY EmptySeq, LenProperties
<1> HIDE DEF n
<1>4. \A from : G(from) = all
  BY <1>2
<1> HIDE DEF G
<1>5. (CHOOSE from : from = G(from)) = all
  BY <1>4
<1> DEFINE row == [at \in 1..(Len(path) + 2) |-> at > Len(path)]
<1>6. all[1] = row
  BY <1>2
<1>7. 1 \in 1..(Len(path) + 2)
  BY <1>3
<1>8. row[1] = (1 > Len(path))
  BY <1>7, Zenon
<1> HIDE DEF all, row
<1>9. MatchParams(parsed, path) = (1 > Len(path))
  BY <1>1, <1>5, <1>6, <1>8, Zenon
<1>10. (1 > Len(path)) <=> path = <<>>
  BY <1>3
<1> QED
  BY <1>9, <1>10, Zenon

\* A route with parameters answers the empty path and no other: its matcher
\* is built of a pattern that has been moved away (matcher.hpp:47-55).
LEMMA ParamsMatchNothing ==
  ASSUME NEW pattern, HasParams(pattern), NEW S, NEW path \in Seq(S)
  PROVE  Matches(pattern, path) <=> path = <<>>
BY ParseEmpty, MatchNothing, Zenon DEF Matches, MovedFrom

-----------------------------------------------------------------------------
(* A table and the order of registrations.                                 *)

Route == [pattern : Patterns, service : Nat]
Registration == [method : Methods, pattern : Patterns]

\* The routes are those that the log registers for the method, in its order.
Files(routes, log, method) ==
  /\ \A k \in 1..Len(routes) :
       /\ routes[k].service \in 1..Len(log)
       /\ log[routes[k].service].method = method
       /\ log[routes[k].service].pattern = routes[k].pattern
  /\ \A k, l \in 1..Len(routes) : k < l => routes[k].service < routes[l].service
  /\ \A i \in 1..Len(log) : log[i].method = method =>
       \E k \in 1..Len(routes) : routes[k].service = i

\* The registrations that answer a request.
Hits(log, method, path) ==
  {i \in 1..Len(log) : log[i].method = method /\ Matches(log[i].pattern, path)}

\* A request is answered by the earliest of them.
IsFirst(n, log, method, path) ==
  IF Hits(log, method, path) = {} THEN n = NotFound
  ELSE /\ n \in Hits(log, method, path)
       /\ \A i \in Hits(log, method, path) : n <= i

\* What a registration appends.
LEMMA AppendLast ==
  ASSUME NEW S, NEW s \in Seq(S), NEW e \in S
  PROVE  /\ Append(s, e) \in Seq(S) /\ Len(s) \in Nat
         /\ Len(Append(s, e)) = Len(s) + 1
         /\ \A i \in 1..Len(s) : Append(s, e)[i] = s[i]
         /\ Append(s, e)[Len(s) + 1] = e
         /\ \A i \in 1..(Len(s) + 1) : i \in 1..Len(s) \/ i = Len(s) + 1
BY AppendProperties, LenProperties

\* A registration of the method goes to the end of its table.
LEMMA FilesOwn ==
  ASSUME NEW routes \in Seq(Route), NEW log \in Seq(Registration),
         NEW method \in Methods, NEW pattern \in Patterns,
         Files(routes, log, method)
  PROVE  Files(Append(routes, [pattern |-> pattern, service |-> Len(log) + 1]),
               Append(log, [method |-> method, pattern |-> pattern]), method)
<1> DEFINE route == [pattern |-> pattern, service |-> Len(log) + 1]
           entry == [method |-> method, pattern |-> pattern]
           routes2 == Append(routes, route)
           log2 == Append(log, entry)
<1>1. /\ route \in Route /\ entry \in Registration
      /\ route.pattern = pattern /\ route.service = Len(log) + 1
      /\ entry.method = method /\ entry.pattern = pattern
  BY LenProperties DEF Route, Registration
<1> HIDE DEF route, entry
<1>2. /\ Len(routes) \in Nat /\ Len(log) \in Nat
      /\ Len(routes2) = Len(routes) + 1 /\ Len(log2) = Len(log) + 1
      /\ routes2[Len(routes) + 1] = route /\ log2[Len(log) + 1] = entry
  BY <1>1, AppendLast
<1>3. /\ \A k \in 1..Len(routes) : routes2[k] = routes[k]
      /\ \A i \in 1..Len(log) : log2[i] = log[i]
  BY <1>1, AppendLast
<1>4. PICK r \in Nat, n \in Nat : Len(routes) = r /\ Len(log) = n
  BY <1>2
<1> HIDE DEF routes2, log2
<1>5. ASSUME NEW k \in 1..Len(routes2)
      PROVE  /\ routes2[k].service \in 1..Len(log2)
             /\ log2[routes2[k].service].method = method
             /\ log2[routes2[k].service].pattern = routes2[k].pattern
  <2>1. CASE k \in 1..r
    BY <1>2, <1>3, <1>4, <2>1 DEF Files
  <2>2. CASE k = r + 1
    BY <1>1, <1>2, <1>4, <2>2
  <2> QED
    BY <1>2, <1>4, <2>1, <2>2
<1>6. ASSUME NEW k \in 1..Len(routes2), NEW l \in 1..Len(routes2), k < l
      PROVE  routes2[k].service < routes2[l].service
  <2>1. k \in 1..r
    BY <1>2, <1>4, <1>6
  <2>2. routes2[k].service = routes[k].service /\ routes[k].service \in 1..n
    BY <1>3, <1>4, <2>1 DEF Files
  <2>3. CASE l \in 1..r
    BY <1>3, <1>4, <1>6, <2>1, <2>3 DEF Files
  <2>4. CASE l = r + 1
    <3>1. routes2[l].service = n + 1
      BY <1>1, <1>2, <1>4, <2>4
    <3> QED
      BY <2>2, <3>1
  <2> QED
    BY <1>2, <1>4, <2>3, <2>4
<1>7. ASSUME NEW i \in 1..Len(log2), log2[i].method = method
      PROVE  \E k \in 1..Len(routes2) : routes2[k].service = i
  <2>1. CASE i \in 1..n
    <3>1. PICK k \in 1..r : routes[k].service = i
      BY <1>3, <1>4, <1>7, <2>1 DEF Files
    <3> QED
      BY <1>2, <1>3, <1>4, <3>1
  <2>2. CASE i = n + 1
    BY <1>1, <1>2, <1>4, <2>2
  <2> QED
    BY <1>2, <1>4, <2>1, <2>2
<1>8. Files(routes2, log2, method)
  BY <1>5, <1>6, <1>7, Zenon DEF Files
<1> QED
  BY <1>8 DEF routes2, log2, route, entry

\* One of another method leaves the table as it is.
LEMMA FilesOther ==
  ASSUME NEW routes \in Seq(Route), NEW log \in Seq(Registration),
         NEW method, NEW entry \in Registration, entry.method # method,
         Files(routes, log, method)
  PROVE  Files(routes, Append(log, entry), method)
<1> DEFINE log2 == Append(log, entry)
<1>1. /\ Len(log) \in Nat /\ Len(log2) = Len(log) + 1
      /\ \A i \in 1..Len(log) : log2[i] = log[i]
      /\ log2[Len(log) + 1] = entry
  BY AppendLast
<1> HIDE DEF log2
<1>2. 1..Len(log) \subseteq 1..Len(log2)
  BY <1>1
<1>3. \A i \in 1..Len(log2) : log2[i].method = method => i \in 1..Len(log)
  BY <1>1
<1> QED
  BY <1>1, <1>2, <1>3 DEF Files, log2

\* The search of a table finds the earliest registration.
LEMMA SelectIsFirst ==
  ASSUME NEW routes \in Seq(Route), NEW log \in Seq(Registration),
         NEW method, NEW path, Files(routes, log, method)
  PROVE  IsFirst(Select(routes, path), log, method, path)
<1> DEFINE hits == {k \in DOMAIN routes : Matches(routes[k].pattern, path)}
<1>1. DOMAIN routes = 1..Len(routes) /\ Len(routes) \in Nat /\ Len(log) \in Nat
  BY LenProperties
<1>2. ASSUME NEW k \in hits
      PROVE  routes[k].service \in Hits(log, method, path)
  BY <1>1, <1>2 DEF Files, Hits
<1>3. ASSUME NEW i \in Hits(log, method, path)
      PROVE  \E k \in hits : routes[k].service = i
  <2>1. PICK k \in 1..Len(routes) : routes[k].service = i
    BY DEF Hits, Files
  <2>2. Matches(routes[k].pattern, path)
    BY <2>1 DEF Hits, Files
  <2> QED
    BY <1>1, <2>1, <2>2
<1>4. CASE hits = {}
  <2>1. Hits(log, method, path) = {}
    BY <1>3, <1>4
  <2> QED
    BY <1>4, <2>1 DEF Select, IsFirst
<1>5. CASE hits # {}
  <2>1. hits \in SUBSET Nat
    BY <1>1
  <2> DEFINE k == First(hits, 0)
  <2>2. k \in hits /\ \A l \in hits : k <= l
    BY <1>5, <2>1, FirstIsLeast
  <2>3. Select(routes, path) = routes[k].service
    BY <1>5 DEF Select
  <2> HIDE DEF k
  <2>4. ASSUME NEW i \in Hits(log, method, path) PROVE routes[k].service <= i
    <3>1. PICK l \in hits : routes[l].service = i
      BY <1>3
    <3>2. /\ k \in 1..Len(routes) /\ l \in 1..Len(routes) /\ k <= l
          /\ routes[k].service \in Nat /\ routes[l].service \in Nat
      BY <1>1, <2>2, <1>2 DEF Hits
    <3>3. k < l \/ k = l
      BY <1>1, <3>2
    <3> QED
      BY <3>1, <3>2, <3>3 DEF Files
  <2> QED
    BY <1>2, <2>2, <2>3, <2>4 DEF IsFirst
<1> QED
  BY <1>4, <1>5

-----------------------------------------------------------------------------
(* The inductive invariant.                                                *)

RouterTypeOK ==
  /\ table \in [Supported -> Seq(Route)]
  /\ registered \in Seq(Registration)
  /\ answer \in 0..Len(registered)

RouterInv ==
  /\ RouterTypeOK
  /\ \A method \in Supported : Files(table[method], registered, method)

\* Whatever the tables, a request gets the service that was registered first
\* of those that are for its method and match its path.
FirstRegistered ==
  \A method \in Methods, path \in Paths :
    IF method \in Supported
    THEN IsFirst(Dispatch(method, path), registered, method, path)
    ELSE Dispatch(method, path) = NotFound

\* The search of the empty table.
LEMMA NothingInEmpty == \A path : Select(<<>>, path) = NotFound
<1> SUFFICES ASSUME NEW path PROVE Select(<<>>, path) = NotFound
  OBVIOUS
<1>1. DOMAIN <<>> = {}
  OBVIOUS
<1>2. {k \in DOMAIN <<>> : Matches(<<>>[k].pattern, path)} = {}
  BY <1>1
<1> QED
  BY <1>2, Zenon DEF Select

\* The invariant says what a dispatch yields.
LEMMA InvFirst == RouterInv => FirstRegistered
<1> SUFFICES ASSUME RouterInv, NEW method \in Methods, NEW path \in Paths
             PROVE  IF method \in Supported
                    THEN IsFirst(Dispatch(method, path), registered, method, path)
                    ELSE Dispatch(method, path) = NotFound
  BY Zenon DEF FirstRegistered
<1>1. CASE method \in Supported
  <2>1. /\ table[method] \in Seq(Route) /\ registered \in Seq(Registration)
        /\ Files(table[method], registered, method)
    BY <1>1 DEF RouterInv, RouterTypeOK
  <2>2. Dispatch(method, path) = Select(table[method], path)
    BY <1>1 DEF Dispatch
  <2>3. IsFirst(Select(table[method], path), registered, method, path)
    BY <2>1, SelectIsFirst
  <2> QED
    BY <1>1, <2>2, <2>3
<1>2. CASE method \notin Supported
  BY <1>2, NothingInEmpty DEF Dispatch
<1> QED
  BY <1>1, <1>2

\* Nothing is registered at the start.
LEMMA RouterInit == Init => RouterInv
<1> SUFFICES ASSUME Init PROVE RouterInv
  OBVIOUS
<1>1. <<>> \in Seq(Route) /\ <<>> \in Seq(Registration) /\ Len(<<>>) = 0
  BY EmptySeq
<1>2. RouterTypeOK
  BY <1>1 DEF Init, RouterTypeOK, NotFound
<1>3. ASSUME NEW method \in Supported PROVE Files(table[method], registered, method)
  <2>1. table[method] = <<>> /\ registered = <<>>
    BY DEF Init
  <2>2. 1..Len(<<>>) = {}
    BY <1>1
  <2> QED
    BY <2>1, <2>2 DEF Files
<1> QED
  BY <1>2, <1>3 DEF RouterInv

\* A registration appends to the log, and to one table or to none.
LEMMA RegisterKeeps ==
  ASSUME RouterInv, NEW method \in Methods, NEW pattern \in Patterns,
         Register(method, pattern)
  PROVE  RouterInv'
<1> DEFINE entry == [method |-> method, pattern |-> pattern]
           route == [pattern |-> pattern, service |-> Len(registered) + 1]
<1>1. /\ registered \in Seq(Registration) /\ Len(registered) \in Nat
      /\ table \in [Supported -> Seq(Route)] /\ answer \in 0..Len(registered)
      /\ \A m \in Supported : Files(table[m], registered, m)
  BY LenProperties DEF RouterInv, RouterTypeOK
<1>2. entry \in Registration /\ entry.method = method /\ route \in Route
  BY <1>1 DEF Registration, Route
<1>3. registered' = Append(registered, entry) /\ answer' = answer
  BY DEF Register
<1>4. table' = IF method \in Supported
               THEN [table EXCEPT ![method] = Append(@, route)] ELSE table
  BY DEF Register, Slot
<1> HIDE DEF route
<1>5. registered' \in Seq(Registration) /\ Len(registered') = Len(registered) + 1
  BY <1>1, <1>2, <1>3, AppendLast
<1>6. answer' \in 0..Len(registered')
  BY <1>1, <1>3, <1>5
<1>7. table' \in [Supported -> Seq(Route)]
  <2>1. CASE method \in Supported
    <3>1. Append(table[method], route) \in Seq(Route)
      BY <1>1, <1>2, <2>1, AppendProperties
    <3> QED
      BY <1>1, <1>4, <2>1, <3>1
  <2>2. CASE method \notin Supported
    BY <1>1, <1>4, <2>2
  <2> QED
    BY <2>1, <2>2
<1>8. ASSUME NEW m \in Supported PROVE Files(table'[m], registered', m)
  <2>1. table[m] \in Seq(Route) /\ Files(table[m], registered, m)
    BY <1>1
  <2>2. CASE m = method
    <3>1. table'[m] = Append(table[m], route)
      BY <1>1, <1>4, <2>2
    <3>2. Files(Append(table[m], route), Append(registered, entry), m)
      BY <1>1, <2>1, <2>2, FilesOwn DEF route
    <3> QED
      BY <1>3, <3>1, <3>2
  <2>3. CASE m # method
    <3>1. table'[m] = table[m]
      BY <1>1, <1>4, <2>3
    <3>2. Files(table[m], Append(registered, entry), m)
      BY <1>1, <1>2, <2>1, <2>3, FilesOther
    <3> QED
      BY <1>3, <3>1, <3>2
  <2> QED
    BY <2>2, <2>3
<1> QED
  BY <1>5, <1>6, <1>7, <1>8 DEF RouterInv, RouterTypeOK

\* A request is answered with a registration.
LEMMA ServeKeeps ==
  ASSUME RouterInv, NEW method \in Methods, NEW path \in Paths,
         Serve(method, path)
  PROVE  RouterInv'
<1>1. Len(registered) \in Nat
  BY LenProperties DEF RouterInv, RouterTypeOK
<1>2. Dispatch(method, path) \in 0..Len(registered)
  BY <1>1, InvFirst DEF FirstRegistered, IsFirst, Hits, NotFound
<1> QED
  BY <1>2 DEF Serve, RouterInv, RouterTypeOK

\* Every step keeps the invariant.
LEMMA RouterStep == RouterInv /\ [Next]_vars => RouterInv'
<1> SUFFICES ASSUME RouterInv, [Next]_vars PROVE RouterInv'
  OBVIOUS
<1>1. CASE UNCHANGED vars
  BY <1>1 DEF vars, RouterInv, RouterTypeOK
<1> QED
  BY <1>1, RegisterKeeps, ServeKeeps DEF Next

\* The inductive invariant holds in every reachable state.
THEOREM Invariance == Spec => []RouterInv
BY RouterInit, RouterStep, PTL DEF Spec

\* Types are kept, and a request is answered with a registered service.
THEOREM TypeCorrect == Spec => []RouterTypeOK
<1>1. RouterInv => RouterTypeOK
  BY DEF RouterInv
<1> QED
  BY <1>1, Invariance, PTL

\* The six tables behave as one order of registrations (server.hpp:31-85).
THEOREM FirstMatchWins == Spec => []FirstRegistered
BY InvFirst, Invariance, PTL

-----------------------------------------------------------------------------
(* A registration only adds.                                               *)

\* A longer log has the hits of the shorter one, and perhaps its last entry.
LEMMA HitsGrow ==
  ASSUME NEW log \in Seq(Registration), NEW entry \in Registration,
         NEW method, NEW path
  PROVE  /\ \A i \in Hits(Append(log, entry), method, path) :
              i \in Hits(log, method, path)
                \/ (i = Len(log) + 1 /\ entry.method = method)
         /\ Hits(log, method, path) \subseteq Hits(Append(log, entry), method, path)
         /\ \A i \in Hits(log, method, path) : i < Len(log) + 1
<1>1. /\ Len(log) \in Nat /\ Len(Append(log, entry)) = Len(log) + 1
      /\ \A i \in 1..Len(log) : Append(log, entry)[i] = log[i]
      /\ Append(log, entry)[Len(log) + 1] = entry
      /\ \A i \in 1..(Len(log) + 1) : i \in 1..Len(log) \/ i = Len(log) + 1
  BY AppendLast
<1> QED
  BY <1>1 DEF Hits

\* So the earliest of them changes only if there was none.
LEMMA FirstOnlyAdds ==
  ASSUME NEW log \in Seq(Registration), NEW entry \in Registration,
         NEW method, NEW path, NEW n, NEW m, n # m,
         IsFirst(n, log, method, path),
         IsFirst(m, Append(log, entry), method, path)
  PROVE  n = NotFound /\ m = Len(log) + 1 /\ entry.method = method
<1> DEFINE old == Hits(log, method, path)
           new == Hits(Append(log, entry), method, path)
<1>1. /\ \A i \in new : i \in old \/ (i = Len(log) + 1 /\ entry.method = method)
      /\ old \subseteq new /\ \A i \in old : i < Len(log) + 1
      /\ Len(log) \in Nat /\ old \subseteq Nat
  BY HitsGrow, LenProperties DEF Hits
<1>2. /\ IF old = {} THEN n = NotFound ELSE n \in old /\ \A i \in old : n <= i
      /\ IF new = {} THEN m = NotFound ELSE m \in new /\ \A i \in new : m <= i
  BY DEF IsFirst
<1> HIDE DEF old, new
<1>3. CASE old = {}
  BY <1>1, <1>2, <1>3
<1>4. CASE old # {}
  <2>1. n \in old /\ m \in new /\ m <= n /\ (m \in old => n <= m)
    BY <1>1, <1>2, <1>4
  <2>2. m \in old
    BY <1>1, <2>1
  <2>3. n \in Nat /\ m \in Nat /\ m <= n /\ n <= m
    BY <1>1, <2>1, <2>2
  <2> QED
    BY <2>3
<1> QED
  BY <1>3, <1>4

\* A registration changes nothing for a request that is already routed, and
\* nothing for the other methods (server.hpp:31-58).
THEOREM OnlyAdds == Spec => RegistrationOnlyAdds
<1>1. RouterInv /\ FirstRegistered /\ FirstRegistered' /\ [Next]_vars
        => [\A method \in Methods, path \in Paths :
              Dispatch(method, path)' # Dispatch(method, path) =>
                /\ Dispatch(method, path) = NotFound
                /\ Dispatch(method, path)' = Len(registered')
                /\ registered'[Len(registered')].method = method]_<<table, registered>>
  <2> SUFFICES ASSUME RouterInv, FirstRegistered, FirstRegistered', Next,
                      <<table, registered>>' # <<table, registered>>,
                      NEW method \in Methods, NEW path \in Paths,
                      Dispatch(method, path)' # Dispatch(method, path)
               PROVE  /\ Dispatch(method, path) = NotFound
                      /\ Dispatch(method, path)' = Len(registered')
                      /\ registered'[Len(registered')].method = method
    BY DEF vars
  <2>1. PICK m \in Methods, p \in Patterns : Register(m, p)
    BY DEF Next, Serve
  <2> DEFINE entry == [method |-> m, pattern |-> p]
  <2>2. entry \in Registration /\ registered' = Append(registered, entry)
    BY <2>1 DEF Registration, Register
  <2> HIDE DEF entry
  <2>3. registered \in Seq(Registration) /\ Len(registered') = Len(registered) + 1
        /\ registered'[Len(registered')] = entry
    BY <2>2, AppendLast DEF RouterInv, RouterTypeOK
  <2>4. method \in Supported
    BY Zenon DEF FirstRegistered
  <2>5. /\ IsFirst(Dispatch(method, path), registered, method, path)
        /\ IsFirst(Dispatch(method, path)', registered', method, path)
    BY <2>4, Zenon DEF FirstRegistered
  <2> QED
    BY <2>2, <2>3, <2>5, FirstOnlyAdds
<1> QED
  BY <1>1, Invariance, FirstMatchWins, PTL DEF Spec, RegistrationOnlyAdds

-----------------------------------------------------------------------------
(* Routes with parameters.                                                 *)

\* A route with parameters is never the one that answers a path, however the
\* routes are registered: what the run param_route finds on one instance.
ParamRoutesUnused ==
  \A method \in Methods, path \in Paths \ {<<>>} :
    LET n == Dispatch(method, path)
    IN  n # NotFound => ~HasParams(registered[n].pattern)

THEOREM ParamRoutesDead ==
  ASSUME NEW Tokens, Paths \subseteq Seq(Tokens)
  PROVE  Spec => []ParamRoutesUnused
<1>1. FirstRegistered => ParamRoutesUnused
  BY ParamsMatchNothing DEF FirstRegistered, ParamRoutesUnused, IsFirst, Hits
<1> QED
  BY <1>1, FirstMatchWins, PTL
=============================================================================
