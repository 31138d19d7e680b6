-------------------------- MODULE ClientSendProofs --------------------------
(***************************************************************************)
(* Proofs about client::send: for every set of redirection limits, its     *)
(* connections are bounded, and only the connection of the current hop has *)
(* a deadline.                                                             *)
(***************************************************************************)
EXTENDS ClientSend, TLAPS

\* The three invariants together are inductive.  Each needs the type
\* invariant, which ties the number of streams to the hop.
IInv == TypeOK /\ ConnectionsBounded /\ OnlyCurrentIsTimed

\* What a suspended call holds: the current stream exists unless https has
\* still to create it, and all streams before it are merely held.
LEMMA Held ==
  ASSUME IInv, phase # "done"
  PROVE  /\ result = "none" /\ limit \in Nat /\ hop \in Nat
         /\ phase \in StreamOps => Len(streams) = hop + 1
         /\ phase = "resolve" /\ scheme = "http" => Len(streams) = hop + 1
         /\ phase = "resolve" /\ scheme = "https" => Len(streams) = hop
         /\ \A i \in 1..(Len(streams) - 1) : streams[i] = "never"
         /\ phase = "resolve" /\ scheme = "https" =>
              \A i \in 1..Len(streams) : streams[i] = "never"
  BY LimitsAssumption
     DEF IInv, TypeOK, OnlyCurrentIsTimed, HeldOnly, StreamOps, Deadlines

\* The call starts with at most the stream of its first hop.
LEMMA IInvInit == Init => IInv
<1> SUFFICES ASSUME Init PROVE IInv
  OBVIOUS
<1>1. /\ phase = "resolve" /\ hop = 0 /\ result = "none" /\ limit \in Nat
      /\ FreshDeadline \in Deadlines
  BY LimitsAssumption DEF Init, FreshDeadline, Deadlines
<1>2. CASE scheme = "http"
  <2>1. /\ streams = <<FreshDeadline>> /\ Len(streams) = 1
        /\ streams \in Seq(Deadlines)
    BY <1>1, <1>2 DEF Init
  <2> QED
    BY <1>1, <1>2, <2>1 DEF Init, IInv, TypeOK, ConnectionsBounded,
       OnlyCurrentIsTimed, HeldOnly
<1>3. CASE scheme = "https"
  <2>1. streams = <<>> /\ Len(streams) = 0 /\ streams \in Seq(Deadlines)
    BY <1>1, <1>3 DEF Init
  <2> QED
    BY <1>1, <1>3, <2>1 DEF Init, IInv, TypeOK, ConnectionsBounded,
       OnlyCurrentIsTimed, HeldOnly
<1> QED
  BY <1>2, <1>3 DEF Init, Schemes

\* A step from a suspended call to a suspended one on the same hop, which at
\* most gives the current stream a deadline, keeps the invariant.
LEMMA SameHop ==
  ASSUME IInv, UNCHANGED <<request, scheme, hop, result>>,
         phase \in StreamOps, phase' \in StreamOps,
         NEW d \in Deadlines, streams' = SetDeadline(d) \/ streams' = streams
  PROVE  IInv'
<1>1. /\ streams \in Seq(Deadlines) /\ Len(streams) = hop + 1
      /\ result = "none" /\ hop \in Nat /\ limit \in Nat
      /\ \A i \in 1..(Len(streams) - 1) : streams[i] = "never"
  BY Held DEF IInv, TypeOK, StreamOps
<1>2. /\ streams' \in Seq(Deadlines) /\ Len(streams') = Len(streams)
      /\ \A i \in 1..(Len(streams) - 1) : streams'[i] = "never"
  BY <1>1 DEF SetDeadline
<1>3. TypeOK'
  BY <1>1, <1>2 DEF IInv, TypeOK, request, StreamOps
<1>4. ConnectionsBounded'
  BY <1>1, <1>2 DEF IInv, ConnectionsBounded, request, StreamOps
<1>5. OnlyCurrentIsTimed'
  BY <1>1, <1>2 DEF OnlyCurrentIsTimed, HeldOnly, StreamOps
<1> QED
  BY <1>3, <1>4, <1>5 DEF IInv

\* Leaving the calls keeps the invariant: with an error nothing stays open,
\* with a response the current stream does, its deadline taken away.
LEMMA Leave ==
  ASSUME IInv, UNCHANGED <<request, scheme, hop>>, phase # "done",
         \/ Return("error", streams)
         \/ phase \in StreamOps /\ Return("response", Unarmed)
  PROVE  IInv'
<1>1. /\ hop \in Nat /\ limit \in Nat /\ hop <= limit + 1
      /\ streams \in Seq(Deadlines)
      /\ phase \in StreamOps => Len(streams) = hop + 1
  BY Held DEF IInv, TypeOK, ConnectionsBounded
<1>2. /\ phase' = "done"
      /\ \/ streams' = <<>> /\ result' = "error"
         \/ streams' = <<"never">> /\ result' = "response"
  BY <1>1 DEF Return, Unarmed, SetDeadline
<1>3. /\ streams' \in Seq(Deadlines)
      /\ Len(streams') = IF result' = "response" THEN 1 ELSE 0
      /\ \A i \in DOMAIN streams' : streams'[i] = "never"
  <2>1. CASE streams' = <<>> /\ result' = "error"
    BY <2>1
  <2>2. CASE streams' = <<"never">> /\ result' = "response"
    BY <2>2 DEF Deadlines
  <2> QED
    BY <1>2, <2>1, <2>2
<1>4. TypeOK'
  BY <1>1, <1>2, <1>3 DEF IInv, TypeOK, request, StreamOps
<1>5. ConnectionsBounded' /\ OnlyCurrentIsTimed'
  BY <1>1, <1>2, <1>3 DEF ConnectionsBounded, OnlyCurrentIsTimed, request
<1> QED
  BY <1>4, <1>5 DEF IInv

\* A redirection makes the stream of the current hop one that is held, and
\* takes its deadline away first.
LEMMA Redirect ==
  ASSUME IInv, phase = "header", MayRedirect, NEW s \in Schemes,
         hop' = hop + 1, Enter(s, Unarmed), UNCHANGED <<request, result>>
  PROVE  IInv'
<1>1. /\ streams \in Seq(Deadlines) /\ Len(streams) = hop + 1
      /\ result = "none" /\ hop \in Nat /\ limit \in Nat /\ hop <= limit
      /\ \A i \in 1..(Len(streams) - 1) : streams[i] = "never"
  BY Held DEF IInv, TypeOK, StreamOps, MayRedirect
<1>2. /\ Unarmed \in Seq(Deadlines) /\ Len(Unarmed) = hop + 1
      /\ \A i \in 1..(hop + 1) : Unarmed[i] = "never"
  BY <1>1 DEF Unarmed, SetDeadline, Deadlines
<1>3. /\ phase' = "resolve" /\ scheme' = s /\ FreshDeadline \in Deadlines
      /\ streams' = IF s = "http" THEN Append(Unarmed, FreshDeadline) ELSE Unarmed
  BY DEF Enter, FreshDeadline, Deadlines
<1>4. /\ streams' \in Seq(Deadlines)
      /\ Len(streams') = IF s = "https" THEN hop + 1 ELSE hop + 2
      /\ \A i \in 1..(hop + 1) : streams'[i] = "never"
  <2>1. CASE s = "http"
    BY <2>1, <1>1, <1>2, <1>3
  <2>2. CASE s = "https"
    BY <2>2, <1>1, <1>2, <1>3
  <2> QED
    BY <2>1, <2>2 DEF Schemes
<1>5. TypeOK'
  BY <1>1, <1>3, <1>4 DEF IInv, TypeOK, request, StreamOps
<1>6. ConnectionsBounded'
  BY <1>1, <1>3, <1>4 DEF ConnectionsBounded, request
<1>7. OnlyCurrentIsTimed'
  BY <1>1, <1>3, <1>4 DEF OnlyCurrentIsTimed, HeldOnly, Schemes
<1> QED
  BY <1>5, <1>6, <1>7 DEF IInv

\* Once the host is resolved an https call has its stream as well.
LEMMA ResolvedKeeps == ASSUME IInv, Resolved PROVE IInv'
<1>1. /\ streams \in Seq(Deadlines) /\ result = "none"
      /\ hop \in Nat /\ limit \in Nat /\ hop <= limit + 1
      /\ Len(streams) = IF scheme = "https" THEN hop ELSE hop + 1
      /\ \A i \in 1..(Len(streams) - 1) : streams[i] = "never"
      /\ scheme = "https" => \A i \in 1..Len(streams) : streams[i] = "never"
  BY Held DEF IInv, TypeOK, ConnectionsBounded, Resolved, Schemes
<1>2. /\ streams' \in Seq(Deadlines) /\ Len(streams') = hop + 1
      /\ \A i \in 1..hop : streams'[i] = "never"
  <2>1. CASE scheme = "https"
    BY <2>1, <1>1 DEF Resolved, FreshDeadline, Deadlines
  <2>2. CASE scheme # "https"
    BY <2>2, <1>1 DEF Resolved
  <2> QED
    BY <2>1, <2>2
<1>3. TypeOK'
  BY <1>1, <1>2 DEF IInv, TypeOK, request, Resolved, StreamOps
<1>4. ConnectionsBounded'
  BY <1>1, <1>2 DEF ConnectionsBounded, request, Resolved
<1>5. OnlyCurrentIsTimed'
  BY <1>1, <1>2 DEF OnlyCurrentIsTimed, HeldOnly, Resolved
<1> QED
  BY <1>3, <1>4, <1>5 DEF IInv

\* Only the current stream can be armed, so only its deadline can pass.
LEMMA DeadlineKeeps ==
  ASSUME IInv, NEW i \in DOMAIN streams, DeadlinePasses(i)
  PROVE  IInv'
<1>1. streams \in Seq(Deadlines) /\ limit \in Nat
  BY LimitsAssumption DEF IInv, TypeOK
<1>2. streams' \in Seq(Deadlines) /\ Len(streams') = Len(streams)
  BY <1>1 DEF DeadlinePasses, Deadlines
<1>3. TypeOK'
  BY <1>2 DEF IInv, TypeOK, DeadlinePasses, request
<1>4. ConnectionsBounded'
  BY <1>2 DEF IInv, ConnectionsBounded, DeadlinePasses, request
<1>5. ~HeldOnly(i)
  BY <1>1 DEF IInv, OnlyCurrentIsTimed, DeadlinePasses
<1>6. OnlyCurrentIsTimed'
  BY <1>1, <1>2, <1>5 DEF IInv, OnlyCurrentIsTimed, HeldOnly, DeadlinePasses
<1> QED
  BY <1>3, <1>4, <1>6 DEF IInv

\* Every step of the call keeps the invariant.
LEMMA IInvStep == IInv /\ [Next]_vars => IInv'
<1> SUFFICES ASSUME IInv, [Next]_vars PROVE IInv'
  OBVIOUS
<1>1. CASE Resolved
  BY <1>1, ResolvedKeeps
<1>2. CASE ResolveFails \/ OperationFails \/ TimesOut
  BY <1>2, Leave DEF ResolveFails, OperationFails, TimesOut, StreamOps
<1>3. CASE Connected
  <2>1. FreshDeadline \in Deadlines
    BY DEF FreshDeadline, Deadlines
  <2>2. streams' = SetDeadline("armed") \/ streams' = streams
    BY <1>3 DEF Connected, Rearm
  <2> QED
    BY <1>3, <2>2, SameHop DEF Connected, StreamOps, Deadlines
<1>4. CASE HandshakeDone
  <2>1. streams' = SetDeadline("armed") \/ streams' = streams
    BY <1>4 DEF HandshakeDone, Rearm
  <2> QED
    BY <1>4, <2>1, SameHop DEF HandshakeDone, StreamOps, Deadlines
<1>5. CASE Written
  BY <1>5, SameHop DEF Written, StreamOps, Deadlines
<1>6. ASSUME NEW location \in Schemes \cup {"none", "unusable"},
             HeaderRead(location)
      PROVE  IInv'
  <2>1. CASE (location = "none" \/ ~auto) /\ Return("response", Unarmed)
             /\ UNCHANGED <<scheme, hop>>
    BY <1>6, <2>1, Leave DEF HeaderRead, StreamOps
  <2>2. CASE /\ location \in Schemes /\ MayRedirect
             /\ hop' = hop + 1 /\ Enter(location, Unarmed) /\ UNCHANGED result
    BY <1>6, <2>2, Redirect DEF HeaderRead
  <2>3. CASE Return("error", streams) /\ UNCHANGED <<scheme, hop>>
    BY <1>6, <2>3, Leave DEF HeaderRead, StreamOps
  <2> QED
    BY <1>6, <2>1, <2>2, <2>3 DEF HeaderRead
<1>7. ASSUME NEW i \in DOMAIN streams, DeadlinePasses(i) PROVE IInv'
  BY <1>7, DeadlineKeeps
<1>8. CASE UNCHANGED vars
  BY <1>8 DEF vars, request, IInv, TypeOK, ConnectionsBounded,
              OnlyCurrentIsTimed, HeldOnly
<1> QED
  BY <1>1, <1>2, <1>3, <1>4, <1>5, <1>6, <1>7, <1>8 DEF Next

\* The invariant holds for every choice of limits, and with it its parts.
THEOREM Invariance == Spec => []IInv
  BY IInvInit, IInvStep, PTL DEF Spec

\* The types hold: the calls hold one stream for each hop, no more.
THEOREM TypeCorrect == Spec => []TypeOK
<1>1. IInv => TypeOK
  BY DEF IInv
<1> QED
  BY Invariance, <1>1, PTL

\* However long the chain of redirections of the servers, send follows at
\* most max_redirects + 1 of them and holds at most max_redirects + 2
\* connections.
THEOREM BoundedConnections == Spec => []ConnectionsBounded
<1>1. IInv => ConnectionsBounded
  BY DEF IInv
<1> QED
  BY Invariance, <1>1, PTL

\* No deadline is in force on a held connection or on a returned response.
THEOREM NoStrayDeadline == Spec => []OnlyCurrentIsTimed
<1>1. IInv => OnlyCurrentIsTimed
  BY DEF IInv
<1> QED
  BY Invariance, <1>1, PTL
=============================================================================
