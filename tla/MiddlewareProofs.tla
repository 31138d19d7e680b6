-------------------------- MODULE MiddlewareProofs --------------------------
(***************************************************************************)
(* Proofs about layered services: the order of the handlers, the place of  *)
(* a handler that was moved, and which services throw, for any number of   *)
(* requests, middlewares and services.                                     *)
(***************************************************************************)
EXTENDS Middleware, FiniteSetTheorems, SequenceTheorems, TLAPS

Pairs == {"in", "service", "out"} \X Nat
Layer == [middleware : Nat, kind : Kinds, empty : BOOLEAN]
Call == [service : Nat, phase : Phases, at : Int, trace : Seq(Pairs),
         short : BOOLEAN, own : BOOLEAN, stale : BOOLEAN]

TypeOK ==
  /\ builder \in Seq(Kinds) /\ spent \subseteq Movable
  /\ services \in Seq(Seq(Layer)) /\ call \in [Requests -> Call]

\* An earlier service than s has middleware i, too.
Earlier(i, s) == \E t \in 1..(s - 1) : i <= Len(services[t])

\* A service has the first middlewares of the builder for its layers, and the
\* handlers that no earlier one has taken.
Layered(layers, s) ==
  /\ Len(layers) <= Len(builder)
  /\ \A l \in 1..Len(layers) :
       /\ layers[l].middleware = l /\ layers[l].kind = builder[l]
       /\ layers[l].empty <=> builder[l] # "function" /\ Earlier(l, s)

Built ==
  /\ \A s \in DOMAIN services : Layered(services[s], s)
  /\ \A i \in Movable :
       i \in spent <=> \E s \in DOMAIN services : i <= Len(services[s])

\* A handler that was moved is in exactly one service.
Holds(s, i) == i <= Len(services[s]) /\ ~services[s][i].empty

Held ==
  \A i \in spent : \E s \in DOMAIN services :
    Holds(s, i) /\ \A t \in DOMAIN services : Holds(t, i) => t = s

\* The depth a call has reached, counted as in Depth; one that has thrown
\* no longer says on which way.
Places(c) == IF c.phase = "in" THEN {-c.at}
             ELSE IF c.phase = "threw" THEN {-c.at, c.at} ELSE {c.at}

AtLayer(c, layers) ==
  /\ c.phase = "in" => c.at \in 0..Len(layers)
  /\ c.phase = "out" => c.at \in 1..(Len(layers) + 1)
  /\ c.phase = "replied" => c.at = Len(layers) + 1
  /\ c.phase = "threw" => c.at \in 1..Len(layers) /\ layers[c.at].empty

\* The handlers called are due, were there, and were called outside in.
Traced(trace, kinds, layers) ==
  /\ \A k \in DOMAIN trace :
       /\ trace[k] \in Due(kinds, Len(layers))
       /\ trace[k][1] # "service" => ~layers[trace[k][2]].empty
  /\ \A j, k \in DOMAIN trace : j < k => Depth(trace[j]) < Depth(trace[k])

\* They are those that lie before depth d.
Before(trace, kinds, n, d) ==
  \A p \in Due(kinds, n) : Has(trace, p) <=> Depth(p) < d

Passing(c, kinds, layers) ==
  /\ AtLayer(c, layers) /\ Traced(c.trace, kinds, layers)
  /\ \E d \in Places(c) : Before(c.trace, kinds, Len(layers), d)

Calls ==
  \A r \in Requests : call[r].phase # "new" =>
    /\ call[r].service \in DOMAIN services
    /\ Passing(call[r], builder, services[call[r].service])

\* The inductive invariant.
IInv == TypeOK /\ Built /\ Held /\ Calls

-----------------------------------------------------------------------------
(* The handlers due.                                                       *)

\* What is due lies at a depth of its own.
LEMMA DueDepth ==
  ASSUME NEW kinds, NEW n \in Nat, NEW p \in Due(kinds, n)
  PROVE  /\ p \in Pairs /\ Depth(p) \in Int /\ -n <= Depth(p) /\ Depth(p) <= n
         /\ Depth(p) < 0 => p = <<"in", -Depth(p)>> /\ kinds[-Depth(p)] # "after"
         /\ Depth(p) = 0 => p = <<"service", 0>>
         /\ Depth(p) > 0 => p = <<"out", Depth(p)>> /\ kinds[Depth(p)] # "pre"
<1>1. CASE \E i \in 1..n : p = <<"in", i>> /\ kinds[i] # "after"
  <2> PICK i \in 1..n : p = <<"in", i>> /\ kinds[i] # "after"
    BY <1>1
  <2>1. p[1] = "in" /\ p[2] = i
    OBVIOUS
  <2>2. Depth(p) = -i /\ -(-i) = i
    BY <2>1 DEF Depth
  <2> QED
    BY <2>2 DEF Pairs
<1>2. CASE p = <<"service", 0>>
  <2>1. Depth(p) = 0
    BY <1>2 DEF Depth
  <2> QED
    BY <1>2, <2>1 DEF Pairs
<1>3. CASE \E i \in 1..n : p = <<"out", i>> /\ kinds[i] # "pre"
  <2> PICK i \in 1..n : p = <<"out", i>> /\ kinds[i] # "pre"
    BY <1>3
  <2>1. Depth(p) = i
    BY DEF Depth
  <2> QED
    BY <2>1 DEF Pairs
<1> QED
  BY <1>1, <1>2, <1>3 DEF Due

\* Middlewares added later change nothing.
LEMMA DueKept ==
  ASSUME NEW kinds, NEW more, NEW n \in Nat, \A i \in 1..n : more[i] = kinds[i]
  PROVE  Due(more, n) = Due(kinds, n)
  BY DEF Due

\* A call passes the depth of a layer that has nothing to call there.
LEMMA PassesLayer ==
  ASSUME NEW kinds, NEW n \in Nat, NEW trace, NEW d \in Int,
         Before(trace, kinds, n, d),
         \A p \in Due(kinds, n) : Depth(p) # d
  PROVE  Before(trace, kinds, n, d + 1)
<1> SUFFICES ASSUME NEW p \in Due(kinds, n)
             PROVE  Has(trace, p) <=> Depth(p) < d + 1
  BY DEF Before
<1>1. Depth(p) \in Int /\ Depth(p) # d
  BY DueDepth
<1>2. Depth(p) < d + 1 <=> Depth(p) < d
  BY <1>1
<1> QED
  BY <1>2 DEF Before

\* Or it calls what is due there.
LEMMA CallsHandler ==
  ASSUME NEW kinds, NEW layers, Len(layers) \in Nat, NEW trace \in Seq(Pairs),
         NEW p \in Due(kinds, Len(layers)),
         Traced(trace, kinds, layers),
         Before(trace, kinds, Len(layers), Depth(p)),
         p[1] # "service" => ~layers[p[2]].empty
  PROVE  /\ Append(trace, p) \in Seq(Pairs)
         /\ Traced(Append(trace, p), kinds, layers)
         /\ Before(Append(trace, p), kinds, Len(layers), Depth(p) + 1)
<1> DEFINE longer == Append(trace, p)
           m == Len(trace)
<1>1. p \in Pairs /\ Depth(p) \in Int /\ m \in Nat
  BY DueDepth
<1>2. /\ longer \in Seq(Pairs) /\ DOMAIN longer = 1..(m + 1) /\ DOMAIN trace = 1..m
      /\ \A k \in 1..m : longer[k] = trace[k]
      /\ longer[m + 1] = p
  BY <1>1, AppendProperties
<1> HIDE DEF longer, m
<1>3. \A q : Has(longer, q) <=> Has(trace, q) \/ q = p
  BY <1>1, <1>2 DEF Has
<1>4. \A k \in 1..m : Depth(trace[k]) < Depth(p)
  BY <1>2 DEF Traced, Before, Has
<1>5. Traced(longer, kinds, layers)
  <2>1. ASSUME NEW k \in 1..(m + 1)
        PROVE  /\ longer[k] \in Due(kinds, Len(layers))
               /\ longer[k][1] # "service" => ~layers[longer[k][2]].empty
    <3>1. CASE k = m + 1
      BY <1>2, <3>1
    <3>2. CASE k # m + 1
      <4>1. k \in 1..m
        BY <1>1, <3>2
      <4> QED
        BY <1>2, <4>1 DEF Traced
    <3> QED
      BY <3>1, <3>2
  <2>2. ASSUME NEW j \in 1..(m + 1), NEW k \in 1..(m + 1), j < k
        PROVE  Depth(longer[j]) < Depth(longer[k])
    <3>1. j \in 1..m
      BY <1>1, <2>2
    <3>2. CASE k = m + 1
      BY <1>2, <1>4, <3>1, <3>2
    <3>3. CASE k # m + 1
      <4>1. k \in 1..m
        BY <1>1, <3>3
      <4> QED
        BY <1>2, <2>2, <3>1, <4>1 DEF Traced
    <3> QED
      BY <3>2, <3>3
  <2> QED
    BY <1>2, <2>1, <2>2 DEF Traced
<1>6. Before(longer, kinds, Len(layers), Depth(p) + 1)
  <2> SUFFICES ASSUME NEW q \in Due(kinds, Len(layers))
               PROVE  Has(longer, q) <=> Depth(q) < Depth(p) + 1
    BY DEF Before
  <2>1. Depth(q) \in Int
    BY DueDepth
  <2>2. Depth(q) = Depth(p) => q = p
    BY <1>1, DueDepth
  <2>3. Has(trace, q) <=> Depth(q) < Depth(p)
    BY DEF Before
  <2>4. CASE q = p
    BY <1>1, <1>3, <2>4
  <2>5. CASE q # p
    <3>1. Depth(q) < Depth(p) + 1 <=> Depth(q) < Depth(p)
      BY <1>1, <2>1, <2>2, <2>5
    <3> QED
      BY <1>3, <2>3, <2>5, <3>1
  <2> QED
    BY <2>4, <2>5
<1> QED
  BY <1>2, <1>5, <1>6 DEF longer

-----------------------------------------------------------------------------
(* Building.                                                               *)

LEMMA InitGood == Init => IInv
<1> SUFFICES ASSUME Init PROVE IInv
  OBVIOUS
<1>1. builder \in Seq(Kinds) /\ services \in Seq(Seq(Layer)) /\ spent \subseteq Movable
  BY EmptySeq DEF Init
<1>2. <<>> \in Seq(Pairs)
  BY EmptySeq
<1>3. call \in [Requests -> Call]
  BY <1>2 DEF Init, Idle, Call, Phases
<1>4. Built /\ Held
  <2>1. spent = {} /\ DOMAIN services = {} /\ Movable = {}
    BY DEF Init, Movable
  <2> QED
    BY <2>1 DEF Built, Layered, Held
<1>5. Calls
  BY DEF Init, Calls, Idle
<1> QED
  BY <1>1, <1>3, <1>4, <1>5 DEF IInv, TypeOK

\* The shape of the services.
LEMMA Shapes ==
  ASSUME TypeOK
  PROVE  /\ Len(builder) \in Nat /\ DOMAIN builder = 1..Len(builder)
         /\ Len(services) \in Nat /\ DOMAIN services = 1..Len(services)
         /\ \A s \in DOMAIN services :
              /\ services[s] \in Seq(Layer) /\ Len(services[s]) \in Nat
              /\ DOMAIN services[s] = 1..Len(services[s])
              /\ \A l \in 1..Len(services[s]) : services[s][l] \in Layer
<1>1. builder \in Seq(Kinds) /\ services \in Seq(Seq(Layer))
  BY DEF TypeOK
<1>2. ASSUME NEW s \in DOMAIN services
      PROVE  services[s] \in Seq(Layer)
  BY <1>1, <1>2
<1>3. ASSUME NEW q \in Seq(Layer)
      PROVE  Len(q) \in Nat /\ DOMAIN q = 1..Len(q) /\ \A l \in 1..Len(q) : q[l] \in Layer
  OBVIOUS
<1> QED
  BY <1>1, <1>2, <1>3

\* A call in a service goes on as it was, when the builder or the services
\* grow.
LEMMA CallsKept ==
  ASSUME TypeOK, Built, Calls, call' = call,
         \A i \in 1..Len(builder) : builder'[i] = builder[i],
         \A s \in DOMAIN services : s \in DOMAIN services' /\ services'[s] = services[s]
  PROVE  Calls'
<1> SUFFICES ASSUME NEW r \in Requests, call[r].phase # "new"
             PROVE  /\ call[r].service \in DOMAIN services'
                    /\ Passing(call[r], builder', services'[call[r].service])
  BY DEF Calls
<1> DEFINE s == call[r].service
           n == Len(services[s])
<1>1. s \in DOMAIN services /\ Passing(call[r], builder, services[s])
  BY DEF Calls
<1>2. n \in Nat /\ n <= Len(builder) /\ Len(builder) \in Nat
  BY <1>1, Shapes DEF Built, Layered
<1>3. s \in DOMAIN services' /\ services'[s] = services[s]
  BY <1>1
<1>4. \A i \in 1..n : builder'[i] = builder[i]
  BY <1>2
<1> HIDE DEF n
<1>5. Due(builder', n) = Due(builder, n)
  BY <1>2, <1>4, DueKept
<1>6. Passing(call[r], builder', services[s])
  BY <1>1, <1>5 DEF Passing, Traced, Before, n
<1> QED
  BY <1>3, <1>6

LEMMA WithMiddlewareKeeps ==
  ASSUME IInv, NEW kind \in Kinds, WithMiddleware(kind)
  PROVE  IInv'
<1> DEFINE m == Len(builder)
<1>1. /\ TypeOK /\ Built /\ Held /\ Calls
      /\ UNCHANGED <<spent, services, call>> /\ builder' = Append(builder, kind)
  BY DEF IInv, WithMiddleware
<1>2. /\ builder' \in Seq(Kinds) /\ Len(builder') = m + 1 /\ m \in Nat
      /\ DOMAIN builder' = 1..(m + 1) /\ DOMAIN builder = 1..m
      /\ \A i \in 1..m : builder'[i] = builder[i]
  <2>1. builder \in Seq(Kinds)
    BY <1>1 DEF TypeOK
  <2> QED
    BY <1>1, <2>1, AppendProperties
<1> HIDE DEF m
<1>3. \A i \in 1..m : i \in Movable' <=> i \in Movable
  BY <1>2 DEF Movable
<1>4. TypeOK'
  <2>1. spent' \subseteq Movable'
    BY <1>1, <1>2, <1>3 DEF TypeOK, Movable
  <2> QED
    BY <1>1, <1>2, <2>1 DEF TypeOK
<1>5. Built'
  <2>1. ASSUME NEW s \in DOMAIN services
        PROVE  Layered(services[s], s)'
    <3>1. Len(services[s]) \in Nat /\ Len(services[s]) <= m
      BY <1>1, Shapes DEF Built, Layered, m
    <3>2. \A l \in 1..Len(services[s]) : builder'[l] = builder[l]
      BY <1>2, <3>1
    <3> QED
      BY <1>1, <1>2, <3>1, <3>2 DEF Built, Layered, Earlier
  <2>2. ASSUME NEW i \in Movable'
        PROVE  i \in spent <=> \E s \in DOMAIN services : i <= Len(services[s])
    <3>1. CASE i \in 1..m
      BY <1>1, <1>3, <3>1 DEF Built, Layered
    <3>2. CASE i = m + 1
      <4>1. i \notin spent
        BY <1>1, <1>2, <3>2 DEF TypeOK, Movable
      <4>2. \A s \in DOMAIN services : ~(i <= Len(services[s]))
        BY <1>1, <1>2, <3>2, Shapes DEF Built, Layered, m
      <4> QED
        BY <4>1, <4>2
    <3> QED
      BY <1>2, <3>1, <3>2 DEF Movable
  <2> QED
    BY <1>1, <2>1, <2>2 DEF Built
<1>6. Held'
  BY <1>1 DEF Held, Holds
<1>7. Calls'
  BY <1>1, <1>2, CallsKept DEF m
<1> QED
  BY <1>4, <1>5, <1>6, <1>7 DEF IInv

LEMMA BuildServiceKeeps == ASSUME IInv, BuildService PROVE IInv'
<1> PICK m \in Nat, k \in Nat : m = Len(builder) /\ k = Len(services)
  BY Shapes DEF IInv
<1>1. /\ TypeOK /\ Built /\ Held /\ Calls
      /\ UNCHANGED <<builder, call>> /\ spent' = Movable
      /\ services' = Append(services, Layers)
  BY DEF IInv, BuildService
<1>2. builder \in Seq(Kinds) /\ m \in Nat /\ DOMAIN builder = 1..m
  BY <1>1 DEF TypeOK
<1>3. /\ Layers \in Seq(Layer) /\ Len(Layers) = m
      /\ \A i \in 1..m : /\ Layers[i].middleware = i /\ Layers[i].kind = builder[i]
                         /\ Layers[i].empty <=> i \in spent
  <2>1. ASSUME NEW i \in 1..m
        PROVE  /\ Layers[i] = [middleware |-> i, kind |-> builder[i], empty |-> i \in spent]
               /\ Layers[i] \in Layer
               /\ Layers[i].middleware = i /\ Layers[i].kind = builder[i]
               /\ Layers[i].empty <=> i \in spent
    <3>1. Layers[i] = [middleware |-> i, kind |-> builder[i], empty |-> i \in spent]
      BY <1>2 DEF Layers
    <3>2. builder[i] \in Kinds /\ i \in Nat /\ (i \in spent) \in BOOLEAN
      BY <1>2
    <3>3. Layers[i].empty = (i \in spent)
      BY <3>1, SMT
    <3>4. Layers[i].empty <=> i \in spent
      BY <3>3, Zenon
    <3> QED
      BY <3>1, <3>2, <3>4 DEF Layer
  <2>2. DOMAIN Layers = 1..m /\ Layers = [i \in 1..m |-> Layers[i]]
    BY <1>2 DEF Layers
  <2> QED
    BY <2>1, <2>2
<1>4. /\ services' \in Seq(Seq(Layer)) /\ k \in Nat
      /\ DOMAIN services' = 1..(k + 1) /\ DOMAIN services = 1..k
      /\ \A s \in 1..k : services'[s] = services[s]
      /\ services'[k + 1] = Layers
  <2>1. services \in Seq(Seq(Layer))
    BY <1>1 DEF TypeOK
  <2> QED
    BY <1>1, <1>3, <2>1, AppendProperties
<1>5. TypeOK'
  BY <1>1, <1>4 DEF TypeOK, Movable
<1>6. \A s \in 1..k : Len(services[s]) \in Nat /\ Len(services[s]) <= m
  BY <1>1, <1>4, Shapes DEF Built, Layered
<1>7. ASSUME NEW i, NEW s \in 1..(k + 1)
      PROVE  Earlier(i, s)' <=> Earlier(i, s)
  <2>1. \A t \in 1..(s - 1) : t \in 1..k
    BY <1>4
  <2> QED
    BY <1>4, <2>1 DEF Earlier
<1>8. \A i \in 1..m : Layers[i].empty <=> builder[i] # "function" /\ Earlier(i, k + 1)
  <2> TAKE i \in 1..m
  <2>1. Layers[i].empty <=> i \in spent
    BY <1>3
  <2>2. i \in spent => i \in Movable
    BY <1>1 DEF TypeOK
  <2>3. i \in Movable <=> builder[i] # "function"
    BY <1>2 DEF Movable
  <2>4. Earlier(i, k + 1) <=> \E s \in DOMAIN services : i <= Len(services[s])
    <3>1. 1..(k + 1 - 1) = DOMAIN services
      BY <1>4
    <3> QED
      BY <3>1 DEF Earlier
  <2>5. i \in Movable => (i \in spent <=> Earlier(i, k + 1))
    BY <1>1, <2>4 DEF Built, Layered
  <2> QED
    BY <2>1, <2>2, <2>3, <2>5
<1>9. Built'
  <2>1. ASSUME NEW s \in 1..(k + 1)
        PROVE  Layered(services[s], s)'
    <3>1. \A l : Earlier(l, s)' <=> Earlier(l, s)
      BY <1>7
    <3>2. CASE s \in 1..k
      <4>1. services'[s] = services[s] /\ Layered(services[s], s)
        BY <1>1, <1>4, <3>2 DEF Built
      <4> QED
        BY <1>1, <3>1, <4>1 DEF Layered
    <3>3. CASE s = k + 1
      <4>1. services'[s] = Layers /\ Len(Layers) <= Len(builder')
        BY <1>1, <1>3, <1>4, <3>3
      <4>2. \A l \in 1..m : Layers[l].empty <=> builder[l] # "function" /\ Earlier(l, s)
        BY <1>8, <3>3
      <4> QED
        BY <1>1, <1>3, <3>1, <4>1, <4>2 DEF Layered
    <3> QED
      BY <1>4, <3>2, <3>3
  <2>2. ASSUME NEW i \in Movable
        PROVE  i \in spent' <=> \E s \in 1..(k + 1) : i <= Len(services'[s])
    <3>1. i <= Len(services'[k + 1]) /\ k + 1 \in 1..(k + 1)
      BY <1>2, <1>3, <1>4 DEF Movable
    <3> QED
      BY <1>1, <3>1
  <2>3. Movable' = Movable /\ Len(builder') = m
    BY <1>1 DEF Movable
  <2> QED
    BY <1>1, <1>4, <2>1, <2>2, <2>3 DEF Built
<1>10. Held'
  <2> SUFFICES ASSUME NEW i \in Movable
               PROVE  \E s \in 1..(k + 1) :
                        Holds(s, i)' /\ \A t \in 1..(k + 1) : Holds(t, i)' => t = s
    BY <1>1, <1>4, Zenon DEF Held
  <2>1. i \in 1..m
    BY <1>2 DEF Movable
  <2>2. Holds(k + 1, i)' <=> i \notin spent
    <3>1. services'[k + 1] = Layers /\ i <= Len(Layers)
      BY <1>3, <1>4, <2>1
    <3>2. Layers[i].empty <=> i \in spent
      BY <1>3, <2>1
    <3> QED
      BY <3>1, <3>2, Zenon DEF Holds
  <2>3. \A t \in 1..k : Holds(t, i)' <=> Holds(t, i)
    BY <1>4 DEF Holds
  <2>4. CASE i \in spent
    <3>1. PICK s \in 1..k : Holds(s, i) /\ \A t \in 1..k : Holds(t, i) => t = s
      BY <1>1, <1>4, <2>4 DEF Held
    <3>2. s \in 1..(k + 1) /\ \A t \in 1..(k + 1) : t \in 1..k \/ t = k + 1
      BY <1>4
    <3> QED
      BY <2>2, <2>3, <2>4, <3>1, <3>2
  <2>5. CASE i \notin spent
    <3>1. \A t \in 1..k : ~Holds(t, i)
      BY <1>1, <1>4, <2>5 DEF Built, Layered, Holds
    <3>2. k + 1 \in 1..(k + 1) /\ \A t \in 1..(k + 1) : t \in 1..k \/ t = k + 1
      BY <1>4
    <3> QED
      BY <2>2, <2>3, <2>5, <3>1, <3>2
  <2> QED
    BY <2>4, <2>5
<1>11. Calls'
  <2>1. \A s \in DOMAIN services : s \in DOMAIN services' /\ services'[s] = services[s]
    BY <1>4
  <2> QED
    BY <1>1, <2>1, CallsKept
<1> QED
  BY <1>5, <1>9, <1>10, <1>11 DEF IInv

-----------------------------------------------------------------------------
(* Requests.                                                               *)

\* A step of one request that leaves it where the invariant allows.
LEMMA CallStep ==
  ASSUME IInv, NEW r \in Requests, NEW next, Step(r, next),
         UNCHANGED <<builder, spent, services>>,
         next \in Call,
         next.service \in DOMAIN services,
         Passing(next, builder, services[next.service])
  PROVE  IInv'
<1>1. /\ TypeOK /\ Built /\ Held /\ Calls
      /\ builder' = builder /\ spent' = spent /\ services' = services
      /\ call' = [call EXCEPT ![r] = next]
  BY DEF IInv, Step
<1>2. /\ call' \in [Requests -> Call] /\ call'[r] = next
      /\ \A q \in Requests : q # r => call'[q] = call[q]
  BY <1>1 DEF TypeOK
<1>3. TypeOK'
  BY <1>1, <1>2 DEF TypeOK, Movable
<1>4. Built' /\ Held'
  BY <1>1 DEF Built, Layered, Earlier, Held, Holds, Movable
<1>5. Calls'
  <2> SUFFICES ASSUME NEW q \in Requests, call'[q].phase # "new"
               PROVE  /\ call'[q].service \in DOMAIN services'
                      /\ Passing(call'[q], builder', services'[call'[q].service])
    BY DEF Calls
  <2>1. CASE q = r
    BY <1>1, <1>2, <2>1
  <2>2. CASE q # r
    BY <1>1, <1>2, <2>2 DEF Calls
  <2> QED
    BY <2>1, <2>2
<1> QED
  BY <1>3, <1>4, <1>5 DEF IInv

\* What a request under way has to do with its service.
LEMMA OnTheWay ==
  ASSUME IInv, NEW r \in Requests, call[r].phase # "new"
  PROVE  LET c == call[r]
             layers == services[c.service]
         IN  /\ c \in Call /\ c.trace \in Seq(Pairs) /\ c.at \in Int
             /\ c.service \in DOMAIN services
             /\ layers \in Seq(Layer) /\ Len(layers) \in Nat
             /\ DOMAIN layers = 1..Len(layers)
             /\ AtLayer(c, layers) /\ Traced(c.trace, builder, layers)
             /\ c.phase = "in" => Before(c.trace, builder, Len(layers), -c.at)
             /\ c.phase \in {"out", "replied"} =>
                  Before(c.trace, builder, Len(layers), c.at)
             /\ \A l \in 1..Len(layers) :
                  layers[l].middleware = l /\ layers[l].kind = builder[l]
<1>1. TypeOK /\ Built /\ Calls
  BY DEF IInv
<1>2. call[r] \in Call
  BY <1>1 DEF TypeOK
<1>3. call[r].service \in DOMAIN services
  BY <1>1 DEF Calls
<1>4. Layered(services[call[r].service], call[r].service)
  BY <1>1, <1>3 DEF Built
<1>5. Passing(call[r], builder, services[call[r].service])
  BY <1>1 DEF Calls
<1>6. /\ call[r].phase = "in" => Places(call[r]) = {-call[r].at}
      /\ call[r].phase \in {"out", "replied"} => Places(call[r]) = {call[r].at}
  BY DEF Places
<1>7. /\ call[r].phase = "in" =>
           Before(call[r].trace, builder, Len(services[call[r].service]), -call[r].at)
      /\ call[r].phase \in {"out", "replied"} =>
           Before(call[r].trace, builder, Len(services[call[r].service]), call[r].at)
  BY <1>5, <1>6 DEF Passing
<1>8. call[r].trace \in Seq(Pairs) /\ call[r].at \in Int
  BY <1>2 DEF Call
<1> QED
  BY <1>1, <1>2, <1>3, <1>4, <1>5, <1>7, <1>8, Shapes DEF Passing, Layered

LEMMA BeginKeeps ==
  ASSUME IInv, NEW r \in Requests, NEW s \in DOMAIN services, NEW isShort \in BOOLEAN,
         Begin(r, s, isShort)
  PROVE  IInv'
<1> DEFINE n == Len(services[s])
           next == [Idle EXCEPT !.service = s, !.phase = "in", !.at = n, !.short = isShort]
<1>1. n \in Nat /\ s \in Nat /\ <<>> \in Seq(Pairs)
  BY Shapes, EmptySeq DEF IInv
<1>2. Step(r, next) /\ UNCHANGED <<builder, spent, services>>
  BY DEF Begin
<1> HIDE DEF n
<1>3. Idle \in Call
  BY <1>1 DEF Idle, Call, Phases
<1>4. next \in Call
  <2>1. ASSUME NEW q \in Call, NEW t \in Nat, NEW p \in Phases, NEW a \in Int, NEW b \in BOOLEAN
        PROVE  [q EXCEPT !.service = t, !.phase = p, !.at = a, !.short = b] \in Call
    BY DEF Call
  <2>2. "in" \in Phases /\ n \in Int
    BY <1>1 DEF Phases
  <2> QED
    BY <1>1, <1>3, <2>1, <2>2
<1>5. next.service = s /\ next.phase = "in" /\ next.at = n /\ next.trace = <<>>
  BY DEF Idle
<1> HIDE DEF next
<1>6. Before(<<>>, builder, n, -n)
  <2> SUFFICES ASSUME NEW p \in Due(builder, n)
               PROVE  Has(<<>>, p) <=> Depth(p) < -n
    BY DEF Before
  <2>1. ~(Depth(p) < -n)
    BY <1>1, DueDepth
  <2>2. ~Has(<<>>, p)
    BY DEF Has
  <2> QED
    BY <2>1, <2>2
<1>7. Traced(<<>>, builder, services[s])
  BY DEF Traced
<1>8. AtLayer(next, services[s]) /\ Places(next) = {-n}
  BY <1>1, <1>5 DEF AtLayer, Places, n
<1>9. Passing(next, builder, services[s])
  BY <1>5, <1>6, <1>7, <1>8 DEF Passing, n
<1> QED
  BY <1>2, <1>4, <1>5, <1>9, CallStep

\* A step inwards or outwards that has called what is due, if anything, at
\* the depth it leaves.
LEMMA MovesOn ==
  ASSUME IInv, NEW r \in Requests, NEW next \in Call, Step(r, next),
         UNCHANGED <<builder, spent, services>>,
         call[r].phase # "new",
         next.service = call[r].service,
         AtLayer(next, services[call[r].service]),
         Traced(next.trace, builder, services[call[r].service]),
         \E d \in Places(next) :
           Before(next.trace, builder, Len(services[call[r].service]), d)
  PROVE  IInv'
<1>1. call[r].service \in DOMAIN services
  BY OnTheWay
<1>2. Passing(next, builder, services[call[r].service])
  BY DEF Passing
<1> QED
  BY <1>1, <1>2, CallStep

LEMMA PassInKeeps ==
  ASSUME IInv, NEW r \in Requests, PassIn(r)
  PROVE  IInv'
<1> DEFINE c == call[r]
           layers == services[c.service]
           next == [c EXCEPT !.at = @ - 1]
<1>1. /\ c.phase = "in" /\ c.at > 0 /\ layers[c.at].kind = "after"
      /\ Step(r, next) /\ UNCHANGED <<builder, spent, services>>
  BY DEF PassIn, LayerOf
<1>2. /\ c \in Call /\ c.at \in 1..Len(layers) /\ Len(layers) \in Nat
      /\ c.at \in Int /\ builder[c.at] = "after"
      /\ Traced(c.trace, builder, layers)
      /\ Before(c.trace, builder, Len(layers), -c.at)
  BY <1>1, OnTheWay DEF AtLayer
<1>3. /\ next \in Call /\ next.service = c.service /\ next.phase = "in"
      /\ next.at = c.at - 1 /\ next.trace = c.trace
  BY <1>1, <1>2 DEF Call
<1> HIDE DEF next, c, layers
<1>4. \A p \in Due(builder, Len(layers)) : Depth(p) # -c.at
  <2> SUFFICES ASSUME NEW p \in Due(builder, Len(layers)), Depth(p) = -c.at
               PROVE  FALSE
    OBVIOUS
  <2>1. Depth(p) < 0 /\ -Depth(p) = c.at
    BY <1>2
  <2> QED
    BY <1>2, <2>1, DueDepth
<1>5. Before(c.trace, builder, Len(layers), -c.at + 1)
  <2>1. -c.at \in Int
    BY <1>2
  <2> QED
    BY <1>2, <1>4, <2>1, PassesLayer
<1>6. -c.at + 1 = -next.at /\ next.at \in 0..Len(layers)
  BY <1>2, <1>3
<1>7. AtLayer(next, layers) /\ Places(next) = {-next.at}
  BY <1>3, <1>6 DEF AtLayer, Places
<1>8. \E d \in Places(next) : Before(next.trace, builder, Len(layers), d)
  BY <1>3, <1>5, <1>6, <1>7
<1> QED
  BY <1>1, <1>2, <1>3, <1>7, <1>8, MovesOn DEF c, layers

LEMMA PassOutKeeps ==
  ASSUME IInv, NEW r \in Requests, PassOut(r)
  PROVE  IInv'
<1> DEFINE c == call[r]
           layers == services[c.service]
           next == [c EXCEPT !.at = @ + 1]
<1>1. /\ c.phase = "out" /\ c.at <= Len(layers) /\ layers[c.at].kind = "pre"
      /\ Step(r, next) /\ UNCHANGED <<builder, spent, services>>
  BY DEF PassOut, LayerOf
<1>2. /\ c \in Call /\ c.at \in 1..Len(layers) /\ Len(layers) \in Nat
      /\ c.at \in Int /\ builder[c.at] = "pre"
      /\ Traced(c.trace, builder, layers)
      /\ Before(c.trace, builder, Len(layers), c.at)
  BY <1>1, OnTheWay DEF AtLayer
<1>3. /\ next \in Call /\ next.service = c.service /\ next.phase = "out"
      /\ next.at = c.at + 1 /\ next.trace = c.trace
  BY <1>1, <1>2 DEF Call
<1> HIDE DEF next, c, layers
<1>4. \A p \in Due(builder, Len(layers)) : Depth(p) # c.at
  <2> SUFFICES ASSUME NEW p \in Due(builder, Len(layers)), Depth(p) = c.at
               PROVE  FALSE
    OBVIOUS
  <2>1. Depth(p) > 0
    BY <1>2
  <2> QED
    BY <1>2, <2>1, DueDepth
<1>5. Before(c.trace, builder, Len(layers), c.at + 1)
  BY <1>2, <1>4, PassesLayer
<1>6. next.at \in 1..(Len(layers) + 1)
  BY <1>2, <1>3
<1>7. AtLayer(next, layers) /\ Places(next) = {next.at}
  BY <1>3, <1>6 DEF AtLayer, Places
<1>8. \E d \in Places(next) : Before(next.trace, builder, Len(layers), d)
  BY <1>3, <1>5, <1>7
<1> QED
  BY <1>1, <1>2, <1>3, <1>7, <1>8, MovesOn DEF c, layers

\* The request that a handler has returned is on the same way.
LEMMA ReturnedGood ==
  ASSUME NEW q \in Call, NEW moved \in BOOLEAN
  PROVE  /\ Returned(q, moved) \in Call
         /\ Returned(q, moved).service = q.service
         /\ Returned(q, moved).phase = q.phase
         /\ Returned(q, moved).at = q.at
         /\ Returned(q, moved).trace = q.trace
<1>1. Returned(q, moved) \in Call
  BY DEF Returned, Call
<1> QED
  BY <1>1 DEF Returned, Call

\* Nor does a layer that hands it on.
LEMMA HandedGood ==
  ASSUME NEW r, call[r] \in Call, NEW moved \in BOOLEAN
  PROVE  /\ HandedOn(r, moved) \in Call
         /\ HandedOn(r, moved).service = call[r].service
         /\ HandedOn(r, moved).phase = call[r].phase
         /\ HandedOn(r, moved).at = call[r].at
BY ReturnedGood DEF HandedOn

LEMMA HandleInKeeps ==
  ASSUME IInv, NEW r \in Requests, NEW moved \in BOOLEAN, HandleIn(r, moved)
  PROVE  IInv'
<1> DEFINE c == call[r]
           layers == services[c.service]
           p == <<"in", layers[c.at].middleware>>
           longer == Append(c.trace, p)
           handed == HandedOn(r, moved)
           next == [handed EXCEPT !.trace = longer, !.at = @ - 1]
<1>1. /\ c.phase = "in" /\ c.at > 0 /\ layers[c.at].kind # "after"
      /\ ~layers[c.at].empty
      /\ Step(r, next) /\ UNCHANGED <<builder, spent, services>>
  BY DEF HandleIn, LayerOf, Called
<1>2. /\ c \in Call /\ c.at \in 1..Len(layers) /\ Len(layers) \in Nat
      /\ c.at \in Int /\ builder[c.at] # "after" /\ c.trace \in Seq(Pairs)
      /\ layers[c.at].middleware = c.at
      /\ Traced(c.trace, builder, layers)
      /\ Before(c.trace, builder, Len(layers), -c.at)
  BY <1>1, OnTheWay DEF AtLayer
<1>11. /\ handed \in Call /\ handed.service = c.service
      /\ handed.phase = c.phase /\ handed.at = c.at
  BY <1>2, HandedGood
<1> HIDE DEF longer, c, layers, handed
<1>3. p = <<"in", c.at>> /\ p[1] = "in" /\ p[2] = c.at
  BY <1>2
<1>4. p \in Due(builder, Len(layers)) /\ Depth(p) = -c.at
  BY <1>2, <1>3 DEF Due, Depth
<1>5. ~layers[p[2]].empty
  BY <1>1, <1>3
<1> HIDE DEF p
<1>6. /\ longer \in Seq(Pairs) /\ Traced(longer, builder, layers)
      /\ Before(longer, builder, Len(layers), Depth(p) + 1)
  BY <1>2, <1>4, <1>5, CallsHandler DEF longer
<1>7. /\ next \in Call /\ next.service = c.service /\ next.phase = "in"
      /\ next.at = c.at - 1 /\ next.trace = longer
  <2>1. /\ handed \in Call /\ handed.service = c.service
        /\ handed.phase = c.phase /\ handed.at = c.at
    BY <1>11
  <2>2. handed.at - 1 \in Int
    BY <1>2, <2>1
  <2>3. longer \in Seq(Pairs)
    BY <1>6
  <2>4. /\ next \in Call /\ next.service = handed.service
        /\ next.phase = handed.phase
        /\ next.at = handed.at - 1 /\ next.trace = longer
    BY <2>1, <2>2, <2>3 DEF Call
  <2>5. c.phase = "in"
    BY <1>1
  <2> HIDE DEF next
  <2> QED
    BY <2>1, <2>4, <2>5
<1> HIDE DEF next
<1>8. Depth(p) + 1 = -next.at /\ next.at \in 0..Len(layers)
  BY <1>2, <1>4, <1>7
<1>9. AtLayer(next, layers) /\ Places(next) = {-next.at}
  BY <1>7, <1>8 DEF AtLayer, Places
<1>10. \E d \in Places(next) : Before(next.trace, builder, Len(layers), d)
  BY <1>6, <1>7, <1>8, <1>9
<1> QED
  BY <1>1, <1>6, <1>7, <1>9, <1>10, MovesOn DEF c, layers

LEMMA HandleOutKeeps ==
  ASSUME IInv, NEW r \in Requests, HandleOut(r)
  PROVE  IInv'
<1> DEFINE c == call[r]
           layers == services[c.service]
           p == <<"out", layers[c.at].middleware>>
           longer == Append(c.trace, p)
           next == [c EXCEPT !.trace = longer, !.at = @ + 1]
<1>1. /\ c.phase = "out" /\ c.at <= Len(layers) /\ layers[c.at].kind # "pre"
      /\ ~layers[c.at].empty
      /\ Step(r, next) /\ UNCHANGED <<builder, spent, services>>
  BY DEF HandleOut, LayerOf, Called
<1>2. /\ c \in Call /\ c.at \in 1..Len(layers) /\ Len(layers) \in Nat
      /\ c.at \in Int /\ builder[c.at] # "pre" /\ c.trace \in Seq(Pairs)
      /\ layers[c.at].middleware = c.at
      /\ Traced(c.trace, builder, layers)
      /\ Before(c.trace, builder, Len(layers), c.at)
  BY <1>1, OnTheWay DEF AtLayer
<1> HIDE DEF longer, c, layers
<1>3. p = <<"out", c.at>> /\ p[1] = "out" /\ p[2] = c.at
  BY <1>2
<1>4. p \in Due(builder, Len(layers)) /\ Depth(p) = c.at
  BY <1>2, <1>3 DEF Due, Depth
<1>5. ~layers[p[2]].empty
  BY <1>1, <1>3
<1> HIDE DEF p
<1>6. /\ longer \in Seq(Pairs) /\ Traced(longer, builder, layers)
      /\ Before(longer, builder, Len(layers), Depth(p) + 1)
  BY <1>2, <1>4, <1>5, CallsHandler DEF longer
<1>7. /\ next \in Call /\ next.service = c.service /\ next.phase = "out"
      /\ next.at = c.at + 1 /\ next.trace = longer
  <2>1. c.at + 1 \in Int /\ c \in Call
    BY <1>2
  <2>2. longer \in Seq(Pairs)
    BY <1>6
  <2>3. /\ next \in Call /\ next.service = c.service /\ next.phase = c.phase
        /\ next.at = c.at + 1 /\ next.trace = longer
    BY <2>1, <2>2 DEF Call
  <2>4. c.phase = "out"
    BY <1>1
  <2> HIDE DEF next
  <2> QED
    BY <2>3, <2>4
<1> HIDE DEF next
<1>8. Depth(p) + 1 = next.at /\ next.at \in 1..(Len(layers) + 1)
  BY <1>2, <1>4, <1>7
<1>9. AtLayer(next, layers) /\ Places(next) = {next.at}
  BY <1>7, <1>8 DEF AtLayer, Places
<1>10. \E d \in Places(next) : Before(next.trace, builder, Len(layers), d)
  BY <1>6, <1>7, <1>8, <1>9
<1> QED
  BY <1>1, <1>6, <1>7, <1>9, <1>10, MovesOn DEF c, layers

LEMMA AnswerKeeps ==
  ASSUME IInv, NEW r \in Requests, Answer(r)
  PROVE  IInv'
<1> DEFINE c == call[r]
           layers == services[c.service]
           p == <<"service", 0>>
           longer == Append(c.trace, p)
           next == [c EXCEPT !.phase = "out", !.at = 1, !.trace = longer]
<1>1. /\ c.phase = "in" /\ c.at = 0
      /\ Step(r, next) /\ UNCHANGED <<builder, spent, services>>
  BY DEF Answer
<1>2. /\ c \in Call /\ Len(layers) \in Nat /\ c.trace \in Seq(Pairs)
      /\ Traced(c.trace, builder, layers)
      /\ Before(c.trace, builder, Len(layers), -c.at)
  BY <1>1, OnTheWay
<1> HIDE DEF longer, c, layers
<1>3. /\ p \in Due(builder, Len(layers)) /\ Depth(p) = 0 /\ p[1] = "service"
      /\ -c.at = 0
  <2>1. p[1] = "service" /\ p[2] = 0
    OBVIOUS
  <2>2. Depth(p) = 0 /\ p \in Due(builder, Len(layers))
    BY <2>1 DEF Due, Depth
  <2>3. c.at = 0
    BY <1>1
  <2>4. -c.at = 0
    <3>1. \A a \in Int : a <= 0 /\ a >= 0 => -a = 0
      OBVIOUS
    <3>2. c.at \in Int /\ c.at <= 0 /\ c.at >= 0
      BY <2>3
    <3> QED
      BY <3>1, <3>2, Zenon
  <2> HIDE DEF p
  <2> QED
    BY <2>1, <2>2, <2>4
<1> HIDE DEF p
<1>4. /\ longer \in Seq(Pairs) /\ Traced(longer, builder, layers)
      /\ Before(longer, builder, Len(layers), Depth(p) + 1)
  BY <1>2, <1>3, CallsHandler DEF longer
<1>5. /\ next \in Call /\ next.service = c.service /\ next.phase = "out"
      /\ next.at = 1 /\ next.trace = longer
  <2>1. "out" \in Phases /\ 1 \in Int
    BY DEF Phases
  <2>2. ASSUME NEW ph \in Phases, NEW a \in Int
        PROVE  [c EXCEPT !.phase = ph, !.at = a, !.trace = longer] \in Call
    BY <1>2, <1>4 DEF Call
  <2> QED
    BY <1>2, <2>1, <2>2 DEF Call
<1> HIDE DEF next
<1>6. Depth(p) + 1 = next.at /\ next.at \in 1..(Len(layers) + 1)
  BY <1>2, <1>3, <1>5
<1>7. AtLayer(next, layers) /\ Places(next) = {next.at}
  BY <1>5, <1>6 DEF AtLayer, Places
<1>8. \E d \in Places(next) : Before(next.trace, builder, Len(layers), d)
  BY <1>4, <1>5, <1>6, <1>7
<1> QED
  BY <1>1, <1>4, <1>5, <1>7, <1>8, MovesOn DEF c, layers

\* A request that ends stays where it is.
LEMMA EndKeeps ==
  ASSUME IInv, NEW r \in Requests, Reply(r) \/ Throw(r)
  PROVE  IInv'
<1> DEFINE c == call[r]
           layers == services[c.service]
           n == Len(layers)
           end == IF Reply(r) THEN "replied" ELSE "threw"
           next == [c EXCEPT !.phase = end]
<1>1. /\ c.phase \in {"in", "out"} /\ end \in Phases
      /\ Step(r, next) /\ UNCHANGED <<builder, spent, services>>
      /\ end = "replied" => c.phase = "out" /\ c.at > n
      /\ end = "threw" => c.at \in DOMAIN layers /\ layers[c.at].empty
      /\ end \in {"replied", "threw"}
  BY DEF Reply, Throw, CallsEmpty, LayerOf, Phases
<1>2. /\ c \in Call /\ n \in Nat /\ c.at \in Int /\ DOMAIN layers = 1..n
      /\ AtLayer(c, layers) /\ Traced(c.trace, builder, layers)
      /\ c.phase = "in" => Before(c.trace, builder, n, -c.at)
      /\ c.phase = "out" => Before(c.trace, builder, n, c.at)
  BY <1>1, OnTheWay
<1> HIDE DEF c, layers, end
<1>3. /\ next \in Call /\ next.service = c.service /\ next.phase = end
      /\ next.at = c.at /\ next.trace = c.trace
  BY <1>1, <1>2 DEF Call
<1> HIDE DEF next
<1>4. AtLayer(next, layers)
  BY <1>1, <1>2, <1>3 DEF AtLayer
<1>5. \E d \in Places(next) : Before(next.trace, builder, n, d)
  <2>1. CASE end = "replied"
    BY <1>1, <1>2, <1>3, <2>1 DEF Places
  <2>2. CASE end = "threw"
    BY <1>1, <1>2, <1>3, <2>2 DEF Places
  <2> QED
    BY <1>1, <2>1, <2>2
<1> QED
  BY <1>1, <1>2, <1>3, <1>4, <1>5, MovesOn DEF c, layers

LEMMA StepGood == IInv /\ [Next]_vars => IInv'
<1> SUFFICES ASSUME IInv, [Next]_vars PROVE IInv'
  OBVIOUS
<1>1. CASE UNCHANGED vars
  BY <1>1 DEF vars, IInv, TypeOK, Movable, Built, Layered, Earlier, Held, Holds, Calls
<1>2. CASE \E r \in Requests : Proceed(r)
  BY <1>2, PassInKeeps, HandleInKeeps, AnswerKeeps, PassOutKeeps, HandleOutKeeps, EndKeeps
     DEF Proceed
<1>3. CASE \E r \in Requests, s \in DOMAIN services, isShort \in BOOLEAN : Begin(r, s, isShort)
  BY <1>3, BeginKeeps
<1>4. CASE BuildService
  BY <1>4, BuildServiceKeeps
<1>5. CASE \E kind \in Kinds : WithMiddleware(kind)
  BY <1>5, WithMiddlewareKeeps
<1> QED
  BY <1>1, <1>2, <1>3, <1>4, <1>5 DEF Next

-----------------------------------------------------------------------------
(* The theorems.                                                           *)

\* In every reachable state the invariant holds.
THEOREM Invariance == Spec => []IInv
BY InitGood, StepGood, PTL DEF Spec

\* However many requests are under way and whatever is built meanwhile, the
\* handlers of a service are called from the last middleware in and back out,
\* each once, and none is left out of an answer (middleware.hpp:30-33,
\* service.hpp:163-184).
THEOREM HandlersInOrder == Spec => []OnionOrder
<1>1. IInv => OnionOrder
  <2> SUFFICES ASSUME IInv, NEW r \in Requests, call[r].phase # "new"
               PROVE  LET trace == call[r].trace
                          due == Due(builder, Len(services[call[r].service]))
                      IN  /\ \A k \in DOMAIN trace : trace[k] \in due
                          /\ \A j, k \in DOMAIN trace :
                               j < k => Depth(trace[j]) < Depth(trace[k])
                          /\ \A p \in due, k \in DOMAIN trace :
                               Depth(p) < Depth(trace[k]) => Has(trace, p)
                          /\ call[r].phase = "replied" => \A p \in due : Has(trace, p)
    BY DEF OnionOrder
  <2> DEFINE c == call[r]
             layers == services[c.service]
             n == Len(layers)
  <2>1. /\ n \in Nat /\ c.at \in Int
        /\ AtLayer(c, layers) /\ Traced(c.trace, builder, layers)
        /\ c.phase = "replied" => Before(c.trace, builder, n, c.at)
    BY OnTheWay
  <2>2. PICK d \in Places(c) : Before(c.trace, builder, n, d)
    BY DEF IInv, Calls, Passing
  <2>3. d \in Int
    BY <2>1 DEF Places
  <2> HIDE DEF c, layers, n
  <2>4. ASSUME NEW p \in Due(builder, n), NEW k \in DOMAIN c.trace,
               Depth(p) < Depth(c.trace[k])
        PROVE  Has(c.trace, p)
    <3>1. c.trace[k] \in Due(builder, n) /\ Has(c.trace, c.trace[k])
      BY <2>1 DEF Traced, Has, n
    <3>2. Depth(c.trace[k]) < d
      BY <2>2, <3>1 DEF Before
    <3>3. Depth(p) \in Int /\ Depth(c.trace[k]) \in Int
      BY <2>1, <3>1, DueDepth
    <3>4. Depth(p) < d
      BY <2>3, <2>4, <3>2, <3>3
    <3> QED
      BY <2>2, <3>4 DEF Before
  <2>5. ASSUME c.phase = "replied", NEW p \in Due(builder, n)
        PROVE  Has(c.trace, p)
    <3>1. c.at = n + 1
      BY <2>1, <2>5 DEF AtLayer, n
    <3>2. Depth(p) \in Int /\ Depth(p) <= n
      BY <2>1, DueDepth
    <3>3. Depth(p) < c.at
      BY <2>1, <3>1, <3>2
    <3> QED
      BY <2>1, <2>5, <3>3 DEF Before
  <2> QED
    BY <2>1, <2>4, <2>5 DEF Traced, c, layers, n
<1> QED
  BY <1>1, Invariance, PTL

\* A handler is in its middleware or in one layer of one service, never lost
\* and never in two (middleware.hpp:58-61 and 73-76).
THEOREM OnePlace == Spec => []HandlerInOnePlace
<1>1. IInv => HandlerInOnePlace
  <2> SUFFICES ASSUME IInv, NEW i \in Movable
               PROVE  LET holders == {s \in DOMAIN services : \E l \in DOMAIN services[s] :
                                        services[s][l].middleware = i /\ ~services[s][l].empty}
                      IN  Cardinality(holders) = IF i \in spent THEN 1 ELSE 0
    BY DEF HandlerInOnePlace
  <2> DEFINE holders == {s \in DOMAIN services : \E l \in DOMAIN services[s] :
                           services[s][l].middleware = i /\ ~services[s][l].empty}
  <2>1. TypeOK /\ Built /\ Held
    BY DEF IInv
  <2>2. i \in Nat /\ i > 0
    BY <2>1, Shapes DEF Movable
  <2>3. \A s \in DOMAIN services : s \in holders <=> Holds(s, i)
    <3> TAKE s \in DOMAIN services
    <3>1. /\ DOMAIN services[s] = 1..Len(services[s]) /\ Len(services[s]) \in Nat
          /\ \A l \in 1..Len(services[s]) : services[s][l].middleware = l
      BY <2>1, Shapes DEF Built, Layered
    <3>2. s \in holders <=> \E l \in 1..Len(services[s]) : l = i /\ ~services[s][l].empty
      BY <3>1
    <3> QED
      BY <2>2, <3>1, <3>2 DEF Holds
  <2>4. CASE i \in spent
    <3>1. PICK s \in DOMAIN services :
             Holds(s, i) /\ \A t \in DOMAIN services : Holds(t, i) => t = s
      BY <2>1, <2>4 DEF Held
    <3>2. holders = {s}
      BY <2>3, <3>1
    <3> QED
      BY <2>4, <3>2, FS_Singleton
  <2>5. CASE i \notin spent
    <3>1. \A s \in DOMAIN services : ~Holds(s, i)
      BY <2>1, <2>5 DEF Built, Holds
    <3>2. holders = {}
      BY <2>3, <3>1
    <3> QED
      BY <2>5, <3>2, FS_EmptySet
  <2> QED
    BY <2>4, <2>5
<1> QED
  BY <1>1, Invariance, PTL

\* A service that shares a moved handler with an earlier one answers no
\* request, and no other service throws.
THEOREM LaterBuildsThrow == Spec => []SecondBuildThrows
<1>1. IInv => SecondBuildThrows
  <2> SUFFICES ASSUME IInv, NEW r \in Requests
               PROVE  LET s == call[r].service
                          shared == {i \in 1..Len(services[s]) : builder[i] # "function" /\
                                       \E t \in 1..(s - 1) : i <= Len(services[t])}
                      IN  /\ call[r].phase = "replied" => shared = {}
                          /\ call[r].phase = "threw" => shared # {}
    BY DEF SecondBuildThrows
  <2> DEFINE c == call[r]
             s == c.service
             layers == services[s]
             n == Len(layers)
             shared == {i \in 1..n : builder[i] # "function" /\ Earlier(i, s)}
  <2>1. CASE c.phase \in {"replied", "threw"}
    <3>1. /\ n \in Nat /\ s \in DOMAIN services /\ AtLayer(c, layers)
          /\ Traced(c.trace, builder, layers) /\ c.at \in Int
          /\ c.phase = "replied" => Before(c.trace, builder, n, c.at)
      BY <2>1, OnTheWay
    <3>2. \A i \in 1..n : layers[i].empty <=> i \in shared
      BY <3>1 DEF IInv, Built, Layered
    <3>3. c.phase = "threw" => shared # {}
      BY <3>1, <3>2 DEF AtLayer
    <3>4. ASSUME c.phase = "replied", NEW i \in shared
          PROVE  FALSE
      <4>1. builder[i] \in Kinds /\ i \in 1..n /\ layers[i].empty /\ builder[i] # "function"
        BY <3>1, <3>2, Shapes DEF IInv, TypeOK, Built, Layered
      <4>2. PICK way \in {"in", "out"} : <<way, i>> \in Due(builder, n)
        <5>1. CASE builder[i] = "pre"
          BY <4>1, <5>1 DEF Due
        <5>2. CASE builder[i] = "after"
          BY <4>1, <5>2 DEF Due
        <5> QED
          BY <4>1, <5>1, <5>2 DEF Kinds
      <4> HIDE DEF shared, layers, n
      <4>3. c.at = n + 1
        BY <3>1, <3>4 DEF AtLayer, n
      <4>4. Depth(<<way, i>>) < c.at
        <5>1. Depth(<<way, i>>) \in Int /\ Depth(<<way, i>>) <= n
          BY <3>1, <4>2, DueDepth
        <5> QED
          BY <3>1, <4>3, <5>1
      <4>5. Has(c.trace, <<way, i>>)
        BY <3>1, <3>4, <4>2, <4>4 DEF Before
      <4>6. PICK k \in DOMAIN c.trace : c.trace[k] = <<way, i>>
        BY <4>5 DEF Has
      <4>7. c.trace[k][1] # "service" /\ c.trace[k][2] = i
        BY <4>6
      <4> QED
        BY <3>1, <4>1, <4>6, <4>7 DEF Traced
    <3> QED
      BY <3>3, <3>4 DEF Earlier
  <2> QED
    BY <2>1
<1> QED
  BY <1>1, Invariance, PTL
=============================================================================
