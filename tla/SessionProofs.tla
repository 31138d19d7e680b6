---------------------------- MODULE SessionProofs ----------------------------
(***************************************************************************)
(* Proofs about the listener and its sessions: the safety properties hold  *)
(* for every set of connections, every number of requests on each of them  *)
(* and every number of failing accepts.                                    *)
(*                                                                         *)
(* A connection is a record of its own, so the lemmas are about the record *)
(* that a step makes of it; ChangeKeeps puts it back into conn.            *)
(*                                                                         *)
(* The last part is about the header of the response, by which a session   *)
(* decides whether it goes on: the properties of ResponseHeader hold for   *)
(* every number and every order of the calls of its builder, Response.     *)
(***************************************************************************)
EXTENDS Session, ResponseHeader, SequenceTheorems, TLAPS

\* What the invariant says of one connection, r, whose client is c.
Good(c, r) == TypeOf(c, r) /\ InHand(r) /\ Numbered(r)

\* A connection is the record of its fields.
LEMMA Fields ==
  ASSUME NEW r \in ConnType
  PROVE  /\ r.state \in States /\ r.why \in Reasons /\ r.armed \in BOOLEAN
         /\ r.sent \in Nat /\ r.inbox \in Seq(Request) /\ r.taken \in Seq(Request)
         /\ r.reply \in Seq(Reply) /\ r.log \in Seq(Reply)
         /\ r.peer \in {"reading", "stalled", "gone"}
BY DEF ConnType

\* do_session returns: a request without a response needs one of the excuses.
LEMMA EndGood ==
  ASSUME NEW c, NEW r \in ConnType, r.sent <= MaxRequests[c], Numbered(r),
         NEW reason \in Reasons,
         \/ Len(r.log) = Len(r.taken)
         \/ reason \in {"bad target", "thrown", "payload", "error code"}
         \/ reason = "write" /\ r.peer = "gone"
  PROVE  Good(c, End(r, reason))
<1> DEFINE e == End(r, reason)
<1>1. /\ e \in ConnType /\ e.state = "closed" /\ e.why = reason /\ e.armed = FALSE
      /\ e.reply = <<>> /\ e.sent = r.sent /\ e.inbox = r.inbox
      /\ e.taken = r.taken /\ e.log = r.log /\ e.peer = r.peer
  <2>1. e \in ConnType
    BY EmptySeq DEF End, ConnType, States
  <2> QED
    BY <2>1 DEF End, ConnType
<1> HIDE DEF e
<1>2. Len(e.reply) = 0
  <2>1. Len(<<>>) = 0
    OBVIOUS
  <2> QED
    BY <1>1, <2>1
<1>3. TypeOf(c, e)
  <2>1. e.sent <= MaxRequests[c]
    BY <1>1
  <2>2. e.armed <=> e.state = "reading"
    BY <1>1, Zenon
  <2>3. Len(e.reply) = IF e.state = "writing" THEN 1 ELSE 0
    BY <1>1, <1>2
  <2> QED
    BY <1>1, <2>1, <2>2, <2>3, Zenon DEF TypeOf
<1>4. InHand(e)
  BY <1>1 DEF InHand
<1>5. Numbered(e)
  BY <1>1 DEF Numbered
<1> QED
  BY <1>3, <1>4, <1>5 DEF Good, e

\* The head of the loop: every request taken has been answered, and the last
\* response keeps the connection.
LEMMA StartReadGood ==
  ASSUME NEW c, NEW r \in ConnType, r.sent <= MaxRequests[c], r.reply = <<>>,
         Numbered(r), Len(r.log) = Len(r.taken),
         r.log # <<>> => r.log[Len(r.log)].connection = "keep-alive"
  PROVE  Good(c, StartRead(r))
<1> DEFINE e == StartRead(r)
<1>1. /\ e \in ConnType /\ e.state = "reading" /\ e.why = r.why /\ e.armed = TRUE
      /\ e.reply = <<>> /\ e.sent = r.sent /\ e.inbox = r.inbox
      /\ e.taken = r.taken /\ e.log = r.log /\ e.peer = r.peer
  BY DEF StartRead, ConnType, States
<1> HIDE DEF e
<1>2. Len(e.reply) = 0
  BY <1>1
<1>3. TypeOf(c, e)
  BY <1>1, <1>2 DEF TypeOf
<1>4. InHand(e)
  BY <1>1 DEF InHand
<1>5. Numbered(e)
  BY <1>1 DEF Numbered
<1> QED
  BY <1>3, <1>4, <1>5 DEF Good, e

\* A request is taken off the buffer: it is the next number, and the buffer
\* goes on from the one after it.
LEMMA TakeGood ==
  ASSUME NEW c, NEW r, Good(c, r), r.state = "reading", r.inbox # <<>>
  PROVE  Good(c, TakeRequest(r))
<1> DEFINE e == TakeRequest(r)
<1>0. r \in ConnType
  BY DEF Good, TypeOf
<1>1. /\ Head(r.inbox) \in Request /\ Tail(r.inbox) \in Seq(Request)
      /\ Len(Tail(r.inbox)) = Len(r.inbox) - 1
      /\ \A i \in 1..Len(Tail(r.inbox)) : Tail(r.inbox)[i] = r.inbox[i + 1]
      /\ Head(r.inbox) = r.inbox[1] /\ Len(r.inbox) \in Nat \ {0}
  BY <1>0, Fields, HeadTailProperties, EmptySeq
<1>2. /\ Append(r.taken, Head(r.inbox)) \in Seq(Request)
      /\ Len(Append(r.taken, Head(r.inbox))) = Len(r.taken) + 1
      /\ \A i \in 1..Len(r.taken) : Append(r.taken, Head(r.inbox))[i] = r.taken[i]
      /\ Append(r.taken, Head(r.inbox))[Len(r.taken) + 1] = Head(r.inbox)
  BY <1>0, <1>1, Fields, AppendProperties
<1>3. /\ e \in ConnType /\ e.state = "handling" /\ e.why = r.why /\ e.armed = FALSE
      /\ e.reply = r.reply /\ e.sent = r.sent /\ e.inbox = Tail(r.inbox)
      /\ e.taken = Append(r.taken, Head(r.inbox)) /\ e.log = r.log /\ e.peer = r.peer
  BY <1>0, <1>1, <1>2 DEF TakeRequest, ConnType, States
<1> HIDE DEF e
<1>4. TypeOf(c, e)
  BY <1>3 DEF Good, TypeOf
<1>5. InHand(e)
  BY <1>2, <1>3 DEF Good, InHand
<1>6. Numbered(e)
  <2>1. /\ Numbered(r) /\ Len(r.taken) \in Nat /\ Len(r.log) \in Nat
        /\ Len(r.inbox) \in Nat
        /\ Len(e.inbox) = Len(r.inbox) - 1 /\ Len(e.taken) = Len(r.taken) + 1
        /\ e.log = r.log /\ e.sent = r.sent
    BY <1>0, <1>1, <1>2, <1>3, Fields, LenProperties DEF Good
  <2>0. PICK m \in Nat, n \in Nat : Len(r.taken) = m /\ Len(r.inbox) = n
    BY <2>1
  <2>2. e.sent = Len(e.taken) + Len(e.inbox)
    <3>1. r.sent = Len(r.taken) + Len(r.inbox)
      BY <2>1 DEF Numbered
    <3> QED
      BY <2>0, <2>1, <3>1
  <2>3. ASSUME NEW i \in 1..Len(e.inbox) PROVE e.inbox[i].n = Len(e.taken) + i
    <3>1. e.inbox[i] = r.inbox[i + 1] /\ i + 1 \in 1..Len(r.inbox)
      BY <1>1, <1>3, <2>1
    <3>2. r.inbox[i + 1].n = Len(r.taken) + (i + 1)
      BY <2>1, <3>1 DEF Numbered
    <3> QED
      BY <2>0, <2>1, <3>1, <3>2
  <2>4. ASSUME NEW i \in 1..Len(e.taken) PROVE e.taken[i].n = i
    <3>1. CASE i <= Len(r.taken)
      BY <1>2, <1>3, <2>1, <3>1 DEF Numbered
    <3>2. CASE i = Len(r.taken) + 1
      <4>1. r.inbox[1].n = Len(r.taken) + 1
        BY <1>1, <2>1 DEF Numbered
      <4> QED
        BY <1>1, <1>2, <1>3, <3>2, <4>1
    <3> QED
      BY <2>1, <3>1, <3>2
  <2> QED
    BY <2>1, <2>2, <2>3, <2>4 DEF Numbered
<1> QED
  BY <1>4, <1>5, <1>6 DEF Good, e

\* A connection that changes into a good one.
LEMMA ChangeKeeps ==
  ASSUME IInv, NEW c \in Conn, NEW r, Good(c, r),
         conn' = [conn EXCEPT ![c] = r], UNCHANGED <<listener, failures>>
  PROVE  IInv'
<1>1. r \in ConnType
  BY DEF Good, TypeOf
<1>2. /\ conn' \in [Conn -> ConnType]
      /\ \A d \in Conn : conn'[d] = IF d = c THEN r ELSE conn[d]
  BY <1>1 DEF IInv, TypeOK
<1>3. \A d \in Conn : Good(d, conn'[d])
  BY <1>2 DEF IInv, TypeOK, Good
<1>4. listener' \in ListenerStates /\ failures' \in 0..MaxAcceptErrors
  BY DEF IInv, TypeOK
<1> QED
  BY <1>2, <1>3, <1>4, Zenon DEF IInv, TypeOK, Good

\* No connection has been opened at the start.
LEMMA IInvInit == Init => IInv
<1> SUFFICES ASSUME Init PROVE IInv
  OBVIOUS
<1>1. NewConn \in ConnType
  BY EmptySeq DEF NewConn, ConnType, States, Reasons
<1>2. ASSUME NEW c \in Conn PROVE Good(c, NewConn)
  <2>1. Len(<<>>) = 0
    OBVIOUS
  <2>2. TypeOf(c, NewConn)
    <3>1. NewConn.sent <= MaxRequests[c]
      BY SessionAssumption DEF NewConn
    <3>2. NewConn.armed <=> NewConn.state = "reading"
      BY DEF NewConn
    <3>3. Len(NewConn.reply) = IF NewConn.state = "writing" THEN 1 ELSE 0
      BY <2>1 DEF NewConn
    <3> QED
      BY <1>1, <3>1, <3>2, <3>3, Zenon DEF TypeOf
  <2>3. InHand(NewConn)
    BY DEF InHand, NewConn
  <2>4. Numbered(NewConn)
    BY <2>1 DEF Numbered, NewConn
  <2> QED
    BY <2>2, <2>3, <2>4 DEF Good
<1>3. listener \in ListenerStates /\ failures \in 0..MaxAcceptErrors
  BY SessionAssumption DEF Init, ListenerStates, SetUp
<1>4. conn \in [Conn -> ConnType] /\ \A c \in Conn : conn[c] = NewConn
  BY <1>1 DEF Init
<1> QED
  BY <1>2, <1>3, <1>4 DEF IInv, TypeOK, Good

\* A response has been written: it is the one to the request taken last, and
\* the session reads again only if the response says keep-alive.
LEMMA WrittenKeeps ==
  ASSUME IInv, NEW c \in Conn, Written(c)
  PROVE  IInv'
<1> DEFINE r == conn[c]
           reply == Head(r.reply)
           after == [r EXCEPT !.log = Append(@, reply), !.reply = <<>>]
<1>1. Good(c, r) /\ r \in ConnType /\ r.state = "writing"
  BY DEF IInv, TypeOK, Good, TypeOf, Written
<1>2. /\ Len(r.reply) = 1 /\ r.reply # <<>> /\ reply = r.reply[1] /\ reply \in Reply
      /\ reply.n = Len(r.taken) /\ Len(r.taken) = Len(r.log) + 1
  BY <1>1, Fields, HeadTailProperties, EmptySeq DEF Good, TypeOf, InHand
<1> HIDE DEF reply
<1>3. /\ Append(r.log, reply) \in Seq(Reply)
      /\ Len(Append(r.log, reply)) = Len(r.log) + 1
      /\ \A i \in 1..Len(r.log) : Append(r.log, reply)[i] = r.log[i]
      /\ Append(r.log, reply)[Len(r.log) + 1] = reply
  BY <1>1, <1>2, Fields, AppendProperties
<1>4. /\ after \in ConnType /\ after.sent = r.sent /\ after.inbox = r.inbox
      /\ after.taken = r.taken /\ after.log = Append(r.log, reply)
      /\ after.reply = <<>>
  BY <1>1, <1>3, EmptySeq DEF ConnType
<1> HIDE DEF after
<1>5. PICK n \in Nat : Len(r.log) = n
  BY <1>1, Fields, LenProperties
<1>6. after.sent <= MaxRequests[c] /\ Len(after.log) = Len(after.taken)
  BY <1>1, <1>2, <1>3, <1>4 DEF Good, TypeOf
<1>7. Numbered(after)
  <2>1. ASSUME NEW i \in 1..Len(after.log) PROVE after.log[i].n = i
    BY <1>1, <1>2, <1>3, <1>4, <1>5 DEF Good, Numbered
  <2> QED
    BY <1>1, <1>4, <2>1 DEF Good, Numbered
<1>8. CASE KeepAlive(reply)
  <2>1. reply.connection = "keep-alive"
    BY <1>8 DEF KeepAlive
  <2>2. after.log[Len(after.log)].connection = "keep-alive"
    BY <1>3, <1>4, <2>1
  <2>3. Good(c, StartRead(after))
    BY <1>4, <1>6, <1>7, <2>2, StartReadGood
  <2>4. conn' = [conn EXCEPT ![c] = StartRead(after)]
    BY <1>8 DEF Written, after, reply
  <2> QED
    BY <2>3, <2>4, ChangeKeeps DEF Written
<1>9. CASE ~KeepAlive(reply)
  <2>1. Good(c, End(after, "not keep-alive"))
    BY <1>4, <1>6, <1>7, EndGood DEF Reasons
  <2>2. conn' = [conn EXCEPT ![c] = End(after, "not keep-alive")]
    BY <1>9 DEF Written, after, reply
  <2> QED
    BY <2>1, <2>2, ChangeKeeps DEF Written
<1> QED
  BY <1>8, <1>9

\* A handler answers the request that was taken last.
LEMMA DispatchKeeps ==
  ASSUME IInv, NEW c \in Conn, Dispatch(c)
  PROVE  IInv'
<1> DEFINE r == conn[c]
<1>1. PICK reply \in Replies(r.taken[Len(r.taken)]) :
        conn' = [conn EXCEPT ![c].state = "writing", ![c].reply = <<reply>>]
  BY DEF Dispatch
<1>2. Good(c, r) /\ r \in ConnType /\ r.state = "handling" /\ r.armed \in BOOLEAN
  BY Fields DEF IInv, TypeOK, Good, TypeOf, Dispatch
<1>3. PICK m \in Nat, n \in Nat : Len(r.log) = m /\ Len(r.taken) = n
  BY <1>2, Fields, LenProperties
<1>4. /\ Len(r.taken) = Len(r.log) + 1 /\ r.taken[Len(r.taken)] \in Request
      /\ r.taken[Len(r.taken)].n = Len(r.taken)
  BY <1>2, <1>3, Fields, ElementOfSeq DEF Good, InHand, Numbered
<1>5. reply \in Reply /\ reply.n = Len(r.taken)
  BY <1>1, <1>4 DEF Replies, Reply, Request
<1> DEFINE e == [r EXCEPT !.state = "writing", !.reply = <<reply>>]
<1>6. /\ e \in ConnType /\ e.state = "writing" /\ e.armed = r.armed
      /\ e.reply = <<reply>> /\ e.sent = r.sent /\ e.inbox = r.inbox
      /\ e.taken = r.taken /\ e.log = r.log
  <2>1. "writing" \in States /\ <<reply>> \in Seq(Reply)
    BY <1>5 DEF States
  <2>2. e \in ConnType
    BY <1>2, <2>1 DEF ConnType
  <2> QED
    BY <1>2, <2>2 DEF ConnType
<1>7. conn' = [conn EXCEPT ![c] = e]
  BY <1>1
<1> HIDE DEF e
<1>8. Len(e.reply) = 1 /\ e.reply[1] = reply
  BY <1>6
<1>9. Good(c, e)
  <2>1. e.sent <= MaxRequests[c] /\ ~e.armed
    BY <1>2, <1>6 DEF Good, TypeOf
  <2>2. e.armed <=> e.state = "reading"
    BY <1>6, <2>1
  <2>3. TypeOf(c, e)
    BY <1>6, <1>8, <2>1, <2>2, Zenon DEF TypeOf
  <2>4. InHand(e)
    BY <1>2, <1>5, <1>6, <1>8 DEF Good, InHand
  <2>5. Numbered(e)
    BY <1>2, <1>6 DEF Good, Numbered
  <2> QED
    BY <2>3, <2>4, <2>5 DEF Good
<1> QED
  BY <1>7, <1>9, ChangeKeeps DEF Dispatch

\* The client's next request goes behind those that wait.
LEMMA ClientSendsKeeps ==
  ASSUME IInv, NEW c \in Conn, ClientSends(c)
  PROVE  IInv'
<1> DEFINE r == conn[c]
<1>1. PICK form \in Forms :
        conn' = [conn EXCEPT ![c].sent = @ + 1,
          ![c].inbox = Append(@, [n |-> r.sent + 1, form |-> form])]
  BY DEF ClientSends
<1> DEFINE new == [n |-> r.sent + 1, form |-> form]
           e == [r EXCEPT !.sent = @ + 1, !.inbox = Append(@, new)]
<1>2. /\ Good(c, r) /\ r \in ConnType /\ r.state \notin {"none", "closed"}
      /\ r.sent \in Nat /\ r.sent < MaxRequests[c]
  BY Fields DEF IInv, TypeOK, Good, TypeOf, ClientSends
<1>3. new \in Request /\ new.n = r.sent + 1
  BY <1>2 DEF Request
<1> HIDE DEF new
<1>4. /\ Append(r.inbox, new) \in Seq(Request)
      /\ Len(Append(r.inbox, new)) = Len(r.inbox) + 1
      /\ \A i \in 1..Len(r.inbox) : Append(r.inbox, new)[i] = r.inbox[i]
      /\ Append(r.inbox, new)[Len(r.inbox) + 1] = new
  BY <1>2, <1>3, Fields, AppendProperties
<1>5. /\ e \in ConnType /\ e.state = r.state /\ e.armed = r.armed
      /\ e.reply = r.reply /\ e.sent = r.sent + 1
      /\ e.inbox = Append(r.inbox, new) /\ e.taken = r.taken /\ e.log = r.log
  <2>1. r.sent + 1 \in Nat
    BY <1>2
  <2>2. e \in ConnType
    BY <1>2, <1>4, <2>1 DEF ConnType
  <2> QED
    BY <1>2, <2>2 DEF ConnType
<1>6. conn' = [conn EXCEPT ![c] = e]
  BY <1>1 DEF new
<1> HIDE DEF e
<1>7. PICK m \in Nat, n \in Nat : Len(r.inbox) = m /\ Len(r.taken) = n
  BY <1>2, Fields, LenProperties
<1>8. TypeOf(c, e)
  <2>1. MaxRequests[c] \in Nat
    BY SessionAssumption
  <2>2. e.sent <= MaxRequests[c]
    BY <1>2, <1>5, <2>1
  <2> QED
    BY <1>2, <1>5, <2>2, Zenon DEF Good, TypeOf
<1>9. InHand(e)
  BY <1>2, <1>5 DEF Good, InHand
<1>10. Numbered(e)
  <2>1. r.sent = m + n
    BY <1>2, <1>7 DEF Good, Numbered
  <2>2. ASSUME NEW i \in 1..Len(e.inbox) PROVE e.inbox[i].n = Len(e.taken) + i
    <3>1. CASE i \in 1..m
      BY <1>2, <1>4, <1>5, <1>7, <3>1 DEF Good, Numbered
    <3>2. CASE i = m + 1
      BY <1>3, <1>4, <1>5, <1>7, <2>1, <3>2
    <3> QED
      BY <1>4, <1>5, <1>7, <3>1, <3>2
  <2>3. e.sent = Len(e.taken) + Len(e.inbox)
    <3>1. Len(e.inbox) = m + 1 /\ Len(e.taken) = n /\ e.sent = (m + n) + 1
      BY <1>4, <1>5, <1>7, <2>1
    <3> QED
      BY <3>1
  <2> QED
    BY <1>2, <1>5, <2>2, <2>3 DEF Good, Numbered
<1> QED
  BY <1>6, <1>8, <1>9, <1>10, ChangeKeeps DEF ClientSends, Good

\* A connection in the queue of the acceptor is as empty as a new one.
LEMMA ConnectKeeps ==
  ASSUME IInv, NEW c \in Conn, Connect(c)
  PROVE  IInv'
<1> DEFINE r == conn[c]
           e == [r EXCEPT !.state = "queued"]
<1>1. Good(c, r) /\ r \in ConnType /\ r.state = "none"
  BY DEF IInv, TypeOK, Good, TypeOf, Connect
<1>2. /\ e \in ConnType /\ e.state = "queued" /\ e.armed = r.armed
      /\ e.reply = r.reply /\ e.sent = r.sent /\ e.inbox = r.inbox
      /\ e.taken = r.taken /\ e.log = r.log
  BY <1>1 DEF ConnType, States
<1>3. conn' = [conn EXCEPT ![c] = e]
  BY DEF Connect
<1> HIDE DEF e
<1>4. TypeOf(c, e) /\ InHand(e) /\ Numbered(e)
  BY <1>1, <1>2 DEF Good, TypeOf, InHand, Numbered
<1> QED
  BY <1>3, <1>4, ChangeKeeps DEF Connect, Good

\* The client's mood changes nothing of what the session has.
LEMMA PeerKeeps ==
  ASSUME IInv, NEW c \in Conn, NEW to \in {"reading", "stalled", "gone"},
         PeerChanges(c, to)
  PROVE  IInv'
<1> DEFINE r == conn[c]
           e == [r EXCEPT !.peer = to]
<1>1. Good(c, r) /\ r \in ConnType /\ r.state # "closed"
  BY DEF IInv, TypeOK, Good, TypeOf, PeerChanges
<1>2. /\ e \in ConnType /\ e.state = r.state /\ e.armed = r.armed
      /\ e.reply = r.reply /\ e.sent = r.sent /\ e.inbox = r.inbox
      /\ e.taken = r.taken /\ e.log = r.log
  BY <1>1 DEF ConnType
<1>3. conn' = [conn EXCEPT ![c] = e]
  BY DEF PeerChanges
<1> HIDE DEF e
<1>4. TypeOf(c, e) /\ InHand(e) /\ Numbered(e)
  BY <1>1, <1>2 DEF Good, TypeOf, InHand, Numbered
<1> QED
  BY <1>3, <1>4, ChangeKeeps DEF PeerChanges, Good

\* Every step that ends a session without a response.
LEMMA EndKeeps ==
  ASSUME IInv, NEW c \in Conn, NEW reason \in Reasons,
         conn' = [conn EXCEPT ![c] = End(@, reason)],
         UNCHANGED <<listener, failures>>,
         \/ conn[c].state = "reading"
         \/ reason \in {"bad target", "thrown", "payload", "error code"}
         \/ reason = "write" /\ conn[c].peer = "gone"
  PROVE  IInv'
<1>1. /\ Good(c, conn[c]) /\ conn[c] \in ConnType /\ Numbered(conn[c])
      /\ conn[c].sent <= MaxRequests[c]
      /\ conn[c].state = "reading" => Len(conn[c].log) = Len(conn[c].taken)
  BY DEF IInv, TypeOK, Good, TypeOf, InHand
<1>2. Good(c, End(conn[c], reason))
  BY <1>1, EndGood
<1> QED
  BY <1>2, ChangeKeeps

\* A request is good, has a bad target, or is malformed.
LEMMA ReadForm ==
  ASSUME IInv, NEW c \in Conn, Read(c)
  PROVE  Head(conn[c].inbox).form \in {"good", "bad target", "malformed"}
<1>1. conn[c].inbox \in Seq(Request) /\ conn[c].inbox # <<>>
  BY Fields DEF IInv, TypeOK, Read
<1>2. Head(conn[c].inbox) \in Request
  BY <1>1, HeadTailProperties
<1> QED
  BY <1>2 DEF Request, Forms

\* Every step of the server and of its clients keeps the invariant.
LEMMA IInvStep == IInv /\ [Next]_vars => IInv'
<1> SUFFICES ASSUME IInv, [Next]_vars PROVE IInv'
  OBVIOUS
<1>1. CASE ListenerSetUp
  <2>1. PICK i \in 1..(Len(SetUp) - 1) :
          listener = SetUp[i] /\ listener' \in {SetUp[i + 1], "stopped"}
    BY <1>1 DEF ListenerSetUp
  <2>2. Len(SetUp) = 5 /\ DOMAIN SetUp = 1..5
    BY DEF SetUp
  <2>3. listener' \in ListenerStates
    BY <2>1, <2>2 DEF ListenerStates
  <2> QED
    BY <1>1, <2>3 DEF ListenerSetUp, IInv, TypeOK
<1>2. CASE AcceptFails
  BY <1>2, SessionAssumption DEF AcceptFails, IInv, TypeOK
<1>3. ASSUME NEW c \in Conn, Accept(c) PROVE IInv'
  <2>1. /\ conn[c] \in ConnType /\ Numbered(conn[c]) /\ conn[c].state = "queued"
        /\ conn[c].sent <= MaxRequests[c] /\ Len(conn[c].reply) = 0
        /\ conn[c].taken = <<>> /\ conn[c].log = <<>>
    BY <1>3 DEF Accept, IInv, TypeOK, Good, TypeOf, InHand
  <2>2. conn[c].reply = <<>>
    BY <2>1, Fields, EmptySeq
  <2>3. Good(c, StartRead(conn[c]))
    BY <2>1, <2>2, StartReadGood
  <2> QED
    BY <1>3, <2>3, ChangeKeeps DEF Accept
<1>4. ASSUME NEW c \in Conn, Read(c) PROVE IInv'
  <2>0. Good(c, TakeRequest(conn[c]))
    BY <1>4, TakeGood DEF Read, IInv, TypeOK, Good
  <2>1. CASE Head(conn[c].inbox).form = "good"
    <3>1. AfterRead(conn[c]) = TakeRequest(conn[c])
      BY <2>1 DEF AfterRead
    <3> QED
      BY <1>4, <2>0, <3>1, ChangeKeeps DEF Read
  <2>2. CASE Head(conn[c].inbox).form = "bad target"
    <3>1. AfterRead(conn[c]) = End(TakeRequest(conn[c]), "bad target")
      BY <2>2 DEF AfterRead
    <3> DEFINE t == TakeRequest(conn[c])
    <3>2. t \in ConnType /\ t.sent <= MaxRequests[c] /\ Numbered(t)
      BY <2>0, Zenon DEF Good, TypeOf
    <3> HIDE DEF t
    <3>3. "bad target" \in Reasons
      BY DEF Reasons
    <3>4. Good(c, End(t, "bad target"))
      BY <3>2, <3>3, EndGood
    <3> QED
      BY <1>4, <3>1, <3>4, ChangeKeeps DEF Read, t
  <2>3. CASE Head(conn[c].inbox).form = "malformed"
    <3>1. AfterRead(conn[c]) = End(conn[c], "read")
      BY <2>3 DEF AfterRead
    <3> QED
      BY <1>4, <3>1, EndKeeps DEF Read, Reasons
  <2> QED
    BY <1>4, <2>1, <2>2, <2>3, ReadForm
<1>5. ASSUME NEW c \in Conn, ReadFails(c) PROVE IInv'
  BY <1>5, EndKeeps DEF ReadFails, Reasons
<1>6. ASSUME NEW c \in Conn, Expire(c) PROVE IInv'
  <2>1. conn[c].state = "reading"
    BY <1>6 DEF Expire, IInv, TypeOK, TypeOf
  <2> QED
    BY <1>6, <2>1, EndKeeps DEF Expire, Reasons
<1>7. ASSUME NEW c \in Conn, DispatchFails(c) PROVE IInv'
  BY <1>7, EndKeeps DEF DispatchFails, Reasons
<1>8. ASSUME NEW c \in Conn, WriteFails(c) PROVE IInv'
  BY <1>8, EndKeeps DEF WriteFails, Reasons
<1>9. CASE UNCHANGED vars
  BY <1>9 DEF vars, IInv, TypeOK
<1> QED
  BY <1>1, <1>2, <1>3, <1>4, <1>5, <1>6, <1>7, <1>8, <1>9, WrittenKeeps,
     DispatchKeeps, ConnectKeeps, ClientSendsKeeps, PeerKeeps
     DEF Next, SessionStep

\* The inductive invariant holds in every reachable state.
THEOREM Invariance == Spec => []IInv
BY IInvInit, IInvStep, PTL DEF Spec

\* Types are kept, and the deadline is in force exactly during a read
\* (server.hpp:100-105).
THEOREM TypeCorrect == Spec => []TypeOK
<1>1. IInv => TypeOK
  BY DEF IInv
<1> QED
  BY <1>1, Invariance, PTL

\* However many requests the client pipelines, the i-th response answers the
\* i-th request.
THEOREM AnswersInOrder == Spec => []PipelineInOrder
<1>1. IInv => PipelineInOrder
  <2> SUFFICES ASSUME IInv, NEW c \in Conn
               PROVE  /\ \A i \in DOMAIN conn[c].taken : conn[c].taken[i].n = i
                      /\ \A i \in DOMAIN conn[c].log : conn[c].log[i].n = i
                      /\ conn[c].state \in {"queued", "reading"} =>
                           Len(conn[c].log) = Len(conn[c].taken)
    BY DEF PipelineInOrder
  <2>1. Good(c, conn[c]) /\ conn[c] \in ConnType
    BY DEF IInv, TypeOK, Good, TypeOf
  <2>2. /\ DOMAIN conn[c].taken = 1..Len(conn[c].taken)
        /\ DOMAIN conn[c].log = 1..Len(conn[c].log)
    BY <2>1, Fields, LenProperties
  <2> QED
    BY <2>1, <2>2 DEF Good, InHand, Numbered
<1> QED
  BY <1>1, Invariance, PTL

\* A request that was read stays unanswered only if its target is no URL, its
\* handler failed or made a response that cannot be written, or its client has
\* gone; no deadline is to blame.
THEOREM NoAnswerLost == Spec => []UnansweredOnlyIf
<1>1. IInv => UnansweredOnlyIf
  <2> SUFFICES ASSUME IInv, NEW c \in Conn, conn[c].state = "closed",
                      Len(conn[c].log) < Len(conn[c].taken)
               PROVE  \/ conn[c].why \in {"bad target", "thrown", "payload", "error code"}
                      \/ conn[c].why = "write" /\ conn[c].peer = "gone"
    BY DEF UnansweredOnlyIf
  <2>1. Good(c, conn[c]) /\ conn[c] \in ConnType
    BY DEF IInv, TypeOK, Good, TypeOf
  <2>2. Len(conn[c].log) \in Nat
    BY <2>1, Fields, LenProperties
  <2>3. Len(conn[c].log) # Len(conn[c].taken)
    BY <2>2
  <2> QED
    BY <2>1, <2>3 DEF Good, InHand
<1> QED
  BY <1>1, Invariance, PTL

\* After a response that closes the connection no request is waited for.
THEOREM CloseEndsReading == Spec => []ClosesAfterClose
<1>1. IInv => ClosesAfterClose
  BY DEF IInv, Good, InHand, ClosesAfterClose
<1> QED
  BY <1>1, Invariance, PTL

-----------------------------------------------------------------------------
(* Refinement: the server implements the promise of PipelinePromise on     *)
(* every connection.                                                       *)

\* What the promise sees of the connections.
SentMap    == [c \in Conn |-> conn[c].sent]
TakenMap   == [c \in Conn |-> Numbers(conn[c].taken)]
AnswersMap == [c \in Conn |-> Answers(conn[c].log)]
OverMap    == [c \in Conn |-> conn[c].state = "closed"]

\* A step on one connection changes what is seen of this one.
LEMMA SeenChange ==
  ASSUME conn \in [Conn -> ConnType], NEW c \in Conn, NEW r,
         conn' = [conn EXCEPT ![c] = r]
  PROVE  /\ SentMap' = [SentMap EXCEPT ![c] = r.sent]
         /\ TakenMap' = [TakenMap EXCEPT ![c] = Numbers(r.taken)]
         /\ AnswersMap' = [AnswersMap EXCEPT ![c] = Answers(r.log)]
         /\ OverMap' = [OverMap EXCEPT ![c] = (r.state = "closed")]
<1>1. \A d \in Conn : conn'[d] = IF d = c THEN r ELSE conn[d]
  OBVIOUS
<1>2. SentMap' = [SentMap EXCEPT ![c] = r.sent]
  BY <1>1 DEF SentMap
<1>3. TakenMap' = [TakenMap EXCEPT ![c] = Numbers(r.taken)]
  BY <1>1 DEF TakenMap
<1>4. AnswersMap' = [AnswersMap EXCEPT ![c] = Answers(r.log)]
  BY <1>1 DEF AnswersMap
<1>5. OverMap' = [OverMap EXCEPT ![c] = (r.state = "closed")]
  BY <1>1 DEF OverMap
<1> QED
  BY <1>2, <1>3, <1>4, <1>5

\* What is seen of a connection.
LEMMA Seen ==
  ASSUME NEW c \in Conn
  PROVE  /\ SentMap[c] = conn[c].sent /\ TakenMap[c] = Numbers(conn[c].taken)
         /\ AnswersMap[c] = Answers(conn[c].log)
         /\ OverMap[c] = (conn[c].state = "closed")
<1>1. OverMap[c] = (conn[c].state = "closed")
  BY Zenon DEF OverMap
<1> QED
  BY <1>1 DEF SentMap, TakenMap, AnswersMap

\* What stays as it is at the connection that steps stays as it is.
LEMMA SeenSame ==
  ASSUME conn \in [Conn -> ConnType], NEW c \in Conn, NEW r,
         conn' = [conn EXCEPT ![c] = r]
  PROVE  /\ r.sent = conn[c].sent => UNCHANGED SentMap
         /\ r.taken = conn[c].taken => UNCHANGED TakenMap
         /\ r.log = conn[c].log => UNCHANGED AnswersMap
         /\ (r.state = "closed") = (conn[c].state = "closed") => UNCHANGED OverMap
<1>1. \A d \in Conn : conn'[d] = IF d = c THEN r ELSE conn[d]
  OBVIOUS
<1>2. r.sent = conn[c].sent => UNCHANGED SentMap
  BY <1>1 DEF SentMap
<1>3. r.taken = conn[c].taken => UNCHANGED TakenMap
  BY <1>1 DEF TakenMap
<1>4. r.log = conn[c].log => UNCHANGED AnswersMap
  BY <1>1 DEF AnswersMap
<1>5. (r.state = "closed") = (conn[c].state = "closed") => UNCHANGED OverMap
  BY <1>1 DEF OverMap
<1> QED
  BY <1>2, <1>3, <1>4, <1>5

\* A function on 1..k+1 that goes on where one on 1..k ends is what an append
\* makes of that one.
LEMMA AppendAsFunction ==
  ASSUME NEW T, NEW k \in Nat, NEW v \in T,
         NEW f \in [1..k -> T], NEW g \in [1..(k + 1) -> T],
         \A i \in 1..k : g[i] = f[i], g[k + 1] = v
  PROVE  Len(f) = k /\ g = Append(f, v)
<1>1. f \in Seq(T) /\ Len(f) = k
  BY IsASeq
<1>2. g \in Seq(T) /\ Len(g) = k + 1
  <2>1. k + 1 \in Nat
    OBVIOUS
  <2> QED
    BY <2>1, IsASeq
<1>3. /\ Append(f, v) \in Seq(T) /\ Len(Append(f, v)) = k + 1
      /\ \A i \in 1..k : Append(f, v)[i] = f[i]
  BY <1>1, AppendProperties
<1>4. Append(f, v)[k + 1] = v
  BY <1>1, AppendProperties
<1>5. \A i \in 1..(k + 1) : g[i] = Append(f, v)[i]
  <2>1. \A i \in 1..(k + 1) : i \in 1..k \/ i = k + 1
    OBVIOUS
  <2> QED
    BY <1>3, <1>4, <2>1
<1> QED
  BY <1>1, <1>2, <1>3, <1>5, SeqEqual

\* As many requests and answers are seen as there are.
SeenReply(reply) == [n |-> reply.n, keep |-> reply.connection = "keep-alive"]

LEMMA SeenLengths ==
  ASSUME NEW s \in Seq(Request), NEW t \in Seq(Reply)
  PROVE  /\ Len(Numbers(s)) = Len(s) /\ Len(Answers(t)) = Len(t)
         /\ \A i \in 1..Len(t) : Answers(t)[i] = SeenReply(t[i])
<1>1. /\ DOMAIN s = 1..Len(s) /\ DOMAIN t = 1..Len(t)
      /\ Len(s) \in Nat /\ Len(t) \in Nat
  BY LenProperties
<1>2. /\ Numbers(s) = [i \in 1..Len(s) |-> s[i].n]
      /\ Answers(t) = [i \in 1..Len(t) |-> SeenReply(t[i])]
  BY <1>1 DEF Numbers, Answers, SeenReply
<1>3. \A n \in Nat : \A f : f = [i \in 1..n |-> f[i]] => Len(f) = n
  <2> SUFFICES ASSUME NEW n \in Nat, NEW f, f = [i \in 1..n |-> f[i]]
               PROVE  Len(f) = n
    OBVIOUS
  <2>1. f \in [1..n -> {f[i] : i \in 1..n}]
    OBVIOUS
  <2> QED
    BY <2>1, IsASeq
<1> QED
  BY <1>1, <1>2, <1>3

\* A request taken: one more is seen.
LEMMA NumbersAppend ==
  ASSUME NEW s \in Seq(Request), NEW e \in Request
  PROVE  Numbers(Append(s, e)) = Append(Numbers(s), e.n)
<1> DEFINE f == Numbers(s)
           p == Append(s, e)
           g == Numbers(p)
<1>1. PICK k \in Nat : k = Len(s)
  BY LenProperties
<1>2. DOMAIN s = 1..k /\ DOMAIN p = 1..(k + 1)
  BY <1>1, AppendProperties, LenProperties
<1>3. /\ \A i \in 1..k : p[i] = s[i] /\ s[i] \in Request
      /\ p[k + 1] = e
  BY <1>1, AppendProperties, ElementOfSeq
<1> HIDE DEF p
<1>4. f = [i \in 1..k |-> s[i].n] /\ g = [i \in 1..(k + 1) |-> p[i].n]
  BY <1>2 DEF Numbers
<1>5. e.n \in Nat /\ \A i \in 1..k : s[i].n \in Nat
  BY <1>3 DEF Request
<1> HIDE DEF f, g
<1>6. /\ f \in [1..k -> Nat] /\ g \in [1..(k + 1) -> Nat]
      /\ \A i \in 1..k : g[i] = f[i]
      /\ g[k + 1] = e.n
  <2>1. \A i \in 1..(k + 1) : i \in 1..k \/ i = k + 1
    OBVIOUS
  <2>2. f \in [1..k -> Nat]
    BY <1>4, <1>5
  <2>3. \A i \in 1..k : g[i] = f[i]
    BY <1>3, <1>4
  <2>4. k + 1 \in 1..(k + 1) /\ g[k + 1] = e.n
    BY <1>3, <1>4
  <2>5. \A i \in 1..(k + 1) : g[i] \in Nat
    BY <1>5, <2>1, <2>2, <2>3, <2>4
  <2>6. g = [i \in 1..(k + 1) |-> g[i]]
    BY <1>4
  <2> QED
    BY <2>2, <2>3, <2>4, <2>5, <2>6
<1>7. Len(f) = k /\ g = Append(f, e.n)
  BY <1>5, <1>6, AppendAsFunction
<1> QED
  BY <1>7 DEF f, g, p

\* A response written: one more answer is seen.
LEMMA AnswersAppend ==
  ASSUME NEW s \in Seq(Reply), NEW e \in Reply
  PROVE  Answers(Append(s, e)) = Append(Answers(s), SeenReply(e))
<1> DEFINE f == Answers(s)
           p == Append(s, e)
           g == Answers(p)
           T == {SeenReply(r) : r \in Reply}
<1>1. PICK k \in Nat : k = Len(s)
  BY LenProperties
<1>2. DOMAIN s = 1..k /\ DOMAIN p = 1..(k + 1)
  BY <1>1, AppendProperties, LenProperties
<1>3. /\ \A i \in 1..k : p[i] = s[i] /\ s[i] \in Reply
      /\ p[k + 1] = e
  BY <1>1, AppendProperties, ElementOfSeq
<1> HIDE DEF p
<1>4. /\ f = [i \in 1..k |-> SeenReply(s[i])]
      /\ g = [i \in 1..(k + 1) |-> SeenReply(p[i])]
  BY <1>2 DEF Answers, SeenReply
<1>5. SeenReply(e) \in T /\ \A i \in 1..k : SeenReply(s[i]) \in T
  BY <1>3
<1> HIDE DEF T
<1> HIDE DEF f, g
<1>6. /\ f \in [1..k -> T] /\ g \in [1..(k + 1) -> T]
      /\ \A i \in 1..k : g[i] = f[i]
      /\ g[k + 1] = SeenReply(e)
  <2>1. \A i \in 1..(k + 1) : i \in 1..k \/ i = k + 1
    OBVIOUS
  <2>2. f \in [1..k -> T]
    BY <1>4, <1>5
  <2>3. \A i \in 1..k : g[i] = f[i]
    BY <1>3, <1>4
  <2>4. k + 1 \in 1..(k + 1) /\ g[k + 1] = SeenReply(e)
    BY <1>3, <1>4
  <2>5. \A i \in 1..(k + 1) : g[i] \in T
    BY <1>5, <2>1, <2>2, <2>3, <2>4
  <2>6. g = [i \in 1..(k + 1) |-> g[i]]
    BY <1>4
  <2> QED
    BY <2>2, <2>3, <2>4, <2>5, <2>6
<1>7. Len(f) = k /\ g = Append(f, SeenReply(e))
  BY <1>5, <1>6, AppendAsFunction
<1> QED
  BY <1>7 DEF f, g, p

\* A step that changes nothing of what is seen.
LEMMA Unseen ==
  ASSUME conn \in [Conn -> ConnType], NEW c \in Conn, NEW r,
         conn' = [conn EXCEPT ![c] = r],
         r.sent = conn[c].sent, r.taken = conn[c].taken, r.log = conn[c].log,
         r.state # "closed", conn[c].state # "closed"
  PROVE  UNCHANGED <<SentMap, TakenMap, AnswersMap, OverMap>>
<1>1. (r.state = "closed") = (conn[c].state = "closed")
  OBVIOUS
<1> QED
  BY <1>1, SeenSame

\* The promise's own steps, in terms of what it sees.
LEMMA SendStep ==
  ASSUME NEW c \in Conn, ~OverMap[c], SentMap[c] < MaxRequests[c],
         SentMap' = [SentMap EXCEPT ![c] = @ + 1],
         UNCHANGED <<TakenMap, AnswersMap, OverMap>>
  PROVE  Promise!Next
<1>1. Promise!Send(c)
  BY DEF Promise!Send, SentMap, TakenMap, AnswersMap, OverMap
<1> QED
  BY <1>1 DEF Promise!Next

LEMMA TakeStep ==
  ASSUME NEW c \in Conn, NEW last \in BOOLEAN, ~OverMap[c],
         Len(AnswersMap[c]) = Len(TakenMap[c]),
         AnswersMap[c] # <<>> => AnswersMap[c][Len(AnswersMap[c])].keep,
         Len(TakenMap[c]) < SentMap[c],
         TakenMap' = [TakenMap EXCEPT ![c] = Append(@, Len(@) + 1)],
         OverMap' = [OverMap EXCEPT ![c] = last],
         UNCHANGED <<SentMap, AnswersMap>>
  PROVE  Promise!Next
<1>1. Promise!Take(c, last)
  BY DEF Promise!Take, Promise!Settled, Promise!Kept,
         SentMap, TakenMap, AnswersMap, OverMap
<1> QED
  BY <1>1 DEF Promise!Next

LEMMA AnswerStep ==
  ASSUME NEW c \in Conn, NEW keep \in BOOLEAN, NEW last \in BOOLEAN,
         ~OverMap[c], Len(AnswersMap[c]) # Len(TakenMap[c]), keep \/ last,
         AnswersMap' = [AnswersMap EXCEPT
           ![c] = Append(@, [n |-> Len(TakenMap[c]), keep |-> keep])],
         OverMap' = [OverMap EXCEPT ![c] = last],
         UNCHANGED <<SentMap, TakenMap>>
  PROVE  Promise!Next
<1>1. Promise!Answer(c, keep, last)
  BY DEF Promise!Answer, Promise!Settled, SentMap, TakenMap, AnswersMap, OverMap
<1> QED
  BY <1>1 DEF Promise!Next

LEMMA EndStep ==
  ASSUME NEW c \in Conn, OverMap' = [OverMap EXCEPT ![c] = TRUE],
         UNCHANGED <<SentMap, TakenMap, AnswersMap>>
  PROVE  Promise!Next
<1>1. Promise!End(c)
  BY DEF Promise!End, SentMap, TakenMap, AnswersMap, OverMap
<1> QED
  BY <1>1 DEF Promise!Next

\* A session that ends without an answer.
LEMMA EndRefines ==
  ASSUME conn \in [Conn -> ConnType], NEW c \in Conn, NEW reason,
         conn' = [conn EXCEPT ![c] = End(@, reason)]
  PROVE  Promise!Next
<1> DEFINE e == End(conn[c], reason)
<1>1. /\ e.state = "closed" /\ e.sent = conn[c].sent
      /\ e.taken = conn[c].taken /\ e.log = conn[c].log
  BY DEF End, ConnType
<1>2. conn' = [conn EXCEPT ![c] = e]
  OBVIOUS
<1> HIDE DEF e
<1>3. (e.state = "closed") = TRUE
  BY <1>1
<1>4. OverMap' = [OverMap EXCEPT ![c] = TRUE]
  BY <1>2, <1>3, SeenChange
<1>5. UNCHANGED <<SentMap, TakenMap, AnswersMap>>
  BY <1>1, <1>2, SeenSame
<1> QED
  BY <1>4, <1>5, EndStep

\* A request that is taken is the next one, the last was answered, and the
\* answer keeps the connection.  If its target is no URL this is the end.
LEMMA ReadRefines ==
  ASSUME IInv, NEW c \in Conn, Read(c), Head(conn[c].inbox).form # "malformed"
  PROVE  Promise!Next
<1> DEFINE r == conn[c]
           t == TakeRequest(r)
           last == Head(r.inbox).form = "bad target"
           e == IF last THEN End(t, "bad target") ELSE t
           m == Len(r.taken)
<1>1. /\ Good(c, r) /\ r \in ConnType /\ conn \in [Conn -> ConnType]
      /\ r.state = "reading" /\ r.inbox # <<>>
  BY DEF IInv, TypeOK, Good, TypeOf, Read
<1>2. conn' = [conn EXCEPT ![c] = e]
  <2>1. AfterRead(r) = e
    BY ReadForm DEF AfterRead
  <2> QED
    BY <2>1, Zenon DEF Read
<1>3. /\ Head(r.inbox) \in Request /\ Head(r.inbox) = r.inbox[1]
      /\ Len(r.inbox) \in Nat \ {0} /\ m \in Nat
      /\ r.taken \in Seq(Request) /\ r.log \in Seq(Reply)
  BY <1>1, Fields, HeadTailProperties, EmptySeq, LenProperties
<1>4. /\ e.state = (IF last THEN "closed" ELSE "handling")
      /\ e.sent = r.sent /\ e.log = r.log
      /\ e.taken = Append(r.taken, Head(r.inbox))
  <2>1. t = [r EXCEPT !.state = "handling", !.armed = FALSE,
               !.taken = Append(@, Head(r.inbox)), !.inbox = Tail(@)]
    BY DEF TakeRequest
  <2>2. /\ t.state = "handling" /\ t.sent = r.sent /\ t.log = r.log
        /\ t.taken = Append(r.taken, Head(r.inbox))
        /\ DOMAIN t = DOMAIN r
    BY <1>1, <2>1 DEF ConnType
  <2> HIDE DEF t
  <2> QED
    BY <1>1, <2>2 DEF End, ConnType
<1> HIDE DEF e
<1>5. Head(r.inbox).n = m + 1 /\ r.sent = m + Len(r.inbox) /\ Len(r.log) = m
  BY <1>1, <1>3 DEF Good, Numbered, InHand
<1>6. r.log # <<>> => r.log[Len(r.log)].connection = "keep-alive"
  BY <1>1 DEF Good, InHand
<1> HIDE DEF r, m, last
<1>7. Numbers(e.taken) = Append(Numbers(r.taken), m + 1)
  BY <1>3, <1>4, <1>5, NumbersAppend
<1>8. /\ Len(Numbers(r.taken)) = m /\ Len(Answers(r.log)) = m
      /\ \A i \in 1..m : Answers(r.log)[i] = SeenReply(r.log[i])
  BY <1>3, <1>5, SeenLengths DEF m
<1>9. ASSUME Answers(r.log) # <<>> PROVE Answers(r.log)[Len(Answers(r.log))].keep
  <2>1. m \in 1..m
    <3>1. m # 0
      BY <1>3, <1>5, <1>9, EmptySeq DEF Answers
    <3> QED
      BY <1>3, <3>1
  <2>2. r.log[m].connection = "keep-alive"
    BY <1>3, <1>5, <1>6, <2>1
  <2>3. Answers(r.log)[m].keep = (r.log[m].connection = "keep-alive")
    <3>1. \A q : SeenReply(q).keep = (q.connection = "keep-alive")
      BY DEF SeenReply
    <3>2. Answers(r.log)[m] = SeenReply(r.log[m])
      BY <1>8, <2>1
    <3> QED
      BY <3>1, <3>2, Zenon
  <2> QED
    BY <1>8, <2>2, <2>3
<1>10. (e.state = "closed") = last /\ last \in BOOLEAN
  BY <1>4 DEF last
<1>11. /\ TakenMap' = [TakenMap EXCEPT ![c] = Numbers(e.taken)]
       /\ OverMap' = [OverMap EXCEPT ![c] = last]
       /\ UNCHANGED <<SentMap, AnswersMap>>
  BY <1>1, <1>2, <1>4, <1>10, SeenChange, SeenSame DEF r
<1>12. /\ SentMap[c] = r.sent /\ TakenMap[c] = Numbers(r.taken)
       /\ AnswersMap[c] = Answers(r.log) /\ ~OverMap[c]
  BY <1>1, Seen DEF r
<1>13. TakenMap' = [TakenMap EXCEPT ![c] = Append(@, Len(@) + 1)]
  BY <1>7, <1>8, <1>11, <1>12
<1>14. m < r.sent
  BY <1>3, <1>5
<1> QED
  BY <1>7, <1>8, <1>9, <1>10, <1>11, <1>12, <1>13, <1>14, TakeStep

\* A response that is written answers the request taken last, and ends the
\* connection unless it keeps it.
LEMMA WrittenRefines ==
  ASSUME IInv, NEW c \in Conn, Written(c)
  PROVE  Promise!Next
<1> DEFINE r == conn[c]
           reply == Head(r.reply)
           after == [r EXCEPT !.log = Append(@, reply), !.reply = <<>>]
           m == Len(r.taken)
           e == IF KeepAlive(reply) THEN StartRead(after)
                ELSE End(after, "not keep-alive")
<1>1. /\ Good(c, r) /\ r \in ConnType /\ conn \in [Conn -> ConnType]
      /\ r.state = "writing"
  BY DEF IInv, TypeOK, Good, TypeOf, Written
<1>2. conn' = [conn EXCEPT ![c] = e]
  BY DEF Written
<1>3. /\ reply = r.reply[1] /\ reply \in Reply /\ reply.n = m /\ m = Len(r.log) + 1
      /\ r.taken \in Seq(Request) /\ r.log \in Seq(Reply) /\ Len(r.log) \in Nat
  BY <1>1, Fields, HeadTailProperties, EmptySeq, LenProperties
     DEF Good, TypeOf, InHand
<1> HIDE DEF reply
<1>4. Append(r.log, reply) \in Seq(Reply)
  BY <1>3, AppendProperties
<1>5. /\ after.log = Append(r.log, reply) /\ after.sent = r.sent
      /\ after.taken = r.taken /\ after \in ConnType
  BY <1>1, <1>4, EmptySeq DEF ConnType
<1> HIDE DEF after
<1>6. /\ e.log = Append(r.log, reply) /\ e.sent = r.sent /\ e.taken = r.taken
      /\ e.state = IF KeepAlive(reply) THEN "reading" ELSE "closed"
  BY <1>5 DEF StartRead, End, ConnType
<1>7. KeepAlive(reply) <=> reply.connection = "keep-alive"
  BY DEF KeepAlive
<1> DEFINE last == ~KeepAlive(reply)
<1> HIDE DEF e, r, m
<1>8. (e.state = "closed") = last
  BY <1>6
<1>9. /\ AnswersMap' = [AnswersMap EXCEPT ![c] = Answers(e.log)]
      /\ OverMap' = [OverMap EXCEPT ![c] = last]
      /\ UNCHANGED <<SentMap, TakenMap>>
  BY <1>1, <1>2, <1>6, <1>8, SeenChange, SeenSame DEF r
<1>10. /\ TakenMap[c] = Numbers(r.taken) /\ AnswersMap[c] = Answers(r.log)
       /\ ~OverMap[c]
  BY <1>1, Seen DEF r
<1>11. Answers(e.log) = Append(Answers(r.log), SeenReply(reply))
  BY <1>3, <1>6, AnswersAppend
<1>12. Len(Numbers(r.taken)) = m /\ Len(Answers(r.log)) = Len(r.log)
  BY <1>3, SeenLengths DEF m
<1> DEFINE keep == reply.connection = "keep-alive"
<1>13. keep \in BOOLEAN /\ last \in BOOLEAN /\ (keep \/ last)
  BY <1>7
<1>14. SeenReply(reply) = [n |-> Len(TakenMap[c]), keep |-> keep]
  BY <1>3, <1>10, <1>12 DEF SeenReply
<1> HIDE DEF keep
<1>15. AnswersMap' = [AnswersMap EXCEPT
         ![c] = Append(@, [n |-> Len(TakenMap[c]), keep |-> keep])]
  BY <1>9, <1>10, <1>11, <1>14
<1>16. Len(AnswersMap[c]) # Len(TakenMap[c])
  BY <1>3, <1>10, <1>11, <1>12
<1> HIDE DEF last
<1> QED
  BY <1>9, <1>10, <1>13, <1>15, <1>16, AnswerStep

\* Every step is one of the promise or is not seen.
LEMMA PromiseStep ==
  ASSUME IInv, [Next]_vars
  PROVE  Promise!Next \/ UNCHANGED <<SentMap, TakenMap, AnswersMap, OverMap>>
<1>0. conn \in [Conn -> ConnType]
  BY DEF IInv, TypeOK
<1>1. CASE UNCHANGED conn
  BY <1>1 DEF SentMap, TakenMap, AnswersMap, OverMap
<1>2. ASSUME NEW c \in Conn, Accept(c)
      PROVE  UNCHANGED <<SentMap, TakenMap, AnswersMap, OverMap>>
  <2> DEFINE e == StartRead(conn[c])
  <2>1. /\ conn' = [conn EXCEPT ![c] = e] /\ conn[c].state # "closed"
        /\ conn[c] \in ConnType
    BY <1>0, <1>2 DEF Accept
  <2>2. /\ e.sent = conn[c].sent /\ e.taken = conn[c].taken
        /\ e.log = conn[c].log /\ e.state # "closed"
    BY <2>1 DEF StartRead, ConnType
  <2> HIDE DEF e
  <2> QED
    BY <1>0, <2>1, <2>2, Unseen
<1>3. ASSUME NEW c \in Conn, Read(c) PROVE Promise!Next
  <2>1. CASE Head(conn[c].inbox).form # "malformed"
    BY <1>3, <2>1, ReadRefines
  <2>2. CASE Head(conn[c].inbox).form = "malformed"
    <3>1. AfterRead(conn[c]) = End(conn[c], "read")
      BY <2>2 DEF AfterRead
    <3>2. conn' = [conn EXCEPT ![c] = End(@, "read")]
      BY <1>3, <3>1 DEF Read
    <3> QED
      BY <1>0, <3>2, EndRefines
  <2> QED
    BY <2>1, <2>2
<1>4. ASSUME NEW c \in Conn,
             ReadFails(c) \/ WriteFails(c) \/ Expire(c) \/ DispatchFails(c)
      PROVE  Promise!Next
  <2>1. PICK reason \in Reasons : conn' = [conn EXCEPT ![c] = End(@, reason)]
    BY <1>4 DEF ReadFails, WriteFails, Expire, DispatchFails, Reasons
  <2> QED
    BY <1>0, <2>1, EndRefines
<1>5. ASSUME NEW c \in Conn, Dispatch(c)
      PROVE  UNCHANGED <<SentMap, TakenMap, AnswersMap, OverMap>>
  <2>1. PICK reply : conn' = [conn EXCEPT ![c].state = "writing",
                                          ![c].reply = <<reply>>]
    BY <1>5 DEF Dispatch
  <2> DEFINE e == [conn[c] EXCEPT !.state = "writing", !.reply = <<reply>>]
  <2>2. conn' = [conn EXCEPT ![c] = e] /\ conn[c].state # "closed"
    BY <1>5, <2>1 DEF Dispatch
  <2>3. conn[c] \in ConnType
    BY <1>0
  <2>4. /\ e.sent = conn[c].sent /\ e.taken = conn[c].taken
        /\ e.log = conn[c].log /\ e.state # "closed"
    BY <2>3 DEF ConnType
  <2> HIDE DEF e
  <2> QED
    BY <1>0, <2>2, <2>4, Unseen
<1>6. ASSUME NEW c \in Conn, Connect(c)
      PROVE  UNCHANGED <<SentMap, TakenMap, AnswersMap, OverMap>>
  <2> DEFINE e == [conn[c] EXCEPT !.state = "queued"]
  <2>1. conn' = [conn EXCEPT ![c] = e] /\ conn[c].state # "closed"
    BY <1>6 DEF Connect
  <2>2. /\ e.sent = conn[c].sent /\ e.taken = conn[c].taken
        /\ e.log = conn[c].log /\ e.state # "closed"
    BY <1>0 DEF ConnType
  <2> HIDE DEF e
  <2> QED
    BY <1>0, <2>1, <2>2, Unseen
<1>7. ASSUME NEW c \in Conn, ClientSends(c) PROVE Promise!Next
  <2>1. PICK q : conn' = [conn EXCEPT ![c].sent = @ + 1,
                                      ![c].inbox = Append(@, q)]
    BY <1>7 DEF ClientSends
  <2> DEFINE e == [conn[c] EXCEPT !.sent = @ + 1, !.inbox = Append(@, q)]
  <2>2. /\ conn' = [conn EXCEPT ![c] = e] /\ conn[c].state # "closed"
        /\ conn[c].sent < MaxRequests[c]
    BY <1>7, <2>1 DEF ClientSends
  <2>3. /\ e.sent = conn[c].sent + 1 /\ e.taken = conn[c].taken
        /\ e.log = conn[c].log /\ e.state = conn[c].state
    BY <1>0 DEF ConnType
  <2> HIDE DEF e
  <2>4. (e.state = "closed") = (conn[c].state = "closed")
    BY <2>3
  <2>5. /\ SentMap' = [SentMap EXCEPT ![c] = @ + 1]
        /\ UNCHANGED <<TakenMap, AnswersMap, OverMap>>
    <3>1. SentMap' = [SentMap EXCEPT ![c] = e.sent]
      BY <1>0, <2>2, SeenChange
    <3>2. SentMap[c] = conn[c].sent
      BY Seen
    <3> QED
      BY <1>0, <2>2, <2>3, <2>4, <3>1, <3>2, SeenSame
  <2>6. ~OverMap[c] /\ SentMap[c] < MaxRequests[c]
    BY <2>2, Seen
  <2> QED
    BY <2>5, <2>6, SendStep
<1>8. ASSUME NEW c \in Conn, NEW to, PeerChanges(c, to)
      PROVE  UNCHANGED <<SentMap, TakenMap, AnswersMap, OverMap>>
  <2> DEFINE e == [conn[c] EXCEPT !.peer = to]
  <2>1. conn' = [conn EXCEPT ![c] = e] /\ conn[c].state # "closed"
    BY <1>8 DEF PeerChanges
  <2>2. /\ e.sent = conn[c].sent /\ e.taken = conn[c].taken
        /\ e.log = conn[c].log /\ e.state = conn[c].state
    BY <1>0 DEF ConnType
  <2> HIDE DEF e
  <2> QED
    BY <1>0, <2>1, <2>2, Unseen
<1> QED
  BY <1>1, <1>2, <1>3, <1>4, <1>5, <1>6, <1>7, <1>8, WrittenRefines
     DEF Next, SessionStep, ListenerSetUp, AcceptFails, vars

\* The server takes the requests of a connection one at a time and in order,
\* answers each before it takes the next, and takes none after an answer that
\* does not keep the connection (server.hpp:95-127).
THEOREM Refinement == Spec => RefinesPipeline
<1>1. Init => Promise!Init
  <2> SUFFICES ASSUME Init PROVE Promise!Init
    OBVIOUS
  <2>1. \A c \in Conn : conn[c] = NewConn
    BY DEF Init
  <2>2. /\ NewConn.sent = 0 /\ NewConn.taken = <<>> /\ NewConn.log = <<>>
        /\ NewConn.state = "none"
    BY DEF NewConn
  <2>3. Numbers(<<>>) = <<>> /\ Answers(<<>>) = <<>>
    BY DEF Numbers, Answers
  <2> QED
    BY <2>1, <2>2, <2>3 DEF Promise!Init
<1>2. IInv /\ [Next]_vars => [Promise!Next]_(Promise!vars)
  <2> SUFFICES ASSUME IInv, [Next]_vars
               PROVE  Promise!Next \/ UNCHANGED Promise!vars
    OBVIOUS
  <2>1. CASE UNCHANGED <<SentMap, TakenMap, AnswersMap, OverMap>>
    BY <2>1 DEF Promise!vars, SentMap, TakenMap, AnswersMap, OverMap
  <2> QED
    BY <2>1, PromiseStep
<1> QED
  BY <1>1, <1>2, Invariance, PTL DEF Spec, RefinesPipeline, Promise!Spec
-----------------------------------------------------------------------------
(* The header of a response.                                               *)

CONSTANT MaxCalls

VARIABLE calls

\* The builder and what becomes of the header it makes.
Res == INSTANCE Response

\* The variables keep their types, and no body is framed before the response
\* is made.
HeaderTyped ==
  /\ header \in Res!Header /\ asked \in {"nothing", "keep", "close"}
  /\ wire \in {"none", "nothing", "length", "chunks"}
  /\ origin = "builder" => wire = "none"

\* From the last wish to close on the field does not say the contrary, even
\* while the header is being built: the version may be set later.
CloseKept == asked = "close" => header.connection # "keep-alive"

HeaderInv == HeaderTyped /\ CloseKept /\ FramingTruthful

\* A header is the record of its fields.
LEMMA HeaderFields ==
  ASSUME NEW h \in Res!Header
  PROVE  /\ h.version \in Res!Versions /\ h.status \in Res!Statuses
         /\ h.connection \in Res!Connections /\ h.chunked \in BOOLEAN
         /\ h.length \in BOOLEAN /\ h.type \in Res!Types
BY DEF Res!Header

\* A builder starts without a wish and without a field.
LEMMA HeaderInit == Res!Init => HeaderInv
<1> SUFFICES ASSUME Res!Init PROVE HeaderInv
  OBVIOUS
<1>1. header \in Res!Header
  BY DEF Res!Init, Res!Header, Res!Versions, Res!Statuses, Res!Connections, Res!Types
<1> QED
  BY <1>1 DEF Res!Init, HeaderInv, HeaderTyped, CloseKept, FramingTruthful

\* A call of the builder keeps the invariant if the header it makes is one
\* and holds to a wish to close: before the response is made the properties
\* say nothing.
LEMMA BuilderCallKeeps ==
  ASSUME HeaderInv, NEW h \in Res!Header, Res!Call(h),
         asked' \in {"nothing", "keep", "close"},
         asked' = "close" => h.connection # "keep-alive"
  PROVE  HeaderInv'
BY DEF Res!Call, HeaderInv, HeaderTyped, CloseKept, FramingTruthful

\* What is made of the builder keeps the invariant if the header is one, has
\* the Connection field of the builder, and frames the body as it is written
\* or as the status has it, except for what a service leaves of a header that
\* is not ok.
LEMMA HeaderFinishKeeps ==
  ASSUME HeaderInv, NEW from, from # "builder", NEW h \in Res!Header,
         NEW how \in {"none", "nothing", "length", "chunks"}, Res!Finish(from, h, how),
         h.connection = header.connection,
         \/ how = "none"
         \/ /\ how = IF h.status = "no_content" THEN "nothing" ELSE "length"
            /\ h.length /\ ~h.chunked /\ from # "sse service"
         \/ /\ how = "chunks" /\ h.chunked /\ ~h.length
            /\ from = "sse service" => h.type = "text/event-stream"
         \/ how = "chunks" /\ from \in {"service", "sse service"} /\ h.status # "ok"
  PROVE  HeaderInv'
<1>1. /\ header' = h /\ wire' = how /\ origin' = from /\ asked' = asked
  BY DEF Res!Finish
<1>2. HeaderTyped' /\ CloseKept'
  BY <1>1 DEF HeaderInv, HeaderTyped, CloseKept
<1>3. FramingTruthful'
  <2> DEFINE reads == ClientReads'
             mis == Misframed'
  <2>1. reads = "chunks" <=> h.status # "no_content" /\ h.chunked /\ ~h.length
    BY <1>1, HeaderFields DEF ClientReads
  <2>2. h.length /\ ~h.chunked =>
          reads = IF h.status = "no_content" THEN "nothing" ELSE "length"
    BY <1>1, HeaderFields DEF ClientReads
  <2>3. mis <=> /\ how = "chunks"
                /\ \/ h.status = "no_content"
                   \/ /\ from \in {"service", "sse service"} /\ h.status # "ok"
                      /\ ~h.chunked \/ h.length
    BY <1>1 DEF Misframed
  <2> HIDE DEF reads, mis
  <2>4. how # "none" => (reads = how <=> ~mis)
    BY <2>1, <2>2, <2>3
  <2>5. how # "none" /\ from = "sse service" /\ h.status = "ok" =>
          h.type = "text/event-stream"
    OBVIOUS
  <2> QED
    BY <1>1, <2>4, <2>5 DEF FramingTruthful, reads, mis
<1> QED
  BY <1>2, <1>3 DEF HeaderInv

\* Every step keeps the invariant.
LEMMA HeaderStep == HeaderInv /\ [Res!Next]_Res!vars => HeaderInv'
<1> SUFFICES ASSUME HeaderInv, [Res!Next]_Res!vars PROVE HeaderInv'
  OBVIOUS
<1> header \in Res!Header
  BY DEF HeaderInv, HeaderTyped
<1>1. ASSUME NEW s \in Res!Statuses, Res!Status(s) PROVE HeaderInv'
  <2> DEFINE h == [header EXCEPT !.status = s]
  <2>1. h \in Res!Header /\ h.connection = header.connection
    BY DEF Res!Header
  <2> QED
    BY <1>1, <2>1, BuilderCallKeeps DEF Res!Status, HeaderInv, HeaderTyped, CloseKept
<1>2. ASSUME NEW v \in Res!Versions, Res!Version(v) PROVE HeaderInv'
  <2> DEFINE h == [header EXCEPT !.version = v]
  <2>1. h \in Res!Header /\ h.connection = header.connection
    BY DEF Res!Header
  <2> QED
    BY <1>2, <2>1, BuilderCallKeeps DEF Res!Version, HeaderInv, HeaderTyped, CloseKept
<1>3. ASSUME NEW t \in Res!Types, Res!ContentType(t) PROVE HeaderInv'
  <2> DEFINE h == [header EXCEPT !.type = t]
  <2>1. h \in Res!Header /\ h.connection = header.connection
    BY DEF Res!Header
  <2> QED
    BY <1>3, <2>1, BuilderCallKeeps DEF Res!ContentType, HeaderInv, HeaderTyped, CloseKept
<1>4. ASSUME NEW keep \in BOOLEAN, Res!KeepAlive(keep) PROVE HeaderInv'
  <2> DEFINE h == [header EXCEPT !.connection = Res!KeepAliveField(header.version, keep)]
  <2>1. /\ Res!KeepAliveField(header.version, keep) \in Res!Connections
        /\ ~keep => Res!KeepAliveField(header.version, keep) # "keep-alive"
    BY DEF Res!KeepAliveField, Res!Connections, Res!Versions
  <2>2. h \in Res!Header /\ h.connection = Res!KeepAliveField(header.version, keep)
    BY <2>1 DEF Res!Header
  <2> QED
    BY <1>4, <2>1, <2>2, BuilderCallKeeps DEF Res!KeepAlive
<1>5. ASSUME NEW c \in Res!Connections, Res!SetConnection(c) PROVE HeaderInv'
  <2> DEFINE h == [header EXCEPT !.connection = c]
  <2>1. h \in Res!Header /\ h.connection = c
    BY DEF Res!Header
  <2> QED
    BY <1>5, <2>1, BuilderCallKeeps DEF Res!SetConnection
<1>6. ASSUME Res!SetChunked PROVE HeaderInv'
  <2> DEFINE h == [header EXCEPT !.chunked = TRUE]
  <2>1. h \in Res!Header /\ h.connection = header.connection
    BY DEF Res!Header
  <2> QED
    BY <1>6, <2>1, BuilderCallKeeps DEF Res!SetChunked, HeaderInv, HeaderTyped, CloseKept
<1>7. ASSUME Res!SetLength PROVE HeaderInv'
  <2> DEFINE h == [header EXCEPT !.length = TRUE]
  <2>1. h \in Res!Header /\ h.connection = header.connection
    BY DEF Res!Header
  <2> QED
    BY <1>7, <2>1, BuilderCallKeeps DEF Res!SetLength, HeaderInv, HeaderTyped, CloseKept
<1>8. ASSUME Res!Body PROVE HeaderInv'
  <2>1. /\ Res!Sized(header) \in Res!Header /\ Res!Sized(header).connection = header.connection
        /\ Res!Sized(header).length /\ ~Res!Sized(header).chunked
        /\ Res!Sized(header).status = header.status
    BY DEF Res!Sized, Res!Header
  <2>2. PICK h \in Res!Header, how \in {"nothing", "length"} :
          /\ Res!Finish("body", h, how) /\ h.connection = header.connection
          /\ how = (IF h.status = "no_content" THEN "nothing" ELSE "length")
          /\ h.length /\ ~h.chunked
    BY <1>8, <2>1, Zenon DEF Res!Body, Res!BodyOnWire
  <2> QED
    BY <2>2, HeaderFinishKeeps
<1>9. ASSUME Res!BodyThrows PROVE HeaderInv'
  BY <1>9, HeaderFinishKeeps DEF Res!BodyThrows
<1>10. \A h \in Res!Header :
         /\ Res!Chunked(h) \in Res!Header /\ Res!Chunked(h).connection = h.connection
         /\ Res!Chunked(h).chunked /\ ~Res!Chunked(h).length /\ Res!Chunked(h).type = h.type
  BY DEF Res!Chunked, Res!Header
<1>11. ASSUME Res!Streaming PROVE HeaderInv'
  BY <1>10, <1>11, HeaderFinishKeeps DEF Res!Streaming
<1>12. ASSUME Res!ChunkedService PROVE HeaderInv'
  <2>1. CASE header.status = "ok"
    BY <1>10, <1>12, <2>1, HeaderFinishKeeps DEF Res!ChunkedService, Res!Marked
  <2>2. CASE header.status # "ok"
    BY <1>12, <2>2, HeaderFinishKeeps DEF Res!ChunkedService, Res!Marked
  <2> QED
    BY <2>1, <2>2
<1>13. ASSUME Res!SseService PROVE HeaderInv'
  <2>1. CASE header.status = "ok"
    <3> DEFINE h == [header EXCEPT !.type = "text/event-stream"]
    <3>1. /\ h \in Res!Header /\ h.connection = header.connection
          /\ h.status = "ok" /\ h.type = "text/event-stream"
      BY <2>1 DEF Res!Header, Res!Types
    <3>2. Res!Finish("sse service", Res!Chunked(h), "chunks")
      BY <1>13, <2>1, <3>1 DEF Res!SseService, Res!Marked, Res!Typed
    <3> HIDE DEF h
    <3> QED
      BY <1>10, <3>1, <3>2, HeaderFinishKeeps
  <2>2. CASE header.status # "ok"
    BY <1>13, <2>2, HeaderFinishKeeps DEF Res!SseService, Res!Marked, Res!Typed
  <2> QED
    BY <2>1, <2>2
<1>14. ASSUME NEW v \in Res!Versions, NEW keep \in BOOLEAN, Res!ErrorAnswer(v, keep)
       PROVE  HeaderInv'
  <2> DEFINE f == Res!KeepAliveField(v, keep)
  <2>1. f \in Res!Connections /\ (~keep => f # "keep-alive")
    BY DEF Res!KeepAliveField, Res!Connections, Res!Versions
  <2>2. /\ header' \in Res!Header /\ header'.connection = f
        /\ header'.length /\ ~header'.chunked /\ header'.status = "error"
    BY <1>14, <2>1 DEF Res!ErrorAnswer, Res!Sized, Res!Header, Res!Statuses, Res!Types
  <2>3. wire' = "length" /\ origin' = "answer" /\ asked' = IF keep THEN "keep" ELSE "close"
    BY <1>14 DEF Res!ErrorAnswer
  <2> HIDE DEF f
  <2>4. HeaderTyped' /\ CloseKept'
    BY <2>1, <2>2, <2>3 DEF HeaderTyped, CloseKept
  <2>5. FramingTruthful'
    BY <2>2, <2>3 DEF FramingTruthful, Misframed, ClientReads
  <2> QED
    BY <2>4, <2>5 DEF HeaderInv
<1>15. CASE UNCHANGED Res!vars
  BY <1>15 DEF Res!vars, HeaderInv, HeaderTyped, CloseKept, FramingTruthful,
     Misframed, ClientReads
<1> QED
  BY <1>1, <1>2, <1>3, <1>4, <1>5, <1>6, <1>7, <1>8, <1>9, <1>11, <1>12, <1>13,
     <1>14, <1>15 DEF Res!Next

\* The inductive invariant holds for every number of calls.
THEOREM HeaderInvariance == Res!Spec => []HeaderInv
<1>1. HeaderInit /\ HeaderStep
  BY HeaderInit, HeaderStep
<1> QED
  BY HeaderInit, HeaderStep, PTL DEF Res!Spec

\* Whatever a handler calls and in whatever order, the client reads the body
\* the way it was written, but for exactly the streams under a status without
\* a body and the error streams that nobody marked (client/response.hpp:71-74).
THEOREM Framing == Res!Spec => []FramingTruthful
<1>1. HeaderInv => FramingTruthful
  BY DEF HeaderInv
<1> QED
  BY <1>1, HeaderInvariance, PTL

\* A wish to close is honoured, whatever version is set before or after it.
THEOREM Closed == Res!Spec => []CloseHonoured
<1>1. HeaderInv => CloseHonoured
  BY DEF HeaderInv, CloseKept, CloseHonoured, ServerKeeps
<1> QED
  BY <1>1, HeaderInvariance, PTL
=============================================================================
