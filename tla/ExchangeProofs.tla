--------------------------- MODULE ExchangeProofs ---------------------------
(***************************************************************************)
(* Proofs about a streamed response, for every capacity of the channels,   *)
(* every number of chunks and every choice of the empty ones.              *)
(*                                                                         *)
(* The first half is about the server alone, ServerStream: the inductive   *)
(* invariant IInv holds, and with it type correctness, FIFO delivery, the  *)
(* absence of mutual waiting and what is lost at the close; and the        *)
(* response implements StreamPromise.                                      *)
(*                                                                         *)
(* The second half is about the response from end to end, Exchange.  A     *)
(* step of the exchange is a step of the server's part or leaves it alone, *)
(* and the same holds of the client's part; so the invariants of both      *)
(* parts hold here.  What is left to prove is how they are joined: the     *)
(* client never parses more than the wire has, and the stream ends behind  *)
(* its last chunk, unless it breaks (Joined).                              *)
(***************************************************************************)
EXTENDS Exchange, SequenceTheorems, TLAPS

-----------------------------------------------------------------------------
(* Lemmas about the channel's sequences.                                   *)

\* A receive takes the first message and shifts the others; the payload of
\* a blocked send comes last.
LEMMA RefillSeq ==
  ASSUME NEW S, NEW s \in Seq(S), s # <<>>, NEW t \in Seq(S)
  PROVE  /\ Tail(s) \o t \in Seq(S)
         /\ Len(Tail(s) \o t) = Len(s) - 1 + Len(t)
         /\ \A i \in 1..(Len(s) - 1) : (Tail(s) \o t)[i] = s[i + 1]
         /\ \A i \in 1..Len(t) : (Tail(s) \o t)[Len(s) - 1 + i] = t[i]
<1>1. /\ Tail(s) \in Seq(S) /\ Len(Tail(s)) = Len(s) - 1
      /\ \A i \in 1..Len(Tail(s)) : Tail(s)[i] = s[i + 1]
  BY HeadTailProperties
<1>2. Len(s) \in Nat /\ Len(t) \in Nat /\ Len(s) > 0
  BY EmptySeq, LenProperties
<1>3. QED
  BY <1>1, <1>2, ConcatProperties

\* The lengths the invariant does arithmetic with.
LEMMA Lengths ==
  ASSUME TypeOK
  PROVE  /\ Capacity \in Nat /\ Capacity > 0
         /\ Len(buf) \in Nat /\ Len(blocked) \in {0, 1}
         /\ sent \in Nat
         /\ buf = <<>> <=> Len(buf) = 0
         /\ blocked = <<>> <=> Len(blocked) = 0
         /\ \A i \in 1..Len(buf) : buf[i] \in Chunk
         /\ \A i \in 1..Len(blocked) : blocked[i] \in Chunk
         /\ \A n \in Chunk : n \in Nat /\ n # NoMsg
<1>1. Len(buf) \in Nat /\ Len(blocked) \in Nat
  BY LenProperties DEF TypeOK, ChanTypeOK
<1>2. Len(blocked) \in {0, 1} /\ sent \in Nat
  <2>1. Len(blocked) <= 1 /\ sent \in 0..MaxChunks
    BY DEF TypeOK, ChanTypeOK
  <2>2. MaxChunks \in Nat
    BY ChunkAssumption
  <2>3. Len(blocked) = 0 \/ Len(blocked) = 1
    BY <2>1, <1>1
  <2>4. QED
    BY <2>1, <2>2, <2>3
<1>3. (buf = <<>> <=> Len(buf) = 0) /\ (blocked = <<>> <=> Len(blocked) = 0)
  BY EmptySeq DEF TypeOK, ChanTypeOK
<1>4. \A i \in 1..Len(buf) : buf[i] \in Chunk
  BY ElementOfSeq DEF TypeOK, ChanTypeOK
<1>5. \A i \in 1..Len(blocked) : blocked[i] \in Chunk
  BY ElementOfSeq DEF TypeOK, ChanTypeOK
<1>6. \A n \in Chunk : n \in Nat /\ n # NoMsg
  BY ChunkAssumption DEF Chunk
<1>7. QED
  BY <1>1, <1>2, <1>3, <1>4, <1>5, <1>6, CapacityAssumption

-----------------------------------------------------------------------------
(* What one receive does to the channel.                                   *)

\* The receive gets the chunk after the last one handed over, or it waits
\* on an empty channel; a blocked sender takes the free place.
LEMMA ReceivePost ==
  ASSUME TypeOK, Fifo, Suspended, open, StartReceive, sent' = sent
  PROVE  /\ ChanTypeOK(Chunk)'
         /\ \A i \in 1..Len(buf') : buf'[i] = Handed' + i
         /\ \A i \in 1..Len(blocked') : blocked'[i] = sent
         /\ \/ rcv' = "got" /\ slot' = Handed' /\ Handed' = Handed + 1
               /\ blocked' = <<>>
            \/ /\ rcv' = "waiting" /\ slot' = NoMsg /\ Handed' = Handed
               /\ buf' = <<>> /\ blocked' = <<>> /\ blocked = <<>>
<1> USE Lengths
<1>0. Len(buf) \in Nat /\ (Len(blocked) = 0 \/ Len(blocked) = 1) /\ sent \in Nat
  OBVIOUS
<1>1. CASE buf # <<>>
  <2>1. rcv' = "got" /\ slot' = Head(buf) /\ Refill /\ open' = open
    BY <1>1 DEF StartReceive
  <2>2. buf' = Tail(buf) \o blocked /\ blocked' = <<>>
    BY <2>1 DEF Refill
  <2>3. /\ buf' \in Seq(Chunk)
        /\ Len(buf') = Len(buf) - 1 + Len(blocked)
        /\ \A i \in 1..(Len(buf) - 1) : buf'[i] = buf[i + 1]
        /\ \A i \in 1..Len(blocked) : buf'[Len(buf) - 1 + i] = blocked[i]
    BY <1>1, <2>2, RefillSeq DEF TypeOK, ChanTypeOK
  <2>4. Len(blocked') = 0 /\ blocked' \in Seq(Chunk)
    BY <2>2, EmptySeq
  <2>5. Head(buf) = buf[1] /\ buf[1] = Handed + 1
    BY <1>1 DEF Fifo, TypeOK, ChanTypeOK
  <2>6. Handed' = Handed + 1
    BY <2>3, <2>4 DEF Handed
  <2>7. Len(buf') <= Capacity
    BY <2>3 DEF TypeOK, ChanTypeOK, Suspended
  <2>8. ASSUME NEW i \in 1..Len(buf')
        PROVE  buf'[i] = Handed' + i
    <3>1. CASE i \in 1..(Len(buf) - 1)
      <4>1. i + 1 \in 1..Len(buf) /\ buf'[i] = buf[i + 1]
        BY <3>1, <2>3
      <4>2. QED
        BY <4>1, <2>6 DEF Fifo, Handed
    <3>2. CASE i \notin 1..(Len(buf) - 1)
      <4>1. Len(blocked) = 1 /\ i = Len(buf)
        <5>1. i \in Nat /\ 1 <= i /\ i <= Len(buf) - 1 + Len(blocked)
          BY <2>3, <1>0
        <5>2. ~(i <= Len(buf) - 1)
          BY <3>2, <5>1, <1>0
        <5>3. QED
          BY <5>1, <5>2, <1>0
      <4>2. buf'[i] = sent
        BY <4>1, <2>3 DEF Fifo
      <4>3. QED
        BY <4>1, <4>2, <2>6 DEF Handed
    <3>3. QED
      BY <3>1, <3>2
  <2>9. slot' \in Chunk
    BY <2>1, <2>5, <1>1
  <2>10. ChanTypeOK(Chunk)'
    BY <2>1, <2>2, <2>3, <2>4, <2>7, <2>9 DEF ChanTypeOK, TypeOK, RcvStates
  <2>11. \A i \in 1..Len(blocked') : blocked'[i] = sent
    BY <2>4
  <2>12. QED
    BY <2>1, <2>2, <2>5, <2>6, <2>8, <2>10, <2>11
<1>2. CASE buf = <<>>
  <2>1. /\ rcv' = "waiting" /\ slot' = NoMsg
        /\ buf' = buf /\ blocked' = blocked /\ open' = open
    BY <1>2 DEF StartReceive
  <2>2. blocked = <<>>
    BY <1>2 DEF Suspended
  <2>3. QED
    BY <1>2, <2>1, <2>2 DEF ChanTypeOK, TypeOK, RcvStates, Handed
<1>3. QED
  BY <1>1, <1>2

\* The loop head: what was in hand is settled, and the channel is in order.
LEMMA LoopHeadPost ==
  ASSUME TypeOK, Fifo, Suspended, LoopHead, sent' = sent
  PROVE  /\ ChanTypeOK(Chunk)' /\ Fifo' /\ Suspended'
         /\ session' \in {"receive", "last"} /\ producer' \in ProducerStates
         /\ Settled' = Handed
<1>0. /\ Len(buf) \in Nat /\ (Len(blocked) = 0 \/ Len(blocked) = 1)
      /\ sent \in Nat /\ (blocked = <<>> <=> Len(blocked) = 0)
  BY Lengths
<1>1. CASE /\ open /\ session' = "receive" /\ StartReceive
           /\ producer' = IF blocked # blocked' THEN "ready" ELSE producer
  <2>1. /\ ChanTypeOK(Chunk)'
        /\ \A i \in 1..Len(buf') : buf'[i] = Handed' + i
        /\ \A i \in 1..Len(blocked') : blocked'[i] = sent
        /\ \/ rcv' = "got" /\ slot' = Handed' /\ Handed' = Handed + 1
              /\ blocked' = <<>>
           \/ /\ rcv' = "waiting" /\ slot' = NoMsg /\ Handed' = Handed
              /\ buf' = <<>> /\ blocked' = <<>> /\ blocked = <<>>
    BY <1>1, ReceivePost
  <2>2. blocked' = <<>> /\ Len(blocked') = 0 /\ open' = open
    BY <2>1, <1>1, EmptySeq DEF StartReceive
  <2>3. producer' # "blocked" /\ producer' # "exited"
    BY <2>2, <1>0, <1>1 DEF Suspended
  <2>4. Fifo'
    BY <2>1, <1>1 DEF Fifo
  <2>5. Suspended'
    BY <2>1, <2>2, <2>3, <1>1 DEF Suspended
  <2>6. Handed \in Int /\ Settled' = Handed
    BY <2>1, <1>0, <1>1 DEF Settled, Handed
  <2>7. producer' \in ProducerStates
    BY <1>1 DEF TypeOK, ProducerStates
  <2>8. QED
    BY <1>1, <2>1, <2>4, <2>5, <2>6, <2>7
<1>2. CASE /\ ~open /\ session' = "last" /\ EndReceive
           /\ UNCHANGED <<buf, open, blocked, producer>>
  <2>1. Handed' = Handed /\ Settled' = Handed
    BY <1>0, <1>2 DEF Handed, Settled, EndReceive
  <2>2. ChanTypeOK(Chunk)'
    BY <1>2 DEF TypeOK, ChanTypeOK, RcvStates, EndReceive
  <2>3. Fifo' /\ Suspended'
    BY <1>2, <2>1 DEF Fifo, Suspended, EndReceive
  <2>4. QED
    BY <1>2, <2>1, <2>2, <2>3 DEF TypeOK
<1>3. QED
  BY <1>1, <1>2 DEF LoopHead

-----------------------------------------------------------------------------
(* What the client has got.                                                *)

\* A step that leaves the wire alone keeps Delivered if it settles only
\* chunks with an empty body, or the client has gone.
LEMMA DeliveredKept ==
  ASSUME TypeOK, Delivered, wire' = wire, sent' \in Nat, sent <= sent',
         Settled \in Int, Settled' \in Int, Settled <= Settled',
         peer # "gone" \/ peer' = "gone",
         \/ peer' = "gone" /\ ~last'
         \/ \A n \in (Settled + 1)..Settled' : n \notin Sendable,
         last' => session' = "returned" /\ (last \/ peer # "gone"),
         session' = "returned" => last' = ~ec' /\ (ec' => peer' = "gone")
  PROVE  Delivered'
<1>1. \A n : OnWire(n)' <=> OnWire(n)
  BY DEF OnWire
<1>2. WireIsPrefix'
  <2>1. \A i \in DOMAIN wire : wire[i] \in Nat
    BY ElementOfSeq, ChunkAssumption DEF TypeOK, Chunk
  <2>2. sent \in Nat
    BY Lengths
  <2>3. QED
    BY <1>1, <2>1, <2>2 DEF Delivered, WireIsPrefix, OnWire
<1>3. \A i \in DOMAIN wire' : wire'[i] <= Settled'
  <2>1. \A i \in DOMAIN wire : wire[i] \in Nat
    BY ElementOfSeq, ChunkAssumption DEF TypeOK, Chunk
  <2>2. QED
    BY <2>1 DEF Delivered
<1>4. ASSUME peer' # "gone" \/ last', NEW n \in 1..Settled', n \in Sendable
      PROVE  OnWire(n)'
  <2>1. n \in 1..Settled
    BY <1>4
  <2>2. QED
    BY <1>1, <1>4, <2>1 DEF Delivered
<1>5. QED
  BY <1>2, <1>3, <1>4 DEF Delivered, Sendable, Chunk

\* A chunk with a body that is written in its turn keeps Delivered.
LEMMA DeliveredExtended ==
  ASSUME TypeOK, Delivered, peer # "gone", peer' = peer, sent' = sent,
         Settled \in Nat, Settled' = Settled + 1, Settled' <= sent,
         Settled + 1 \in Sendable, wire' = Append(wire, Settled + 1),
         session' # "returned", ~last'
  PROVE  Delivered'
<1>1. /\ wire \in Seq(Chunk) /\ Len(wire) \in Nat /\ sent \in Nat
      /\ DOMAIN wire = 1..Len(wire)
      /\ \A i \in 1..Len(wire) : wire[i] \in Nat
  BY LenProperties, ElementOfSeq, Lengths, ChunkAssumption DEF TypeOK, Chunk
<1>2. /\ Len(wire') = Len(wire) + 1 /\ DOMAIN wire' = 1..(Len(wire) + 1)
      /\ \A i \in 1..Len(wire) : wire'[i] = wire[i]
      /\ wire'[Len(wire) + 1] = Settled + 1
  BY <1>1, AppendProperties, ChunkAssumption DEF Sendable, Chunk
<1>3. \A i \in DOMAIN wire' : i \in 1..Len(wire) \/ i = Len(wire) + 1
  BY <1>1, <1>2
<1>4. \A i \in DOMAIN wire' : wire'[i] \in Nat /\ wire'[i] <= Settled + 1
  <2>1. \A i \in 1..Len(wire) : wire[i] <= Settled
    BY <1>1 DEF Delivered
  <2>2. \A i \in 1..Len(wire) : wire'[i] \in Nat /\ wire'[i] <= Settled + 1
    BY <2>1, <1>1, <1>2
  <2>3. QED
    BY <2>2, <1>2, <1>3
<1>5. \A n : OnWire(n) => OnWire(n)'
  BY <1>1, <1>2 DEF OnWire
<1>6. \E i \in DOMAIN wire' : wire'[i] = Settled + 1
  BY <1>1, <1>2
<1>7. ASSUME NEW n \in 1..(Settled + 1), n \in Sendable
      PROVE  OnWire(n)'
  <2>1. CASE n = Settled + 1
    BY <1>6, <2>1 DEF OnWire
  <2>2. CASE n # Settled + 1
    <3>1. n \in 1..Settled
      BY <2>2
    <3>2. QED
      BY <3>1, <1>5, <1>7 DEF Delivered
  <2>3. QED
    BY <2>1, <2>2
<1>8. WireIsPrefix'
  <2>1. \A i \in DOMAIN wire' : wire'[i] \in Sendable
    <3>1. \A i \in 1..Len(wire) : wire[i] \in Sendable
      BY <1>1 DEF Delivered, WireIsPrefix
    <3>2. QED
      BY <3>1, <1>2, <1>3
  <2>2. \A i, j \in DOMAIN wire' : i < j => wire'[i] < wire'[j]
    <3>1. SUFFICES ASSUME NEW i \in DOMAIN wire', NEW j \in DOMAIN wire', i < j
                   PROVE  wire'[i] < wire'[j]
      OBVIOUS
    <3>2. i \in 1..Len(wire)
      BY <3>1, <1>1, <1>2, <1>3
    <3>3. CASE j \in 1..Len(wire)
      BY <3>1, <3>2, <3>3, <1>1, <1>2 DEF Delivered, WireIsPrefix
    <3>4. CASE j = Len(wire) + 1
      BY <3>2, <3>4, <1>1, <1>2 DEF Delivered
    <3>5. QED
      BY <3>3, <3>4, <1>3
  <2>3. \A i \in DOMAIN wire' : \A n \in 1..wire'[i] :
          n \in Sendable => OnWire(n)'
    BY <1>4, <1>7
  <2>4. QED
    BY <2>1, <2>2, <2>3, <1>1, <1>4 DEF WireIsPrefix, Sendable, Chunk, OnWire
<1>9. QED
  BY <1>4, <1>7, <1>8 DEF Delivered, Sendable, Chunk, OnWire

-----------------------------------------------------------------------------
(* The invariant is inductive.                                             *)

LEMMA IInvInit == Init => IInv
<1> SUFFICES ASSUME Init PROVE IInv
  OBVIOUS
<1>1. /\ Len(buf) = 0 /\ Len(blocked) = 0
      /\ buf \in Seq(Chunk) /\ blocked \in Seq(Chunk) /\ wire \in Seq(Chunk)
  <2>1. buf = <<>> /\ blocked = <<>> /\ wire = <<>>
    BY DEF Init, ChanInit
  <2>2. QED
    BY <2>1, EmptySeq
<1>2. TypeOK
  <2>1. Len(buf) <= Capacity /\ Len(blocked) <= 1
    BY <1>1, CapacityAssumption
  <2>2. 0 \in 0..MaxChunks
    BY ChunkAssumption
  <2>3. ChanTypeOK(Chunk)
    BY <1>1, <2>1 DEF Init, ChanInit, ChanTypeOK, RcvStates
  <2>4. QED
    BY <1>1, <2>2, <2>3
       DEF Init, TypeOK, ProducerStates, SessionStates, PeerStates
<1>3. Fifo
  BY <1>1 DEF Init, ChanInit, Fifo
<1>4. Suspended
  BY <1>1 DEF Init, ChanInit, Suspended
<1>5. Settled = 0 /\ DOMAIN wire = {}
  <2>1. Settled = 0
    <3>1. sent = 0 /\ rcv = "idle" /\ session = "handler"
      BY DEF Init, ChanInit
    <3>2. Handed = 0
      BY <1>1, <3>1 DEF Handed
    <3>3. QED
      BY <3>1, <3>2 DEF Settled
  <2>2. wire = <<>>
    BY DEF Init
  <2>3. QED
    BY <2>1, <2>2
<1>6. Delivered
  BY <1>5 DEF Init, Delivered, WireIsPrefix
<1>7. QED
  BY <1>2, <1>3, <1>4, <1>6 DEF IInv

\* The chunks settled so far, by what the session is doing.
LEMMA SettledValue ==
  ASSUME IInv
  PROVE  /\ Handed \in Int /\ Settled \in Int
         /\ rcv = "got" => Settled = Handed - 1
         /\ session = "write" =>
              Settled = Handed - 1 /\ Handed \in Sendable /\ Handed <= sent
         /\ rcv # "got" /\ session # "write" => Settled = Handed
<1>1. Len(buf) \in Nat /\ Len(blocked) \in Nat /\ sent \in Nat
  BY Lengths DEF IInv
<1>2. session = "write" => Handed \in Sendable
  BY DEF IInv, TypeOK, Fifo, Valid, Sendable
<1>3. session = "write" => rcv # "got"
  BY DEF IInv, Suspended
<1>4. QED
  BY <1>1, <1>2, <1>3 DEF Settled, Handed

\* Each step of the system keeps the invariant.
LEMMA IInvStep == IInv /\ [Next]_vars => IInv'
<1> SUFFICES ASSUME IInv, [Next]_vars PROVE IInv'
  OBVIOUS
<1> USE DEF IInv
<1>0. /\ Len(buf) \in Nat /\ (Len(blocked) = 0 \/ Len(blocked) = 1)
      /\ sent \in Nat
  BY Lengths
<1>1. CASE HandlerSpawns \/ HandlerReturns \/ HandlerFails
  <2>1. /\ UNCHANGED <<buf, open, blocked, rcv, slot>>
        /\ UNCHANGED <<sent, chunk, ec, peer, wire, last>>
        /\ session = "handler" /\ session' \in {"handler", "header", "failed"}
        /\ \/ producer' = producer
           \/ producer = "none" /\ producer' = "ready"
    BY <1>1 DEF HandlerSpawns, HandlerReturns, HandlerFails, chanVars
  <2>2. TypeOK'
    BY <2>1 DEF TypeOK, ChanTypeOK, ProducerStates, SessionStates
  <2>3. Handed' = Handed /\ Settled' = Settled
    BY <2>1, <1>0 DEF Handed, Settled
  <2>4. Fifo' /\ Suspended'
    BY <2>1, <2>3 DEF Fifo, Suspended
  <2>5. Delivered'
    BY <2>1, <2>3, <1>0, SettledValue, DeliveredKept DEF Delivered
  <2>6. QED
    BY <2>2, <2>4, <2>5
<1>2. CASE HeaderWritten
  <2>1. /\ session = "header" /\ WriteCompletes /\ LoopHead
        /\ sent' = sent /\ chunk' = chunk /\ peer' = peer
        /\ wire' = wire /\ last' = last
    BY <1>2 DEF HeaderWritten
  <2>2. /\ ChanTypeOK(Chunk)' /\ Fifo' /\ Suspended'
        /\ session' \in {"receive", "last"} /\ producer' \in ProducerStates
        /\ Settled' = Handed
    BY <2>1, LoopHeadPost
  <2>3. TypeOK'
    BY <2>1, <2>2 DEF TypeOK, SessionStates, WriteCompletes
  <2>4. Settled \in Int /\ Settled = Handed
    BY <2>1, SettledValue DEF Suspended
  <2>5. Delivered'
    BY <2>1, <2>2, <2>4, <1>0, DeliveredKept DEF Delivered
  <2>6. QED
    BY <2>2, <2>3, <2>5
<1>3. CASE ChunkWritten
  <2>1. /\ session = "write" /\ WriteCompletes /\ LoopHead
        /\ wire' = IF peer = "gone" THEN wire ELSE Append(wire, chunk)
        /\ sent' = sent /\ chunk' = chunk /\ peer' = peer /\ last' = last
    BY <1>3 DEF ChunkWritten
  <2>2. /\ ChanTypeOK(Chunk)' /\ Fifo' /\ Suspended'
        /\ session' \in {"receive", "last"} /\ producer' \in ProducerStates
        /\ Settled' = Handed
    BY <2>1, LoopHeadPost
  <2>3. /\ Settled \in Int /\ Settled = Handed - 1 /\ Handed \in Int
        /\ Handed \in Sendable /\ Handed <= sent /\ chunk = Handed
    BY <2>1, SettledValue DEF Fifo
  <2>4. Handed \in Chunk /\ Handed >= 1
    BY <2>3, ChunkAssumption DEF Sendable, Chunk
  <2>5. wire' \in Seq(Chunk)
    BY <2>1, <2>3, <2>4, AppendProperties DEF TypeOK
  <2>6. TypeOK'
    BY <2>1, <2>2, <2>5 DEF TypeOK, SessionStates, WriteCompletes
  <2>7. CASE peer = "gone"
    <3>1. wire' = wire /\ peer' = "gone"
      BY <2>1, <2>7
    <3>2. Settled' \in Int /\ Settled <= Settled'
      BY <2>2, <2>3
    <3>3. QED
      BY <2>1, <2>2, <2>3, <2>6, <3>1, <3>2, <1>0, DeliveredKept DEF Delivered
  <2>8. CASE peer # "gone"
    <3>1. Settled \in Nat /\ Settled' = Settled + 1 /\ Settled' <= sent
      BY <2>2, <2>3, <2>4
    <3>2. Settled + 1 = Handed
      BY <2>3
    <3>3. wire' = Append(wire, Settled + 1) /\ Settled + 1 \in Sendable
      BY <2>1, <2>3, <2>8, <3>2
    <3>4. QED
      BY <2>1, <2>2, <2>6, <2>8, <3>1, <3>3, DeliveredExtended DEF Delivered
  <2>9. QED
    BY <2>7, <2>8
<1>4. CASE Received
  <2>1. /\ session = "receive" /\ rcv \in {"got", "cancelled", "closed"}
        /\ chunk' = slot /\ ec' = (rcv # "got")
        /\ sent' = sent /\ peer' = peer /\ wire' = wire /\ last' = last
    BY <1>4 DEF Received
  <2>2. CASE /\ Valid(slot) /\ session' = "write" /\ EndReceive
             /\ UNCHANGED <<buf, open, blocked, producer>>
    <3>1. rcv = "got" /\ slot = Handed /\ Settled \in Int /\ Settled = Handed - 1
      BY <2>2, SettledValue DEF Fifo, Valid
    <3>2. Handed' = Handed /\ Settled' = Settled
      BY <2>1, <2>2, <3>1, <1>0 DEF Handed, Settled, EndReceive
    <3>3. ChanTypeOK(Chunk)'
      BY <2>2 DEF EndReceive, TypeOK, ChanTypeOK, RcvStates
    <3>4. TypeOK'
      BY <2>1, <2>2, <3>3 DEF TypeOK, ChanTypeOK, SessionStates
    <3>5. Valid(chunk)'
      BY <2>1, <2>2 DEF Valid
    <3>6. Fifo'
      BY <2>1, <2>2, <3>1, <3>2, <3>5 DEF Fifo, EndReceive
    <3>7. Suspended'
      BY <2>1, <2>2 DEF Suspended, EndReceive
    <3>8. Delivered'
      BY <2>1, <2>2, <3>1, <3>2, <1>0, DeliveredKept DEF Delivered
    <3>9. QED
      BY <3>4, <3>6, <3>7, <3>8
  <2>3. CASE ~Valid(slot) /\ LoopHead
    <3>1. /\ ChanTypeOK(Chunk)' /\ Fifo' /\ Suspended'
          /\ session' \in {"receive", "last"} /\ producer' \in ProducerStates
          /\ Settled' = Handed
      BY <2>1, <2>3, LoopHeadPost
    <3>2. slot \in Chunk \cup {NoMsg}
      BY DEF TypeOK, ChanTypeOK
    <3>3. TypeOK'
      BY <2>1, <3>1, <3>2 DEF TypeOK, SessionStates
    <3>4. Settled \in Int /\ Settled' \in Int /\ Settled <= Settled'
      BY <2>1, <3>1, SettledValue
    <3>5. \A n \in (Settled + 1)..Settled' : n \notin Sendable
      <4>1. CASE rcv = "got"
        <5>1. Settled = Handed - 1 /\ Handed \in Int /\ Handed = slot
          BY <4>1, SettledValue DEF Fifo
        <5>2. Handed \notin Sendable
          BY <5>1, <2>3, ChunkAssumption DEF Valid, Sendable, Chunk
        <5>3. \A n \in (Settled + 1)..Settled' : n = Handed
          BY <5>1, <3>1
        <5>4. QED
          BY <5>2, <5>3
      <4>2. CASE rcv # "got"
        BY <4>2, <2>1, <3>1, <3>4, SettledValue
      <4>3. QED
        BY <4>1, <4>2
    <3>6. Delivered'
      BY <2>1, <3>1, <3>4, <3>5, <1>0, DeliveredKept DEF Delivered
    <3>7. QED
      BY <3>1, <3>3, <3>6
  <2>4. QED
    BY <1>4, <2>2, <2>3 DEF Received
<1>5. CASE LastWritten
  <2>1. /\ session = "last" /\ session' = "returned"
        /\ ec' = (peer = "gone") /\ last' = (peer # "gone")
        /\ UNCHANGED <<buf, open, blocked, rcv, slot, producer>>
        /\ UNCHANGED <<sent, chunk, peer, wire>>
    BY <1>5 DEF LastWritten, WriteCompletes, chanVars
  <2>2. TypeOK'
    BY <2>1 DEF TypeOK, ChanTypeOK, SessionStates
  <2>3. Handed' = Handed /\ Settled' = Settled
    BY <2>1, <1>0 DEF Handed, Settled
  <2>4. Fifo' /\ Suspended'
    BY <2>1, <2>3 DEF Fifo, Suspended
  <2>5. last' = ~ec' /\ (ec' => peer' = "gone") /\ (last' => peer # "gone")
    BY <2>1
  <2>6. Delivered'
    BY <2>1, <2>3, <2>5, <1>0, SettledValue, DeliveredKept
  <2>7. QED
    BY <2>2, <2>4, <2>6
<1>6. CASE Send
  <2>1. /\ producer = "ready" /\ open /\ sent < MaxChunks /\ sent' = sent + 1
        /\ UNCHANGED <<session, chunk, ec, peer, wire, last>>
        /\ Len(blocked) = 0
    BY <1>6, <1>0 DEF Send, Suspended
  <2>2. sent + 1 \in Chunk /\ sent' \in 0..MaxChunks
    BY <2>1, <1>0, ChunkAssumption DEF Chunk
  <2>3. CASE HandOver(sent + 1) /\ producer' = "ready"
    <3>1. rcv = "waiting" /\ buf = <<>> /\ blocked = <<>> /\ session = "receive"
      BY <2>3 DEF HandOver, Suspended
    <3>2. /\ buf' = <<>> /\ blocked' = <<>> /\ open' = open /\ rcv' = "got"
          /\ slot' = sent + 1
      BY <2>3, <3>1 DEF HandOver
    <3>3. Len(buf') = 0 /\ Len(blocked') = 0 /\ Len(buf) = 0
      BY <3>1, <3>2, EmptySeq
    <3>4. /\ Handed = sent /\ Handed' = sent + 1
          /\ Settled = sent /\ Settled' = sent
      BY <2>1, <3>1, <3>2, <3>3, <1>0 DEF Handed, Settled
    <3>5. TypeOK'
      BY <2>1, <2>2, <2>3, <3>1, <3>2
         DEF TypeOK, ChanTypeOK, RcvStates, ProducerStates
    <3>6. Fifo'
      BY <2>1, <3>1, <3>2, <3>3, <3>4 DEF Fifo
    <3>7. Suspended'
      BY <2>1, <2>3, <3>1, <3>2, <3>3 DEF Suspended
    <3>8. Delivered'
      BY <2>1, <3>4, <1>0, DeliveredKept DEF Delivered
    <3>9. QED
      BY <3>5, <3>6, <3>7, <3>8
  <2>4. CASE Enqueue(sent + 1) /\ producer' = "ready"
    <3>1. /\ rcv # "waiting" /\ Len(buf) < Capacity
          /\ buf' = Append(buf, sent + 1)
          /\ UNCHANGED <<open, blocked, rcv, slot>>
      BY <2>4 DEF Enqueue, HasRoom
    <3>2. /\ buf' \in Seq(Chunk) /\ Len(buf') = Len(buf) + 1
          /\ \A i \in 1..Len(buf) : buf'[i] = buf[i]
          /\ buf'[Len(buf) + 1] = sent + 1
      BY <2>2, <3>1, AppendProperties DEF TypeOK, ChanTypeOK
    <3>3. Handed' = Handed /\ Settled' = Settled /\ Handed = sent - Len(buf)
      BY <2>1, <3>1, <3>2, <1>0 DEF Handed, Settled
    <3>4. Len(buf') <= Capacity
      BY <3>1, <3>2, <1>0, CapacityAssumption
    <3>5. TypeOK'
      BY <2>1, <2>2, <2>4, <3>1, <3>2, <3>4
         DEF TypeOK, ChanTypeOK, ProducerStates
    <3>6. \A i \in 1..Len(buf') : buf'[i] = Handed' + i
      <4>1. \A i \in 1..Len(buf) : buf'[i] = Handed + i
        BY <3>2 DEF Fifo
      <4>2. buf'[Len(buf) + 1] = Handed + (Len(buf) + 1)
        BY <3>2, <3>3, <1>0
      <4>3. QED
        BY <4>1, <4>2, <3>2, <3>3, <1>0
    <3>7. Fifo'
      BY <2>1, <3>1, <3>3, <3>6 DEF Fifo
    <3>8. Suspended'
      BY <2>1, <2>4, <3>1 DEF Suspended
    <3>9. Delivered'
      BY <2>1, <3>3, <1>0, SettledValue, DeliveredKept DEF Delivered
    <3>10. QED
      BY <3>5, <3>7, <3>8, <3>9
  <2>5. CASE SendBlocks(sent + 1) /\ producer' = "blocked"
    <3>1. /\ rcv # "waiting" /\ ~(Len(buf) < Capacity)
          /\ blocked' = <<sent + 1>>
          /\ UNCHANGED <<buf, open, rcv, slot>>
      BY <2>5 DEF SendBlocks, HasRoom
    <3>2. /\ Len(blocked') = 1 /\ blocked' \in Seq(Chunk)
          /\ blocked'[1] = sent + 1
      BY <2>2, <3>1
    <3>3. Len(buf) = Capacity
      BY <3>1, <1>0, CapacityAssumption DEF TypeOK, ChanTypeOK
    <3>4. Handed' = Handed /\ Settled' = Settled
      BY <2>1, <3>1, <3>2, <1>0 DEF Handed, Settled
    <3>5. TypeOK'
      BY <2>1, <2>2, <2>5, <3>1, <3>2 DEF TypeOK, ChanTypeOK, ProducerStates
    <3>6. Fifo'
      BY <2>1, <3>1, <3>2, <3>4 DEF Fifo
    <3>7. Suspended'
      BY <2>1, <2>5, <3>1, <3>2, <3>3 DEF Suspended
    <3>8. Delivered'
      BY <2>1, <3>4, <1>0, SettledValue, DeliveredKept DEF Delivered
    <3>9. QED
      BY <3>5, <3>6, <3>7, <3>8
  <2>6. QED
    BY <1>6, <2>3, <2>4, <2>5 DEF Send, SendAtOnce
<1>7. CASE Exit
  <2>1. /\ producer = "ready" /\ producer' = "exited" /\ open' = FALSE
        /\ rcv' = IF rcv = "waiting" THEN "cancelled" ELSE rcv
        /\ blocked' = <<>> /\ UNCHANGED <<buf, slot>>
        /\ UNCHANGED <<sent, session, chunk, ec, peer, wire, last>>
    BY <1>7 DEF Exit, CancelAndClose
  <2>2. Len(blocked) = 0 /\ Len(blocked') = 0
    BY <2>1, <1>0, EmptySeq DEF Suspended
  <2>3. Handed' = Handed /\ Settled' = Settled
    BY <2>1, <2>2, <1>0 DEF Handed, Settled
  <2>4. TypeOK'
    BY <2>1, <2>2, EmptySeq DEF TypeOK, ChanTypeOK, ProducerStates, RcvStates
  <2>5. Fifo'
    BY <2>1, <2>2, <2>3 DEF Fifo
  <2>6. Suspended'
    BY <2>1, <2>2 DEF Suspended
  <2>7. Delivered'
    BY <2>1, <2>3, <1>0, SettledValue, DeliveredKept DEF Delivered
  <2>8. QED
    BY <2>4, <2>5, <2>6, <2>7
<1>8. ASSUME NEW to \in PeerStates, PeerChanges(to) PROVE IInv'
  <2>1. /\ peer # "gone" /\ peer' = to
        /\ UNCHANGED <<buf, open, blocked, rcv, slot, producer>>
        /\ UNCHANGED <<sent, session, chunk, ec, wire, last>>
    BY <1>8 DEF PeerChanges, chanVars
  <2>2. TypeOK'
    BY <2>1 DEF TypeOK, ChanTypeOK
  <2>3. Handed' = Handed /\ Settled' = Settled
    BY <2>1, <1>0 DEF Handed, Settled
  <2>4. Fifo' /\ Suspended'
    BY <2>1, <2>3 DEF Fifo, Suspended
  <2>5. Delivered'
    BY <2>1, <2>3, <1>0, SettledValue, DeliveredKept DEF Delivered
  <2>6. QED
    BY <2>2, <2>4, <2>5
<1>9. CASE UNCHANGED vars
  <2>1. /\ UNCHANGED <<buf, open, blocked, rcv, slot, producer>>
        /\ UNCHANGED <<sent, session, chunk, ec, peer, wire, last>>
    BY <1>9 DEF vars, chanVars
  <2>2. TypeOK'
    BY <2>1 DEF TypeOK, ChanTypeOK
  <2>3. Handed' = Handed /\ Settled' = Settled
    BY <2>1, <1>0 DEF Handed, Settled
  <2>4. Fifo' /\ Suspended'
    BY <2>1, <2>3 DEF Fifo, Suspended
  <2>5. Delivered'
    BY <2>1, <2>3, <1>0, SettledValue, DeliveredKept DEF Delivered
  <2>6. QED
    BY <2>2, <2>4, <2>5
<1>10. QED
  BY <1>1, <1>2, <1>3, <1>4, <1>5, <1>6, <1>7, <1>8, <1>9
     DEF Next, SessionStep

-----------------------------------------------------------------------------
(* The theorems.                                                           *)

\* The inductive invariant holds in every reachable state.
THEOREM Invariance == Spec => []IInv
<1>1. QED
  BY IInvInit, IInvStep, PTL DEF Spec

\* Every variable keeps its type; in particular the channel never buffers
\* more than its capacity and never has two blocked sends.
THEOREM TypeCorrect == Spec => []TypeOK
<1>1. IInv => TypeOK
  BY DEF IInv
<1>2. QED
  BY <1>1, Invariance, PTL

\* The client reads a prefix of what the producer sent, in order, without
\* gaps and without an empty chunk, whatever the interleaving.
THEOREM PrefixDelivery == Spec => []WireIsPrefix
<1>1. IInv => WireIsPrefix
  BY DEF IInv, Delivered
<1>2. QED
  BY <1>1, Invariance, PTL

\* The session and the producer never wait for each other.
THEOREM NoDeadlock == Spec => []NoMutualWait
<1>1. IInv => NoMutualWait
  <2>1. ASSUME IInv, rcv = "waiting"
        PROVE  buf = <<>> /\ producer \notin {"blocked", "exited"}
    BY <2>1, EmptySeq DEF IInv, Suspended
  <2>2. ASSUME IInv, producer = "blocked"
        PROVE  Len(buf) = Capacity /\ open
    BY <2>2 DEF IInv, Suspended
  <2>3. QED
    BY <2>1, <2>2 DEF NoMutualWait
<1>2. QED
  BY <1>1, Invariance, PTL

\* Only what was buffered when the producer finished is ever lost, and the
\* response does not end before that.
THEOREM LossBounded == Spec => []LossOnlyAtClose
<1>1. IInv => LossOnlyAtClose
  <2>1. SUFFICES ASSUME IInv, session \in {"last", "returned"}
                 PROVE  producer = "exited" /\ ~open /\ Settled = sent - Len(buf)
    BY DEF LossOnlyAtClose
  <2>2. producer = "exited" /\ ~open /\ rcv # "got"
    BY <2>1 DEF IInv, Suspended
  <2>3. Len(blocked) = 0 /\ Len(buf) \in Nat /\ sent \in Nat
    BY <2>1, <2>2, Lengths DEF IInv, Suspended
  <2>4. QED
    BY <2>1, <2>2, <2>3 DEF Settled, Handed
<1>2. QED
  BY <1>1, Invariance, PTL

\* Success excuses nothing: what a step of the response that went wrong left
\* out shows in ec.
LEMMA OkHolds == IInv => OkMeansAllWritten
<1> SUFFICES ASSUME IInv, session = "returned", ~ec
             PROVE  /\ last
                    /\ \A n \in 1..(sent - Len(buf)) :
                         n \in Sendable => OnWire(n)
  BY DEF OkMeansAllWritten
<1>1. producer = "exited" /\ ~open /\ rcv # "got"
  BY DEF IInv, Suspended
<1>2. Len(blocked) = 0 /\ Len(buf) \in Nat /\ sent \in Nat
  BY <1>1, Lengths DEF IInv, Suspended
<1>3. Settled = sent - Len(buf)
  BY <1>1, <1>2 DEF Settled, Handed
<1>4. last
  BY DEF IInv, Delivered, TypeOK
<1>5. QED
  BY <1>3, <1>4 DEF IInv, Delivered

\* A response that reports success has written its last chunk and every
\* chunk it took off the channel.
THEOREM SuccessIsComplete == Spec => []OkMeansAllWritten
BY OkHolds, Invariance, PTL

-----------------------------------------------------------------------------
(* Refinement: a streamed response implements the promise of StreamPromise,*)
(* for every capacity, number of chunks and choice of the empty ones.  A   *)
(* step of the coroutines or of the peer is a step of the promise or       *)
(* leaves offered, pos, wire, cut and done alone.                          *)

\* A receive that completed without an error carries a chunk.  IInv alone
\* does not say that this chunk is not the value-initialised one.
GotChunk == rcv = "got" => slot # NoMsg

\* A receive that starts finds a chunk in the buffer or none.
LEMMA StartGotChunk ==
  ASSUME TypeOK, StartReceive
  PROVE  GotChunk'
<1>1. CASE buf # <<>>
  <2>1. slot' = buf[1] /\ 1 \in 1..Len(buf)
    BY <1>1, Lengths DEF StartReceive, TypeOK, ChanTypeOK
  <2> QED
    BY <2>1, Lengths DEF GotChunk
<1>2. CASE buf = <<>>
  BY <1>2 DEF StartReceive, GotChunk
<1> QED
  BY <1>1, <1>2

\* Every step keeps it: chunks enter the receiver's slot from the buffer or
\* straight from a send.
LEMMA GotChunkStep ==
  ASSUME TypeOK, GotChunk, [Next]_vars
  PROVE  GotChunk'
<1>1. ASSUME LoopHead PROVE GotChunk'
  BY <1>1, StartGotChunk DEF LoopHead, EndReceive, GotChunk
<1>2. CASE HeaderWritten \/ ChunkWritten
  BY <1>1, <1>2 DEF HeaderWritten, ChunkWritten
<1>3. CASE Received
  BY <1>1, <1>3 DEF Received, EndReceive, GotChunk
<1>4. CASE Send
  <2>1. sent + 1 # NoMsg
    BY ChunkAssumption DEF TypeOK
  <2>2. CASE SendAtOnce(sent + 1)
    BY <2>1, <2>2 DEF SendAtOnce, HandOver, Enqueue, GotChunk
  <2>3. CASE SendBlocks(sent + 1)
    BY <2>3 DEF SendBlocks, GotChunk
  <2> QED
    BY <1>4, <2>2, <2>3 DEF Send
<1>5. CASE Exit
  BY <1>5 DEF Exit, CancelAndClose, GotChunk
<1>6. CASE HandlerSpawns \/ HandlerReturns \/ HandlerFails \/ LastWritten
           \/ (\E to \in PeerStates : PeerChanges(to)) \/ UNCHANGED vars
  BY <1>6 DEF HandlerSpawns, HandlerReturns, HandlerFails, LastWritten,
              PeerChanges, vars, chanVars, GotChunk
<1> QED
  BY <1>2, <1>3, <1>4, <1>5, <1>6 DEF Next, SessionStep

-----------------------------------------------------------------------------
(* The mapping.                                                            *)

Done == session \in {"last", "returned"}

\* The response starts with nothing offered.
LEMMA InitRefines == Init => Promise!Init
<1> SUFFICES ASSUME Init PROVE Promise!Init
  OBVIOUS
<1>1. Settled = 0
  <2>1. sent = 0 /\ rcv = "idle" /\ session = "handler"
    BY DEF Init, ChanInit
  <2>2. buf = <<>> /\ blocked = <<>>
    BY DEF Init, ChanInit
  <2>3. Len(buf) = 0 /\ Len(blocked) = 0
    BY <2>2
  <2>4. Handed = 0
    BY <2>1, <2>3 DEF Handed
  <2> QED
    BY <2>1, <2>4 DEF Settled
<1>2. sent = 0 /\ wire = <<>>
  BY DEF Init
<1>3. (peer = "gone") = FALSE /\ (session \in {"last", "returned"}) = FALSE
  BY DEF Init
<1> QED
  BY <1>1, <1>2, <1>3 DEF Promise!Init

\* A step that changes none of the promise's variables is a stutter.
LEMMA Stutter ==
  ASSUME sent' = sent, Settled' = Settled, wire' = wire,
         (peer' = "gone") = (peer = "gone"), Done' = Done
  PROVE  [Promise!Next]_(Promise!vars)
  BY DEF Promise!vars, Done

\* The loop head either goes on, or it ends the response with at most a full
\* buffer left behind.
LEMMA LoopHeadBound ==
  ASSUME IInv, LoopHead, sent' = sent
  PROVE  /\ Settled' = Handed /\ Handed \in Int /\ sent \in Nat
         /\ Handed <= sent
         /\ \/ open /\ session' = "receive"
            \/ /\ ~open /\ session' = "last"
               /\ sent - Handed <= Capacity
<1>1. Settled' = Handed
  BY LoopHeadPost DEF IInv
<1>2. /\ Len(buf) \in Nat /\ Len(blocked) \in {0, 1} /\ sent \in Nat
      /\ Len(buf) <= Capacity
  BY Lengths DEF IInv, TypeOK, ChanTypeOK
<1>3. Handed \in Int /\ Handed <= sent
  BY <1>2 DEF Handed
<1>4. CASE open
  BY <1>1, <1>2, <1>3, <1>4 DEF LoopHead
<1>5. CASE ~open
  <2>1. Len(blocked) = 0
    BY <1>2, <1>5 DEF IInv, Suspended
  <2>2. sent - Handed <= Capacity
    BY <1>2, <2>1 DEF Handed
  <2> QED
    BY <1>1, <1>2, <1>3, <1>5, <2>2 DEF LoopHead
<1> QED
  BY <1>4, <1>5

-----------------------------------------------------------------------------
(* The session's steps.                                                    *)

\* After the header the loop head goes on, or finishes a stream that was
\* closed before anything was received.
LEMMA HeaderRefines ==
  ASSUME IInv, HeaderWritten
  PROVE  [Promise!Next]_(Promise!vars)
<1>1. /\ LoopHead /\ sent' = sent /\ wire' = wire /\ peer' = peer
      /\ session = "header"
  BY DEF HeaderWritten
<1>2. rcv = "idle"
  BY <1>1 DEF IInv, Suspended, TypeOK, ChanTypeOK, RcvStates
<1>3. Settled = Handed
  BY <1>1, <1>2, LoopHeadBound DEF Settled
<1>4. CASE open
  BY <1>1, <1>3, <1>4, LoopHeadBound, Stutter DEF Done
<1>5. CASE ~open
  <2>1. Promise!Finish
    BY <1>1, <1>3, <1>5, LoopHeadBound DEF Promise!Finish
  <2> QED
    BY <2>1 DEF Promise!Next
<1> QED
  BY <1>4, <1>5

\* A chunk with a body goes on to the write; an empty one is dealt with at
\* once; an error means that the channel is closed.
LEMMA ReceivedRefines ==
  ASSUME IInv, GotChunk, Received
  PROVE  [Promise!Next]_(Promise!vars)
<1>1. /\ session = "receive" /\ rcv \in {"got", "cancelled", "closed"}
      /\ sent' = sent /\ wire' = wire /\ peer' = peer
  BY DEF Received
<1>2. /\ Len(buf) \in Nat /\ Len(blocked) \in Nat /\ sent \in Nat
      /\ Handed \in Int
  BY Lengths DEF IInv, Handed
<1>3. CASE Valid(slot) /\ session' = "write" /\ EndReceive
           /\ UNCHANGED <<buf, open, blocked, producer>>
  <2>1. rcv = "got"
    BY <1>1, <1>3 DEF IInv, Fifo, Valid
  <2>2. Settled' = Settled
    BY <1>1, <1>2, <1>3, <2>1 DEF Settled, Handed, EndReceive
  <2> QED
    BY <1>1, <1>3, <2>2, Stutter DEF Done
<1>4. CASE ~Valid(slot) /\ LoopHead /\ rcv = "got"
  <2>1. Settled = Handed - 1
    BY <1>2, <1>4 DEF Settled
  <2>2. Handed \in EmptyChunks
    BY <1>4 DEF IInv, Fifo, GotChunk, Valid
  <2>3. /\ Settled' = Settled + 1 /\ Settled < sent
        /\ Done' => sent - Settled' <= Capacity
        /\ ~Done /\ Done' \in BOOLEAN
    BY <1>1, <1>2, <1>4, <2>1, LoopHeadBound DEF Done
  <2>4. Settled + 1 \in EmptyChunks
    BY <1>2, <2>1, <2>2
  <2>5. Promise!Deliver
    BY <1>1, <2>3, <2>4 DEF Promise!Deliver, Done
  <2> QED
    BY <2>5 DEF Promise!Next
<1>5. CASE ~Valid(slot) /\ LoopHead /\ rcv \in {"cancelled", "closed"}
  <2>1. ~open /\ Settled = Handed
    BY <1>1, <1>2, <1>5 DEF IInv, Suspended, Settled
  <2>2. Promise!Finish
    BY <1>1, <1>5, <2>1, LoopHeadBound DEF Promise!Finish
  <2> QED
    BY <2>2 DEF Promise!Next
<1> QED
  BY <1>1, <1>3, <1>4, <1>5 DEF Received

\* The chunk in hand is written, or lost with the connection.
LEMMA WrittenRefines ==
  ASSUME IInv, ChunkWritten
  PROVE  [Promise!Next]_(Promise!vars)
<1>1. /\ session = "write" /\ LoopHead /\ sent' = sent /\ peer' = peer
      /\ wire' = IF peer = "gone" THEN wire ELSE Append(wire, chunk)
  BY DEF ChunkWritten
<1>2. /\ Len(buf) \in Nat /\ Len(blocked) \in Nat /\ sent \in Nat
      /\ Handed \in Int
  BY Lengths DEF IInv, Handed
<1>3. chunk = Handed /\ chunk \notin EmptyChunks
  BY <1>1 DEF IInv, Fifo, Valid
<1>4. Settled = Handed - 1
  BY <1>1, <1>2 DEF Settled
<1>5. /\ Settled' = Settled + 1 /\ Settled < sent
      /\ Done' => sent - Settled' <= Capacity
      /\ ~Done /\ Done' \in BOOLEAN
  BY <1>1, <1>2, <1>4, LoopHeadBound DEF Done
<1>6. chunk = Settled + 1
  BY <1>2, <1>3, <1>4
<1>7. Promise!Deliver
  BY <1>1, <1>3, <1>5, <1>6 DEF Promise!Deliver, Done
<1> QED
  BY <1>7 DEF Promise!Next

-----------------------------------------------------------------------------
(* The steps of the producer and of the peer.                              *)

\* A send offers the next chunk, wherever it goes, and settles none.
LEMMA SendRefines ==
  ASSUME IInv, Send
  PROVE  [Promise!Next]_(Promise!vars)
<1>1. /\ producer = "ready" /\ open /\ sent < MaxChunks /\ sent' = sent + 1
      /\ session' = session /\ wire' = wire /\ peer' = peer
  BY DEF Send
<1>2. /\ Len(buf) \in Nat /\ sent \in Nat /\ Len(blocked) = 0 /\ blocked = <<>>
      /\ buf \in Seq(Chunk)
  BY <1>1, Lengths DEF IInv, Suspended, TypeOK, ChanTypeOK
<1>3. ~Done
  BY <1>1 DEF IInv, Suspended, Done
<1>4. Settled' = Settled
  <2>1. CASE HandOver(sent + 1)
    <3>1. session = "receive" /\ rcv = "waiting" /\ rcv' = "got"
      BY <2>1 DEF HandOver, IInv, Suspended
    <3> QED
      BY <1>1, <1>2, <2>1, <3>1 DEF HandOver, Settled, Handed
  <2>2. CASE Enqueue(sent + 1)
    <3>1. Len(buf') = Len(buf) + 1
      BY <1>2, <2>2 DEF Enqueue
    <3> QED
      BY <1>1, <1>2, <2>2, <3>1 DEF Enqueue, Settled, Handed
  <2>3. CASE SendBlocks(sent + 1)
    <3>1. Len(blocked') = 1
      BY <2>3 DEF SendBlocks
    <3> QED
      BY <1>1, <1>2, <2>3, <3>1 DEF SendBlocks, Settled, Handed
  <2> QED
    BY <2>1, <2>2, <2>3 DEF Send, SendAtOnce
<1>5. Promise!Offer
  BY <1>1, <1>3, <1>4 DEF Promise!Offer, Done
<1> QED
  BY <1>5 DEF Promise!Next

\* The completion handler of the producer is not seen by the promise.
LEMMA ExitRefines ==
  ASSUME IInv, Exit
  PROVE  [Promise!Next]_(Promise!vars)
<1>1. /\ producer = "ready" /\ sent' = sent /\ buf' = buf /\ blocked' = <<>>
      /\ session' = session /\ wire' = wire /\ peer' = peer
      /\ rcv' = "got" <=> rcv = "got"
  BY DEF Exit, CancelAndClose
<1>2. blocked = <<>>
  BY <1>1, Lengths DEF IInv, Suspended
<1>3. Settled' = Settled
  BY <1>1, <1>2 DEF Settled, Handed
<1> QED
  BY <1>1, <1>3, Stutter DEF Done

\* A client that leaves cuts the stream; one that stops or starts reading
\* changes nothing.
LEMMA PeerRefines ==
  ASSUME NEW to \in PeerStates, PeerChanges(to)
  PROVE  [Promise!Next]_(Promise!vars)
<1>1. /\ peer' = to /\ peer # "gone"
      /\ sent' = sent /\ Settled' = Settled /\ wire' = wire /\ Done' = Done
  BY DEF PeerChanges, chanVars, Settled, Handed, Done
<1>2. CASE to = "gone"
  <2>1. Promise!Cut
    BY <1>1, <1>2 DEF Promise!Cut, Done
  <2> QED
    BY <2>1 DEF Promise!Next
<1>3. CASE to # "gone"
  BY <1>1, <1>3, Stutter
<1> QED
  BY <1>2, <1>3

\* The steps that leave the channel, the wire and the promise alone.
LEMMA OtherRefines ==
  ASSUME \/ HandlerSpawns \/ HandlerReturns \/ HandlerFails \/ LastWritten
         \/ UNCHANGED vars
  PROVE  [Promise!Next]_(Promise!vars)
<1>1. /\ sent' = sent /\ wire' = wire /\ peer' = peer /\ Done' = Done
      /\ UNCHANGED <<buf, blocked, rcv>>
      /\ session' = "write" <=> session = "write"
  BY DEF HandlerSpawns, HandlerReturns, HandlerFails, LastWritten, vars,
         chanVars, Done
<1>2. Settled' = Settled
  BY <1>1 DEF Settled, Handed
<1> QED
  BY <1>1, <1>2, Stutter

-----------------------------------------------------------------------------
\* The streamed response implements the promise: whatever the interleaving
\* of the producer, the session and the peer, the chunks are dealt with in
\* order, each once, and at most Capacity are left behind at the end.
THEOREM Refinement == Spec => RefinesPromise
<1>1. Init => GotChunk
  BY DEF Init, ChanInit, GotChunk
<1>2. IInv => TypeOK
  BY DEF IInv
<1>3. IInv /\ GotChunk /\ [Next]_vars => GotChunk'
  BY <1>2, GotChunkStep
<1>4. IInv /\ GotChunk /\ [Next]_vars => [Promise!Next]_(Promise!vars)
  <2> SUFFICES ASSUME IInv, GotChunk, [Next]_vars
               PROVE  [Promise!Next]_(Promise!vars)
    OBVIOUS
  <2>1. CASE SessionStep
    BY <2>1, HeaderRefines, ReceivedRefines, WrittenRefines, OtherRefines
       DEF SessionStep
  <2>2. CASE Send
    BY <2>2, SendRefines
  <2>3. CASE Exit
    BY <2>3, ExitRefines
  <2>4. CASE \E to \in PeerStates : PeerChanges(to)
    BY <2>4, PeerRefines
  <2>5. CASE HandlerSpawns \/ HandlerReturns \/ HandlerFails \/ UNCHANGED vars
    BY <2>5, OtherRefines
  <2> QED
    BY <2>1, <2>2, <2>3, <2>4, <2>5 DEF Next
<1> QED
  BY <1>1, <1>3, <1>4, Invariance, InitRefines, PTL
     DEF Spec, RefinesPromise, Promise!Spec

-----------------------------------------------------------------------------
(* The response from end to end.                                           *)

\* The proofs about the client's part, with the exchange's variables.
ClientProofs == INSTANCE ClientStreamProofs WITH
                  Capacity <- ClientCapacity, NoMsg <- <<>>,
                  MaxUnits <- MaxChunks,
                  buf <- cbuf, open <- copen, blocked <- cblocked,
                  rcv <- crcv, slot <- cslot

-----------------------------------------------------------------------------
(* The two parts of the exchange.                                          *)

\* Every step is one of the server's part, or leaves it alone.
LEMMA ServerSteps ==
  ASSUME [ExchangeNext]_all
  PROVE  [Next]_vars
BY DEF ExchangeNext, ServerPart, ClientPart, Deliver, StreamEnds, all

\* The same for the client's part.
LEMMA ClientSteps ==
  ASSUME [ExchangeNext]_all
  PROVE  Client!Next \/ UNCHANGED clientVars
BY DEF ExchangeNext, ServerPart, ClientPart, Deliver, StreamEnds, all, Client!Next

\* The names of the client's part stand for the same thing in its proofs.
LEMMA SameInit == Client!Init => ClientProofs!Init
BY DEF Client!Init, ClientProofs!Init, Client!ChanInit, ClientProofs!ChanInit,
       Client!Modes, ClientProofs!Modes

LEMMA SameVars == UNCHANGED clientVars => UNCHANGED ClientProofs!vars
BY DEF clientVars, ClientProofs!vars, ClientProofs!chanVars

LEMMA SameSends ==
  ASSUME NEW m
  PROVE  /\ Client!SendAtOnce(m) <=> ClientProofs!SendAtOnce(m)
         /\ Client!SendBlocks(m) <=> ClientProofs!SendBlocks(m)
         /\ Client!TrySend(m) <=> ClientProofs!TrySend(m)
         /\ Client!CanSend <=> ClientProofs!CanSend
BY DEF Client!SendAtOnce, ClientProofs!SendAtOnce, Client!HandOver,
       ClientProofs!HandOver, Client!Enqueue, ClientProofs!Enqueue,
       Client!HasRoom, ClientProofs!HasRoom, Client!SendBlocks,
       ClientProofs!SendBlocks, Client!TrySend, ClientProofs!TrySend,
       Client!CanSend, ClientProofs!CanSend, Client!chanVars,
       ClientProofs!chanVars

LEMMA SameReceive == Client!Receive <=> ClientProofs!Receive
BY DEF Client!Receive, ClientProofs!Receive, Client!StartReceive,
       ClientProofs!StartReceive, Client!Refill, ClientProofs!Refill

LEMMA SameStep == Client!Next => ClientProofs!Next
<1>1. ASSUME NEW n \in Client!Unit, Client!ReadChunks(n)
      PROVE  n \in ClientProofs!Unit /\ ClientProofs!ReadChunks(n)
  BY <1>1 DEF Client!Unit, ClientProofs!Unit, Client!ReadChunks,
              ClientProofs!ReadChunks, Client!chanVars, ClientProofs!chanVars
<1>2. Client!OnChunkBody => ClientProofs!OnChunkBody
  <2>1. ASSUME NEW m
        PROVE  /\ Client!SendChunk(m) => ClientProofs!SendChunk(m)
               /\ Client!SendEvent(m) => ClientProofs!SendEvent(m)
    BY SameSends DEF Client!SendChunk, ClientProofs!SendChunk, Client!SendEvent,
         ClientProofs!SendEvent, Client!chanVars, ClientProofs!chanVars,
         Client!Last, ClientProofs!Last
  <2> QED
    BY <2>1 DEF Client!OnChunkBody, ClientProofs!OnChunkBody
<1>3. Client!ReadBlock => ClientProofs!ReadBlock
  BY SameSends DEF Client!ReadBlock, ClientProofs!ReadBlock
<1>4. Client!ReaderReturns => ClientProofs!ReaderReturns
  BY DEF Client!ReaderReturns, ClientProofs!ReaderReturns, Client!CloseAlone,
         ClientProofs!CloseAlone, Client!CancelAndClose, ClientProofs!CancelAndClose
<1>5. Client!ConsumerStep => ClientProofs!ConsumerStep
  BY SameReceive DEF Client!ConsumerStep, ClientProofs!ConsumerStep,
       Client!ConsumerStarts, ClientProofs!ConsumerStarts, Client!ConsumerGets,
       ClientProofs!ConsumerGets, Client!ConsumerEnds, ClientProofs!ConsumerEnds,
       Client!EndReceive, ClientProofs!EndReceive
<1>6. /\ Client!Arrive => ClientProofs!Arrive
      /\ Client!ConnectionEnds => ClientProofs!ConnectionEnds
  BY DEF Client!Arrive, ClientProofs!Arrive, Client!ConnectionEnds,
         ClientProofs!ConnectionEnds, Client!chanVars, ClientProofs!chanVars
<1> QED
  BY <1>1, <1>2, <1>3, <1>4, <1>5, <1>6
     DEF Client!Next, ClientProofs!Next, Client!ReaderStep, ClientProofs!ReaderStep

\* The assumptions of the client's part hold.
LEMMA ClientConstants ==
  /\ ClientCapacity \in Nat \ {0}
  /\ MaxChunks \in Nat \ {0} /\ Whole \subseteq 1..MaxChunks /\ <<>> = <<>>
BY ClientAssumption, ChunkAssumption

\* The client's invariant holds at first, and every step keeps it.
LEMMA ClientInit == ExchangeInit => ClientProofs!IInv
<1>1. ClientProofs!Init => ClientProofs!IInv
  BY ClientConstants, ClientProofs!InitGood
<1> QED
  BY <1>1, SameInit DEF ExchangeInit

LEMMA ClientStep ==
  ASSUME ClientProofs!IInv, [ExchangeNext]_all
  PROVE  ClientProofs!IInv'
<1>1. [ClientProofs!Next]_(ClientProofs!vars)
  BY ClientSteps, SameStep, SameVars
<1> QED
  BY <1>1, ClientConstants, ClientProofs!IInvStep

-----------------------------------------------------------------------------
(* How the two parts are joined.                                           *)

\* The client has only what is on the wire, and sees the end of the stream
\* behind all of it, or when the connection breaks or the response is refused.
Joined ==
  /\ mode # "sse" /\ arrived <= Len(wire)
  /\ last => session = "returned"
  /\ eof => (last /\ parsed = Len(wire)) \/ peer = "gone" \/ session = "failed"

\* What a step of the server's part may not undo.
LEMMA ServerGoesOn ==
  ASSUME IInv, Next, last => session = "returned"
  PROVE  /\ Len(wire') \in Nat /\ Len(wire') >= Len(wire)
         /\ last => last' /\ wire' = wire
         /\ last' => session' = "returned"
         /\ peer = "gone" => peer' = "gone"
         /\ session = "failed" => session' = "failed"
<1>0. wire \in Seq(Chunk) /\ Len(wire) \in Nat /\ chunk \in Chunk \cup {NoMsg}
      /\ (session = "write" => chunk \in Chunk)
  <2>1. wire \in Seq(Chunk) /\ chunk \in Chunk \cup {NoMsg}
    BY DEF IInv, TypeOK
  <2>2. session = "write" => chunk # NoMsg
    BY DEF IInv, Fifo, Valid
  <2> QED
    BY <2>1, <2>2, LenProperties
<1>1. CASE ChunkWritten
  <2>1. session = "write" /\ ~last /\ session' \in {"receive", "last"}
        /\ UNCHANGED <<last, peer>>
    BY <1>1 DEF ChunkWritten, LoopHead
  <2>2. wire' = wire \/ wire' = Append(wire, chunk)
    BY <1>1 DEF ChunkWritten
  <2>3. Len(wire') \in Nat /\ Len(wire') >= Len(wire)
    BY <1>0, <2>1, <2>2, AppendProperties
  <2> QED
    BY <2>1, <2>3
<1>2. CASE LastWritten
  BY <1>0, <1>2 DEF LastWritten
<1>3. CASE \/ HandlerSpawns \/ HandlerReturns \/ HandlerFails \/ HeaderWritten \/ Received
           \/ Send \/ Exit \/ \E to \in PeerStates : PeerChanges(to)
  <2>1. wire' = wire /\ last' = last
    BY <1>3 DEF HandlerSpawns, HandlerReturns, HandlerFails, HeaderWritten, Received, Send,
                Exit, PeerChanges
  <2>2. session \in {"returned", "failed"} => session' = session
    BY <1>3 DEF HandlerSpawns, HandlerReturns, HandlerFails, HeaderWritten, Received, Send,
                Exit, PeerChanges
  <2>3. peer = "gone" => peer' = "gone"
    BY <1>3 DEF HandlerSpawns, HandlerReturns, HandlerFails, HeaderWritten, Received, Send,
                Exit, PeerChanges
  <2> QED
    BY <1>0, <2>1, <2>2, <2>3
<1> QED
  BY <1>1, <1>2, <1>3 DEF Next, SessionStep

\* The numbers of the client's part.
LEMMA ClientNumbers ==
  ASSUME ClientProofs!IInv
  PROVE  /\ arrived \in Nat /\ parsed \in Nat /\ batch \in Nat
         /\ parsed <= arrived /\ batch <= arrived
         /\ reader = "parsing" => parsed < batch
<1>1. ClientProofs!TypeOK
  BY DEF ClientProofs!IInv
<1>2. /\ arrived \in Nat /\ parsed \in Nat /\ batch \in Nat
      /\ parsed <= arrived /\ batch <= arrived
  BY <1>1, ClientConstants, ClientProofs!Counts
<1>3. reader = "parsing" => parsed < batch
  BY <1>1 DEF ClientProofs!TypeOK
<1> QED
  BY <1>2, <1>3

LEMMA JoinedStep ==
  ASSUME IInv, ClientProofs!IInv, Joined, [ExchangeNext]_all
  PROVE  Joined'
<1>1. Len(wire) \in Nat
  BY LenProperties DEF IInv, TypeOK
<1>2. CASE ServerPart
  <2>1. UNCHANGED <<mode, arrived, eof, parsed>>
    BY <1>2 DEF ServerPart, clientVars
  <2>2. /\ Len(wire') \in Nat /\ Len(wire') >= Len(wire)
        /\ last => last' /\ wire' = wire
        /\ last' => session' = "returned"
        /\ peer = "gone" => peer' = "gone"
        /\ session = "failed" => session' = "failed"
    BY <1>2, ServerGoesOn DEF ServerPart, Joined
  <2>3. arrived' <= Len(wire')
    BY <1>1, <2>1, <2>2, ClientNumbers DEF Joined
  <2> QED
    BY <2>1, <2>2, <2>3 DEF Joined
<1>3. CASE ClientPart
  <2>1. UNCHANGED <<wire, last, session, peer>>
    BY <1>3 DEF ClientPart, vars
  <2>2. UNCHANGED <<mode, arrived, eof>>
    BY <1>3 DEF ClientPart, Client!ReaderStep, Client!ReadChunks, Client!OnChunkBody,
                Client!ReadBlock, Client!ReaderReturns, Client!ConsumerStep,
                Client!ConsumerStarts, Client!ConsumerGets, Client!ConsumerEnds
  <2>3. parsed' = parsed \/ reader = "parsing" \/ parsed < arrived
    BY <1>3 DEF ClientPart, Client!ReaderStep, Client!ReadChunks, Client!OnChunkBody,
                Client!ReadBlock, Client!ReaderReturns, Client!ConsumerStep,
                Client!ConsumerStarts, Client!ConsumerGets, Client!ConsumerEnds
  <2>4. parsed = Len(wire) => parsed' = parsed
    BY <1>1, <2>3, ClientNumbers DEF Joined
  <2> QED
    BY <2>1, <2>2, <2>4 DEF Joined
<1>4. CASE Deliver
  <2>1. /\ arrived < Len(wire) /\ arrived' = arrived + 1
        /\ UNCHANGED <<mode, eof, parsed, wire, last, session, peer>>
    BY <1>4 DEF Deliver, Client!Arrive, vars
  <2>2. arrived' <= Len(wire')
    BY <1>1, <2>1, ClientNumbers
  <2> QED
    BY <2>1, <2>2 DEF Joined
<1>5. CASE StreamEnds
  BY <1>5 DEF StreamEnds, Client!ConnectionEnds, vars, Joined
<1>6. CASE UNCHANGED all
  BY <1>6 DEF all, vars, clientVars, Joined
<1> QED
  BY <1>2, <1>3, <1>4, <1>5, <1>6 DEF ExchangeNext

\* The inductive invariant of the exchange.
Inv == IInv /\ ClientProofs!IInv /\ Joined

LEMMA InvInit == ExchangeInit => Inv
<1> SUFFICES ASSUME ExchangeInit PROVE Inv
  OBVIOUS
<1>1. IInv
  BY IInvInit DEF ExchangeInit
<1>2. ClientProofs!IInv
  BY ClientInit
<1>3. Joined
  <2>1. /\ wire = <<>> /\ last = FALSE /\ mode # "sse" /\ arrived = 0 /\ eof = FALSE
    BY DEF ExchangeInit, Init, Client!Init
  <2>2. Len(<<>>) = 0
    OBVIOUS
  <2> QED
    BY <2>1, <2>2 DEF Joined
<1> QED
  BY <1>1, <1>2, <1>3 DEF Inv

LEMMA InvStep == Inv /\ [ExchangeNext]_all => Inv'
<1> SUFFICES ASSUME Inv, [ExchangeNext]_all PROVE Inv'
  OBVIOUS
<1>1. IInv /\ ClientProofs!IInv /\ Joined
  BY DEF Inv
<1>2. IInv'
  BY <1>1, ServerSteps, IInvStep
<1>3. ClientProofs!IInv'
  BY <1>1, ClientStep
<1>4. Joined'
  BY <1>1, JoinedStep
<1> QED
  BY <1>2, <1>3, <1>4 DEF Inv

\* Both parts keep their invariants, and stay joined.
THEOREM ExchangeInvariance == ExchangeSpec => []Inv
BY InvInit, InvStep, PTL DEF ExchangeSpec

-----------------------------------------------------------------------------
(* From the producer to the consumer.                                      *)

\* Two units in a row are two chunks that were sent one after the other.
LEMMA WireNext ==
  ASSUME IInv, NEW unit \in 1..Len(wire)
  PROVE  NextSent(IF unit = 1 THEN 0 ELSE wire[unit - 1], wire[unit])
<1>1. /\ wire \in Seq(Chunk) /\ DOMAIN wire = 1..Len(wire) /\ Len(wire) \in Nat
      /\ \A i \in 1..Len(wire) : wire[i] \in Chunk
  BY LenProperties, ElementOfSeq DEF IInv, TypeOK
<1>2. Chunk \subseteq Nat /\ \A n \in Chunk : n >= 1
  BY ChunkAssumption DEF Chunk
<1>3. /\ \A i \in 1..Len(wire) : wire[i] \in Sendable
      /\ \A i, j \in 1..Len(wire) : i < j => wire[i] < wire[j]
      /\ \A i \in 1..Len(wire) : \A n \in 1..wire[i] :
           n \in Sendable => \E j \in 1..Len(wire) : wire[j] = n
  BY <1>1 DEF IInv, Delivered, WireIsPrefix, OnWire
<1> DEFINE m == IF unit = 1 THEN 0 ELSE wire[unit - 1]
<1>4. m \in Nat /\ m < wire[unit]
  <2>1. CASE unit = 1
    <3>1. wire[unit] \in Nat /\ wire[unit] >= 1
      BY <1>1, <1>2
    <3> QED
      BY <2>1, <3>1
  <2>2. CASE unit # 1
    <3>1. unit - 1 \in 1..Len(wire) /\ unit - 1 < unit
      BY <1>1, <2>2
    <3> QED
      BY <1>1, <1>2, <1>3, <2>2, <3>1
  <2> QED
    BY <2>1, <2>2
<1>5. ASSUME NEW k \in (m + 1)..(wire[unit] - 1), k \in Sendable
      PROVE  FALSE
  <2>1. wire[unit] \in Nat
    BY <1>1, <1>2
  <2>2. k \in Nat /\ m < k /\ k < wire[unit] /\ k \in 1..wire[unit]
    BY <1>4, <2>1
  <2>3. PICK j \in 1..Len(wire) : wire[j] = k
    BY <1>3, <1>5, <2>2
  <2>4. j < unit
    <3>1. ~(unit < j)
      BY <1>3, <2>1, <2>2, <2>3
    <3>2. j # unit
      BY <2>1, <2>2, <2>3
    <3> QED
      BY <3>1, <3>2
  <2>5. unit # 1 /\ unit - 1 \in 1..Len(wire) /\ (j < unit - 1 \/ j = unit - 1)
    BY <1>1, <2>4
  <2>6. wire[j] <= m
    <3>1. m = wire[unit - 1] /\ m \in Nat /\ wire[j] \in Nat
      BY <1>4, <2>2, <2>3, <2>5
    <3>2. CASE j = unit - 1
      BY <3>1, <3>2
    <3>3. CASE j < unit - 1
      <4>1. wire[j] < wire[unit - 1]
        BY <1>3, <2>5, <3>3
      <4> QED
        BY <3>1, <4>1
    <3> QED
      BY <2>5, <3>2, <3>3
  <2> QED
    BY <1>4, <2>2, <2>3, <2>6
<1> HIDE DEF m
<1>6. NextSent(m, wire[unit])
  BY <1>3, <1>4, <1>5 DEF NextSent
<1> QED
  BY <1>6 DEF m

LEMMA SeqMonotone ==
  ASSUME NEW S, NEW T, S \subseteq T
  PROVE  Seq(S) \subseteq Seq(T)
<1> SUFFICES ASSUME NEW s \in Seq(S) PROVE s \in Seq(T)
  OBVIOUS
<1>1. Len(s) \in Nat /\ s \in [1..Len(s) -> S]
  BY LenProperties
<1>2. s \in [1..Len(s) -> T]
  BY <1>1
<1> QED
  BY <1>1, <1>2, SeqDef

\* What the client's part knows of its units.
LEMMA ClientUnits ==
  ASSUME Inv, mode = "chunks"
  PROVE  LET first == parsed - Len(pending) + 1
         IN  /\ Client!Accepted \in Seq(Seq(Nat \ {0})) /\ pending \in Seq(Nat \ {0})
             /\ Len(pending) \in Nat /\ parsed \in Nat /\ Len(wire) \in Nat
             /\ Len(pending) <= parsed /\ parsed <= Len(wire)
             /\ \A j \in 1..Len(pending) : pending[j] = first + j - 1
             /\ ClientProofs!InARow(Client!Accepted, first)
<1>1. /\ ClientProofs!TypeOK /\ ClientProofs!Rest /\ ClientProofs!ChunksInOrder
      /\ ClientProofs!IInv /\ Joined /\ IInv
  BY DEF Inv, ClientProofs!IInv
<1>2. ClientProofs!Accepted = Client!Accepted
  BY DEF ClientProofs!Accepted, Client!Accepted
<1>3. /\ ClientProofs!Message = Seq(1..MaxChunks) /\ 1..MaxChunks \subseteq Nat \ {0}
  BY ClientConstants DEF ClientProofs!Message, ClientProofs!Unit
<1>4. ClientProofs!Accepted \in Seq(Seq(1..MaxChunks)) /\ pending \in Seq(1..MaxChunks)
  <2>1. ClientProofs!Accepted \in Seq(ClientProofs!Message)
    BY <1>1, ClientConstants, ClientProofs!Channels
  <2>2. pending \in ClientProofs!Message
    BY <1>1, ClientConstants, ClientProofs!Counts
  <2> QED
    BY <1>3, <2>1, <2>2
<1>5. Client!Accepted \in Seq(Seq(Nat \ {0})) /\ pending \in Seq(Nat \ {0})
  <2>1. Seq(1..MaxChunks) \subseteq Seq(Nat \ {0})
    BY <1>3, SeqMonotone
  <2>2. Seq(Seq(1..MaxChunks)) \subseteq Seq(Seq(Nat \ {0}))
    BY <2>1, SeqMonotone
  <2> QED
    BY <1>2, <1>4, <2>1, <2>2
<1>6. /\ Len(pending) \in Nat /\ parsed \in Nat /\ Len(wire) \in Nat
      /\ Len(pending) <= parsed /\ parsed <= Len(wire)
  <2>1. wire \in Seq(Chunk)
    BY <1>1 DEF IInv, TypeOK
  <2>2. Len(pending) \in Nat /\ Len(wire) \in Nat
    BY <1>5, <2>1, LenProperties
  <2>3. Len(pending) <= parsed
    BY <1>1 DEF ClientProofs!Rest
  <2>4. parsed \in Nat /\ arrived \in Nat /\ parsed <= arrived /\ arrived <= Len(wire)
    BY <1>1, ClientNumbers DEF Joined
  <2> QED
    BY <2>2, <2>3, <2>4
<1>7. \A j \in 1..Len(pending) : pending[j] = (parsed - Len(pending) + 1) + j - 1
  <2>1. \A j \in 1..Len(pending) : pending[j] = parsed - Len(pending) + j
    BY <1>1 DEF ClientProofs!Rest
  <2> QED
    BY <1>6, <2>1
<1>8. ClientProofs!InARow(Client!Accepted, parsed - Len(pending) + 1)
  BY <1>1, <1>2 DEF ClientProofs!ChunksInOrder
<1> QED
  BY <1>5, <1>6, <1>7, <1>8

\* The client's messages, with the rest behind them: each unit is the one
\* after the one before it.
LEMMA UnitsInARow ==
  ASSUME Inv, mode = "chunks", NEW t, t = Append(Client!Accepted, pending),
         NEW i \in DOMAIN t, NEW j \in DOMAIN t[i]
  PROVE  /\ t[i][j] \in 1..Len(wire) /\ i \in Nat \ {0} /\ j \in Nat \ {0}
         /\ j > 1 => j - 1 \in DOMAIN t[i] /\ t[i][j - 1] = t[i][j] - 1 /\ t[i][j] # 1
         /\ j = 1 /\ i > 1 =>
              /\ i - 1 \in DOMAIN t /\ Len(t[i - 1]) \in Nat \ {0}
              /\ DOMAIN t[i - 1] = 1..Len(t[i - 1])
              /\ t[i - 1][Len(t[i - 1])] = t[i][j] - 1 /\ t[i][j] # 1
         /\ j = 1 /\ i = 1 => t[i][j] = 1
<1> DEFINE s == Client!Accepted
           first == parsed - Len(pending) + 1
<1>1. /\ s \in Seq(Seq(Nat \ {0})) /\ pending \in Seq(Nat \ {0})
      /\ Len(pending) \in Nat /\ parsed \in Nat /\ Len(wire) \in Nat
      /\ Len(pending) <= parsed /\ parsed <= Len(wire)
      /\ \A n \in 1..Len(pending) : pending[n] = first + n - 1
      /\ ClientProofs!InARow(s, first)
  BY ClientUnits
<1>2. PICK l \in Nat, w \in Nat, p \in Nat :
        Len(pending) = l /\ Len(wire) = w /\ parsed = p /\ l <= p /\ p <= w
  BY <1>1
<1>3. first = p - l + 1 /\ first \in Nat
  BY <1>2
<1> HIDE DEF s, first
<1>4. /\ Len(s) \in Nat /\ DOMAIN s = 1..Len(s) /\ DOMAIN t = 1..(Len(s) + 1)
      /\ \A n \in 1..Len(s) : t[n] = s[n]
      /\ t[Len(s) + 1] = pending
  <2>1. /\ t \in Seq(Seq(Nat \ {0})) /\ Len(t) = Len(s) + 1
        /\ \A n \in 1..Len(s) : t[n] = s[n]
        /\ t[Len(s) + 1] = pending
    BY <1>1, AppendProperties DEF s
  <2> QED
    BY <1>1, <2>1, LenProperties
<1>5. PICK k \in Nat : Len(s) = k
  BY <1>4
<1>6. /\ \A n \in 1..k :
           /\ s[n] # <<>>
           /\ s[n][1] = IF n = 1 THEN 1 ELSE s[n - 1][Len(s[n - 1])] + 1
           /\ \A u \in 1..(Len(s[n]) - 1) : s[n][u + 1] = s[n][u] + 1
           /\ \A u \in DOMAIN s[n] : s[n][u] < first
      /\ first = IF s = <<>> THEN 1 ELSE s[k][Len(s[k])] + 1
  BY <1>1, <1>4, <1>5 DEF ClientProofs!InARow, ClientProofs!Last
<1>7. ASSUME NEW n \in 1..k
      PROVE  /\ s[n] \in Seq(Nat \ {0}) /\ Len(s[n]) \in Nat \ {0}
             /\ DOMAIN s[n] = 1..Len(s[n])
             /\ s[n][Len(s[n])] \in Nat \ {0}
             /\ \A u \in 1..Len(s[n]) : s[n][u] \in Nat \ {0}
  <2>1. s[n] \in Seq(Nat \ {0})
    BY <1>1, <1>5, ElementOfSeq
  <2>2. Len(s[n]) \in Nat \ {0} /\ DOMAIN s[n] = 1..Len(s[n])
    BY <1>6, <2>1, LenProperties, EmptySeq
  <2>3. \A u \in 1..Len(s[n]) : s[n][u] \in Nat \ {0}
    BY <2>1, ElementOfSeq
  <2> QED
    BY <2>1, <2>2, <2>3
<1>8. i \in 1..(k + 1)
  BY <1>4, <1>5
<1>9. CASE i \in 1..k
  <2>1. t[i] = s[i]
    BY <1>4, <1>5, <1>9
  <2>2. PICK e \in Nat \ {0} : Len(s[i]) = e /\ DOMAIN s[i] = 1..e
    BY <1>7, <1>9
  <2>3. j \in 1..e
    BY <2>1, <2>2
  <2>4. s[i][j] \in Nat \ {0} /\ s[i][j] < first
    BY <1>6, <1>7, <1>9, <2>2, <2>3
  <2>5. t[i][j] \in 1..Len(wire)
    BY <1>2, <1>3, <2>1, <2>4
  <2>6. ASSUME j > 1
        PROVE  j - 1 \in DOMAIN t[i] /\ t[i][j - 1] = t[i][j] - 1 /\ t[i][j] # 1
    <3>1. j - 1 \in 1..(e - 1) /\ (j - 1) + 1 = j /\ j - 1 \in 1..e
      BY <2>3, <2>6
    <3>2. s[i][(j - 1) + 1] = s[i][j - 1] + 1
      BY <1>6, <1>9, <2>2, <3>1
    <3>3. s[i][j - 1] \in Nat \ {0}
      BY <1>7, <1>9, <2>2, <3>1
    <3>4. s[i][j] = s[i][j - 1] + 1
      BY <3>1, <3>2
    <3>5. t[i][j - 1] = s[i][j - 1] /\ t[i][j] = s[i][j - 1] + 1
      BY <2>1, <3>4
    <3>6. j - 1 \in DOMAIN t[i]
      BY <2>1, <2>2, <3>1
    <3>7. PICK d \in Nat \ {0} : s[i][j - 1] = d
      BY <3>3
    <3>8. t[i][j - 1] = d /\ t[i][j] = d + 1
      BY <3>5, <3>7
    <3>9. t[i][j - 1] = t[i][j] - 1 /\ t[i][j] # 1
      BY <3>8
    <3> QED
      BY <3>6, <3>9
  <2>7. ASSUME j = 1, i > 1
        PROVE  /\ i - 1 \in DOMAIN t /\ Len(t[i - 1]) \in Nat \ {0}
               /\ DOMAIN t[i - 1] = 1..Len(t[i - 1])
               /\ t[i - 1][Len(t[i - 1])] = t[i][j] - 1 /\ t[i][j] # 1
    <3>1. i - 1 \in 1..k /\ i - 1 \in DOMAIN t /\ i # 1
      BY <1>4, <1>5, <1>9, <2>7
    <3>2. t[i - 1] = s[i - 1]
      BY <1>4, <1>5, <3>1
    <3>3. s[i][1] = s[i - 1][Len(s[i - 1])] + 1
      BY <1>6, <1>9, <3>1
    <3>4. /\ Len(s[i - 1]) \in Nat \ {0} /\ DOMAIN s[i - 1] = 1..Len(s[i - 1])
          /\ s[i - 1][Len(s[i - 1])] \in Nat \ {0}
      BY <1>7, <3>1
    <3>5. t[i][j] = s[i - 1][Len(s[i - 1])] + 1
      BY <2>1, <2>7, <3>3
    <3> QED
      BY <3>1, <3>2, <3>4, <3>5
  <2>8. j = 1 /\ i = 1 => t[i][j] = 1
    BY <1>6, <1>9, <2>1
  <2> QED
    BY <1>9, <2>3, <2>5, <2>6, <2>7, <2>8
<1>10. CASE i = k + 1
  <2>1. t[i] = pending /\ DOMAIN pending = 1..l
    BY <1>1, <1>2, <1>4, <1>5, <1>10, LenProperties
  <2>2. j \in 1..l /\ t[i][j] = first + j - 1 /\ l # 0
    BY <1>1, <1>2, <2>1
  <2>3. first = p - l + 1 /\ first >= 1
    BY <1>2, <1>3
  <2>4. t[i][j] \in 1..Len(wire)
    BY <1>2, <2>2, <2>3
  <2>5. ASSUME j > 1
        PROVE  j - 1 \in DOMAIN t[i] /\ t[i][j - 1] = t[i][j] - 1 /\ t[i][j] # 1
    <3>1. j - 1 \in 1..l
      BY <2>2, <2>5
    <3>2. t[i][j - 1] = first + (j - 1) - 1
      BY <1>1, <1>2, <2>1, <3>1
    <3>3. first + (j - 1) - 1 = (first + j - 1) - 1 /\ first + j - 1 # 1
      BY <1>3, <2>2, <2>3, <2>5
    <3>4. t[i][j] = first + j - 1
      BY <2>2
    <3>5. t[i][j - 1] = t[i][j] - 1 /\ t[i][j] # 1
      BY <3>2, <3>3, <3>4, Zenon
    <3> QED
      BY <2>1, <3>1, <3>5
  <2>6. ASSUME j = 1, i > 1
        PROVE  /\ i - 1 \in DOMAIN t /\ Len(t[i - 1]) \in Nat \ {0}
               /\ DOMAIN t[i - 1] = 1..Len(t[i - 1])
               /\ t[i - 1][Len(t[i - 1])] = t[i][j] - 1 /\ t[i][j] # 1
    <3>1. i - 1 = k /\ k \in 1..k /\ k \in DOMAIN t
      BY <1>4, <1>5, <1>10, <2>6
    <3>2. t[k] = s[k]
      BY <1>4, <1>5, <3>1
    <3>3. s # <<>>
      <4>1. Len(<<>>) = 0
        OBVIOUS
      <4> QED
        BY <1>5, <3>1, <4>1
    <3>4. first = s[k][Len(s[k])] + 1
      BY <1>6, <3>3
    <3>5. /\ Len(s[k]) \in Nat \ {0} /\ DOMAIN s[k] = 1..Len(s[k])
          /\ s[k][Len(s[k])] \in Nat \ {0}
      BY <1>7, <3>1
    <3>6. t[i][j] = first
      BY <1>3, <2>2, <2>6
    <3> QED
      BY <3>1, <3>2, <3>4, <3>5, <3>6
  <2>7. ASSUME j = 1, i = 1 PROVE t[i][j] = 1
    <3>1. k = 0
      BY <1>10, <2>7
    <3>2. s = <<>>
      BY <1>1, <1>5, <3>1, EmptySeq
    <3> QED
      BY <1>3, <1>6, <2>2, <2>7, <3>2
  <2> QED
    BY <1>8, <2>2, <2>4, <2>5, <2>6, <2>7
<1> QED
  BY <1>8, <1>9, <1>10

LEMMA OrderHolds == Inv => EndToEndOrder
<1> SUFFICES ASSUME Inv, mode = "chunks"
             PROVE  LET messages == Append(Client!Accepted, pending)
                        Chunks(i) == [j \in DOMAIN messages[i] |-> wire[messages[i][j]]]
                    IN  \A i \in DOMAIN messages : \A j \in DOMAIN messages[i] :
                          NextSent(IF j > 1 THEN Chunks(i)[j - 1]
                                   ELSE IF i > 1 THEN Last(Chunks(i - 1)) ELSE 0,
                                   Chunks(i)[j])
  BY DEF EndToEndOrder
<1> DEFINE t == Append(Client!Accepted, pending)
           Chunks(i) == [j \in DOMAIN t[i] |-> wire[t[i][j]]]
<1> SUFFICES ASSUME NEW i \in DOMAIN t, NEW j \in DOMAIN t[i]
             PROVE  NextSent(IF j > 1 THEN Chunks(i)[j - 1]
                             ELSE IF i > 1 THEN Last(Chunks(i - 1)) ELSE 0,
                             Chunks(i)[j])
  OBVIOUS
<1>1. /\ t[i][j] \in 1..Len(wire) /\ i \in Nat \ {0} /\ j \in Nat \ {0}
      /\ j > 1 => j - 1 \in DOMAIN t[i] /\ t[i][j - 1] = t[i][j] - 1 /\ t[i][j] # 1
      /\ j = 1 /\ i > 1 =>
           /\ i - 1 \in DOMAIN t /\ Len(t[i - 1]) \in Nat \ {0}
           /\ DOMAIN t[i - 1] = 1..Len(t[i - 1])
           /\ t[i - 1][Len(t[i - 1])] = t[i][j] - 1 /\ t[i][j] # 1
      /\ j = 1 /\ i = 1 => t[i][j] = 1
  <2>1. t = Append(Client!Accepted, pending)
    OBVIOUS
  <2> HIDE DEF t
  <2> QED
    BY <2>1, UnitsInARow
<1> HIDE DEF t
<1> DEFINE u == t[i][j]
<1>2. NextSent(IF u = 1 THEN 0 ELSE wire[u - 1], wire[u])
  BY <1>1, WireNext DEF Inv
<1>3. Chunks(i)[j] = wire[u]
  OBVIOUS
<1>4. CASE j > 1
  <2>1. Chunks(i)[j - 1] = wire[t[i][j - 1]]
    BY <1>1, <1>4
  <2>2. Chunks(i)[j - 1] = wire[u - 1] /\ u # 1
    BY <1>1, <1>4, <2>1
  <2> HIDE DEF Chunks, u
  <2> QED
    BY <1>2, <1>3, <1>4, <2>2, Zenon
<1>5. CASE j = 1 /\ i > 1
  <2> DEFINE e == Len(t[i - 1])
  <2>1. /\ e \in Nat \ {0} /\ DOMAIN t[i - 1] = 1..e
        /\ t[i - 1][e] = u - 1 /\ u # 1
    BY <1>1, <1>5
  <2>2. Chunks(i - 1) = [n \in 1..e |-> wire[t[i - 1][n]]]
    BY <2>1
  <2> HIDE DEF e, Chunks
  <2>3. Len(Chunks(i - 1)) = e /\ Chunks(i - 1)[e] = wire[t[i - 1][e]]
    BY <2>1, <2>2
  <2>4. Last(Chunks(i - 1)) = wire[u - 1]
    BY <2>1, <2>3 DEF Last
  <2>5. ~(j > 1)
    BY <1>5
  <2> HIDE DEF u
  <2> QED
    BY <1>2, <1>3, <1>5, <2>1, <2>4, <2>5, Zenon
<1>6. CASE j = 1 /\ i = 1
  <2>1. u = 1 /\ ~(j > 1) /\ ~(i > 1)
    BY <1>1, <1>6
  <2> HIDE DEF u, Chunks
  <2> QED
    BY <1>2, <1>3, <2>1, Zenon
<1>7. j > 1 \/ (j = 1 /\ i > 1) \/ (j = 1 /\ i = 1)
  BY <1>1
<1> QED
  BY <1>4, <1>5, <1>6, <1>7

LEMMA CompleteHolds == Inv => CleanEndComplete
<1> SUFFICES ASSUME Inv, mode = "chunks", consumer = "ended", session = "returned", ~ec
             PROVE  \/ peer = "gone" /\ parsed < Len(wire)
                    \/ \A n \in 1..(sent - Len(buf)) : n \in Sendable => Got(n)
  BY DEF CleanEndComplete
<1>1. IInv /\ ClientProofs!IInv /\ Joined
  BY DEF Inv
<1>3. eof /\ cbuf = <<>> /\ cblocked = <<>> /\ crcv = "idle"
  <2>1. ClientProofs!Suspended
    BY <1>1 DEF ClientProofs!IInv
  <2>2. crcv = "idle" /\ cbuf = <<>> /\ ~copen
    BY <2>1 DEF ClientProofs!Suspended
  <2>3. eof /\ reader = "exited"
    BY <2>1, <2>2 DEF ClientProofs!Suspended
  <2>4. cblocked = <<>>
    BY <2>1, <2>3 DEF ClientProofs!Suspended
  <2> QED
    BY <2>2, <2>3, <2>4
<1>4. parsed = Len(wire) \/ (peer = "gone" /\ parsed < Len(wire))
  <2>1. parsed <= Len(wire) /\ parsed \in Nat /\ Len(wire) \in Nat
    BY <1>1, ClientNumbers, LenProperties DEF Joined, IInv, TypeOK
  <2> QED
    BY <1>1, <1>3, <2>1 DEF Joined
<1>5. Client!Accepted = received
  <2>1. received \in Seq(Seq(1..MaxChunks)) /\ <<>> \in Seq(Seq(1..MaxChunks))
    BY <1>1, EmptySeq DEF ClientProofs!IInv, ClientProofs!TypeOK, ClientProofs!Unit
  <2> QED
    BY <1>3, <2>1, ConcatEmptySeq DEF Client!Accepted
<1>6. ASSUME parsed = Len(wire), NEW n \in 1..(sent - Len(buf)), n \in Sendable
      PROVE  Got(n)
  <2>1. OkMeansAllWritten
    BY <1>1, OkHolds
  <2>2. PICK unit \in 1..Len(wire) : wire[unit] = n
    BY <1>1, <1>6, <2>1, LenProperties DEF OkMeansAllWritten, OnWire, IInv, TypeOK
  <2> DEFINE first == parsed - Len(pending) + 1
  <2>3. /\ Client!Accepted \in Seq(Seq(Nat \ {0})) /\ pending \in Seq(Nat \ {0})
        /\ Len(pending) \in Nat /\ parsed \in Nat /\ Len(wire) \in Nat
        /\ Len(pending) <= parsed
        /\ \A j \in 1..Len(pending) : pending[j] = first + j - 1
        /\ ClientProofs!InARow(Client!Accepted, first)
    BY ClientUnits
  <2>4. CASE unit < first
    <3>1. unit \in 1..(first - 1)
      BY <2>3, <2>4
    <3>2. ClientProofs!In(received, unit)
      BY <1>5, <2>3, <3>1 DEF ClientProofs!InARow
    <3> QED
      BY <2>2, <3>2 DEF ClientProofs!In, Got
  <2>5. CASE unit >= first
    <3>1. unit - first + 1 \in 1..Len(pending)
      BY <1>6, <2>3, <2>5
    <3>4. first \in Nat
      BY <2>3
    <3> HIDE DEF first
    <3>5. pending[unit - first + 1] = first + (unit - first + 1) - 1
      BY <2>3, <3>1
    <3>2. pending[unit - first + 1] = unit
      BY <3>4, <3>5
    <3>3. unit - first + 1 \in DOMAIN pending
      BY <2>3, <3>1, LenProperties
    <3> QED
      BY <2>2, <3>2, <3>3 DEF Got
  <2> QED
    BY <2>3, <2>4, <2>5
<1> QED
  BY <1>4, <1>6

\* The consumer gets the producer's chunks in the order they were sent, from
\* the first on and without a gap, through both channels and the connection
\* (server/response.hpp:163-184 to client/response.hpp's chunked readers).
THEOREM EndToEnd == ExchangeSpec => []EndToEndOrder
BY ExchangeInvariance, OrderHolds, PTL

\* When the session has returned without an error and the consumer has ended,
\* all the chunks have come through but those left in the server's channel,
\* the client's rest, and what a connection has lost that broke before the
\* client's parser came to the end of it.
THEOREM CompleteAtEnd == ExchangeSpec => []CleanEndComplete
BY ExchangeInvariance, CompleteHolds, PTL

\* The server's part keeps its promise whatever the client does.
THEOREM ExchangeRefinesPromise == ExchangeSpec => RefinesPromise
<1>1. ExchangeInit => Init
  BY DEF ExchangeInit
<1>2. [ExchangeNext]_all => [Next]_vars
  BY ServerSteps
<1>3. ExchangeSpec => Spec
  BY <1>1, <1>2, PTL DEF ExchangeSpec, Spec
<1> QED
  BY <1>3, Refinement, PTL
=============================================================================
