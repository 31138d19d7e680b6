------------------------- MODULE ClientStreamProofs -------------------------
(***************************************************************************)
(* Proofs about the client's readers of a streamed body: the safety        *)
(* properties hold for every capacity of the channel, every length of the  *)
(* body and every choice of the units that end an event.                   *)
(*                                                                         *)
(* The properties speak of Accepted, all messages the channel has taken so *)
(* far.  A receive does not change it (Moved), a send appends to it        *)
(* (SentAtOnce, SentLater), so it is enough to look at what is appended.   *)
(***************************************************************************)
EXTENDS ClientStream, SequenceTheorems, TLAPS

Message == Seq(Unit)

-----------------------------------------------------------------------------
(* The messages that the channel has accepted.                             *)

\* The state of the channel, typed.
LEMMA Channels ==
  ASSUME TypeOK
  PROVE  /\ buf \in Seq(Message) /\ blocked \in Seq(Message) /\ slot \in Message
         /\ received \in Seq(Message) /\ Len(buf) \in Nat
         /\ (IF rcv = "got" THEN <<slot>> ELSE <<>>) \in Seq(Message)
         /\ received \o (IF rcv = "got" THEN <<slot>> ELSE <<>>) \in Seq(Message)
         /\ received \o (IF rcv = "got" THEN <<slot>> ELSE <<>>) \o buf \in Seq(Message)
         /\ Accepted \in Seq(Message)
<1>1. /\ buf \in Seq(Message) /\ blocked \in Seq(Message) /\ slot \in Message
      /\ received \in Seq(Message)
  <2>1. <<>> \in Seq(Unit)
    BY EmptySeq
  <2> QED
    BY <2>1, UnitAssumption DEF TypeOK, ChanTypeOK, Message
<1>2. Len(buf) \in Nat
  BY <1>1, LenProperties
<1>3. (IF rcv = "got" THEN <<slot>> ELSE <<>>) \in Seq(Message)
  BY <1>1, EmptySeq
<1> QED
  BY <1>1, <1>2, <1>3, ConcatProperties DEF Accepted

LEMMA HeadFirst ==
  ASSUME NEW S, NEW s \in Seq(S), s # <<>>
  PROVE  s = <<Head(s)>> \o Tail(s)
<1>1. /\ Head(s) \in S /\ Tail(s) \in Seq(S) /\ Len(Tail(s)) = Len(s) - 1
      /\ \A i \in 1..Len(Tail(s)) : Tail(s)[i] = s[i + 1]
      /\ Head(s) = s[1] /\ Len(s) \in Nat \ {0}
  BY HeadTailProperties, EmptySeq
<1>2. /\ <<Head(s)>> \in Seq(S) /\ Len(<<Head(s)>>) = 1 /\ <<Head(s)>>[1] = Head(s)
  BY <1>1
<1>3. /\ <<Head(s)>> \o Tail(s) \in Seq(S) /\ Len(<<Head(s)>> \o Tail(s)) = Len(s)
      /\ \A i \in 1..Len(s) : (<<Head(s)>> \o Tail(s))[i] =
           IF i <= 1 THEN <<Head(s)>>[i] ELSE Tail(s)[i - 1]
  BY <1>1, <1>2, ConcatProperties
<1>4. \A i \in 1..Len(s) : s[i] = (<<Head(s)>> \o Tail(s))[i]
  BY <1>1, <1>2, <1>3
<1> QED
  BY <1>3, <1>4, SeqEqual

\* A message that is sent at once comes last.
LEMMA SentAtOnce ==
  ASSUME TypeOK, Suspended, NEW m \in Message, SendAtOnce(m), blocked = <<>>,
         UNCHANGED received
  PROVE  Accepted' = Append(Accepted, m)
<1> USE Channels
<1>1. <<>> \in Seq(Message) /\ <<m>> \in Seq(Message)
  BY EmptySeq
<1>2. CASE HandOver(m)
  <2>1. /\ rcv = "waiting" /\ buf = <<>> /\ rcv' = "got" /\ slot' = m
        /\ buf' = <<>> /\ blocked' = <<>>
    BY <1>2 DEF HandOver, Suspended
  <2>2. Accepted = received
    BY <1>1, <2>1, ConcatEmptySeq DEF Accepted
  <2>3. received \o <<m>> \in Seq(Message)
    BY <1>1, ConcatProperties
  <2>4. Accepted' = received \o <<m>>
    BY <1>1, <2>1, <2>3, ConcatEmptySeq DEF Accepted
  <2> QED
    BY <2>2, <2>4, AppendIsConcat
<1>3. CASE Enqueue(m)
  <2> DEFINE before == received \o (IF rcv = "got" THEN <<slot>> ELSE <<>>)
  <2>1. buf' = buf \o <<m>> /\ blocked' = <<>> /\ rcv' = rcv /\ slot' = slot
    BY <1>3, AppendIsConcat DEF Enqueue
  <2>2. buf \o <<m>> \in Seq(Message) /\ before \o (buf \o <<m>>) \in Seq(Message)
    BY <1>1, ConcatProperties
  <2>3. Accepted = before \o buf
    BY <1>1, ConcatEmptySeq DEF Accepted
  <2>4. Accepted' = before \o (buf \o <<m>>)
    BY <1>1, <2>1, <2>2, ConcatEmptySeq DEF Accepted
  <2>5. before \in Seq(Message)
    OBVIOUS
  <2> HIDE DEF before
  <2>6. before \o (buf \o <<m>>) = (before \o buf) \o <<m>>
    BY <1>1, <2>5, ConcatAssociative
  <2> QED
    BY <2>3, <2>4, <2>6, AppendIsConcat
<1> QED
  BY <1>2, <1>3 DEF SendAtOnce

\* So does one that has to wait.
LEMMA SentLater ==
  ASSUME TypeOK, NEW m \in Message, SendBlocks(m), blocked = <<>>, UNCHANGED received
  PROVE  Accepted' = Append(Accepted, m)
<1> USE Channels
<1> DEFINE before == received \o (IF rcv = "got" THEN <<slot>> ELSE <<>>) \o buf
<1>1. Accepted = before
  BY ConcatEmptySeq DEF Accepted
<1>2. Accepted' = before \o <<m>>
  BY DEF Accepted, SendBlocks
<1> QED
  BY <1>1, <1>2, AppendIsConcat

\* A receive moves messages on, and puts none before another.
Takes ==
  /\ rcv = "idle" \/ rcv = "got"
  /\ received' = IF rcv = "got" THEN Append(received, slot) ELSE received
  /\ StartReceive

LEMMA Moved ==
  ASSUME TypeOK, Suspended, Takes
  PROVE  Accepted' = Accepted
<1>0. /\ buf \in Seq(Message) /\ blocked \in Seq(Message) /\ slot \in Message
      /\ received \in Seq(Message)
  BY Channels
<1>1. received' = received \o (IF rcv = "got" THEN <<slot>> ELSE <<>>)
  BY <1>0, AppendIsConcat, ConcatEmptySeq DEF Takes
<1>2. Accepted = received' \o buf \o blocked /\ received' \in Seq(Message)
  BY <1>1, Channels DEF Accepted
<1>3. <<>> \in Seq(Message)
  BY EmptySeq
<1>4. CASE buf # <<>>
  <2> DEFINE first == <<Head(buf)>>
  <2>1. /\ rcv' = "got" /\ slot' = Head(buf) /\ buf' = Tail(buf) \o blocked
        /\ blocked' = <<>>
    BY <1>4 DEF Takes, StartReceive, Refill
  <2>2. /\ Tail(buf) \in Seq(Message) /\ Head(buf) \in Message
        /\ first \in Seq(Message)
    BY <1>0, <1>4, HeadTailProperties
  <2>7. buf = first \o Tail(buf)
    BY <1>0, <1>4, HeadFirst
  <2> HIDE DEF first
  <2>3. /\ Tail(buf) \o blocked \in Seq(Message)
        /\ received' \o first \in Seq(Message)
        /\ (received' \o first) \o (Tail(buf) \o blocked) \in Seq(Message)
        /\ first \o Tail(buf) \in Seq(Message)
    BY <1>0, <1>2, <2>2, ConcatProperties
  <2>4. Accepted' = (received' \o first) \o (Tail(buf) \o blocked)
    BY <1>3, <2>1, <2>3, ConcatEmptySeq DEF Accepted, first
  <2>5. Accepted = (received' \o (first \o Tail(buf))) \o blocked
    BY <1>2, <2>7, Zenon
  <2>6. (received' \o (first \o Tail(buf))) \o blocked
          = (received' \o first) \o (Tail(buf) \o blocked)
    <3> DEFINE got == received'
               rest == Tail(buf)
               so == got \o first
    <3>1. /\ got \in Seq(Message) /\ first \in Seq(Message) /\ rest \in Seq(Message)
          /\ so \in Seq(Message) /\ blocked \in Seq(Message)
      BY <1>0, <1>2, <2>2, <2>3
    <3> HIDE DEF got, rest
    <3>2. so \o rest = got \o (first \o rest)
      BY <3>1, ConcatAssociative
    <3> DEFINE waits == blocked
    <3>4. waits \in Seq(Message) /\ rest \in Seq(Message) /\ so \in Seq(Message)
      BY <3>1
    <3> HIDE DEF so, waits
    <3>3. (so \o rest) \o waits = so \o (rest \o waits)
      BY <3>4, ConcatAssociative
    <3> QED
      BY <3>2, <3>3, Zenon DEF so, got, rest, waits
  <2> QED
    BY <2>4, <2>5, <2>6
<1>5. CASE buf = <<>>
  <2>1. /\ rcv' \in {"waiting", "closed"} /\ buf' = <<>> /\ blocked' = blocked
    BY <1>5 DEF Takes, StartReceive
  <2>2. Accepted' = received' \o <<>> \o <<>> \o blocked
    BY <2>1 DEF Accepted
  <2>3. @ = received' \o blocked
    BY <1>0, <1>2, <1>3, ConcatEmptySeq
  <2>4. Accepted = received' \o blocked
    BY <1>0, <1>2, <1>3, <1>5, ConcatEmptySeq
  <2> QED
    BY <2>2, <2>3, <2>4
<1> QED
  BY <1>4, <1>5

-----------------------------------------------------------------------------
(* Messages put together from units.                                       *)

\* The message is a run of units that ends with the given one.
Run(m, n) ==
  /\ m \in Message /\ Len(m) <= n
  /\ \A i \in 1..Len(m) : m[i] = n - Len(m) + i

\* The lengths and units that the arithmetic is about.
LEMMA Appended ==
  ASSUME NEW S, NEW s \in Seq(S), NEW m \in S
  PROVE  /\ Append(s, m) \in Seq(S) /\ Len(s) \in Nat
         /\ Len(Append(s, m)) = Len(s) + 1
         /\ \A i \in 1..Len(s) : Append(s, m)[i] = s[i]
         /\ Append(s, m)[Len(s) + 1] = m
         /\ DOMAIN Append(s, m) = 1..(Len(s) + 1)
         /\ DOMAIN s = 1..Len(s)
         /\ Append(s, m) # <<>>
         /\ Last(Append(s, m)) = m
<1>1. /\ Append(s, m) \in Seq(S) /\ Len(s) \in Nat
      /\ Len(Append(s, m)) = Len(s) + 1
      /\ \A i \in 1..Len(s) : Append(s, m)[i] = s[i]
      /\ Append(s, m)[Len(s) + 1] = m
  BY AppendProperties, LenProperties
<1>2. DOMAIN Append(s, m) = 1..(Len(s) + 1) /\ DOMAIN s = 1..Len(s)
  BY <1>1, LenProperties
<1>3. Append(s, m) # <<>>
  BY <1>1, AppendProperties
<1> QED
  BY <1>1, <1>2, <1>3 DEF Last

\* The next unit makes the run longer.
LEMMA RunGrows ==
  ASSUME NEW p, NEW n \in Nat, Run(p, n), n + 1 \in Unit
  PROVE  LET m == Append(p, n + 1)
         IN  /\ Run(m, n + 1) /\ Len(m) = Len(p) + 1 /\ Last(m) = n + 1
             /\ m # <<>> /\ m[1] = n - Len(p) + 1
             /\ \A j \in 1..(Len(m) - 1) : m[j] = p[j] /\ m[j + 1] = m[j] + 1
<1> DEFINE m == Append(p, n + 1)
<1>1. /\ m \in Message /\ Len(p) \in Nat /\ Len(m) = Len(p) + 1
      /\ \A i \in 1..Len(p) : m[i] = p[i]
      /\ m[Len(p) + 1] = n + 1
      /\ m # <<>> /\ Last(m) = n + 1
  BY Appended DEF Run, Message
<1> HIDE DEF m
<1>2. /\ Len(p) <= n
      /\ \A i \in 1..Len(p) : p[i] = n - Len(p) + i
  BY DEF Run
<1>3. PICK k \in Nat : Len(p) = k /\ Len(m) = k + 1
  BY <1>1
<1>4. \A i \in 1..k : m[i] = n - k + i
  BY <1>1, <1>2, <1>3
<1>5. m[k + 1] = n + 1
  BY <1>1, <1>3
<1>6. \A i \in 1..(k + 1) : m[i] = n - k + i
  BY <1>4, <1>5
<1>7. Run(m, n + 1)
  BY <1>1, <1>2, <1>3, <1>6 DEF Run
<1>8. m[1] = n - Len(p) + 1
  BY <1>3, <1>6
<1>9. \A j \in 1..(Len(m) - 1) : m[j] = p[j] /\ m[j + 1] = m[j] + 1
  BY <1>1, <1>3, <1>6
<1> QED
  BY <1>1, <1>7, <1>8, <1>9 DEF m

\* No unit is a run.
LEMMA EmptyRun ==
  ASSUME NEW n \in Nat
  PROVE  Run(<<>>, n)
<1>1. <<>> \in Message /\ Len(<<>>) = 0
  BY EmptySeq DEF Message
<1> QED
  BY <1>1 DEF Run

\* A run, written as a function.
LEMMA RunIs ==
  ASSUME NEW p, NEW n \in Nat, Run(p, n)
  PROVE  LET first == n - Len(p) + 1
         IN  p = [i \in 1..(n + 1 - first) |-> first + i - 1]
<1>1. p \in Seq(Unit) /\ Len(p) \in Nat /\ \A i \in 1..Len(p) : p[i] = n - Len(p) + i
  BY LenProperties DEF Run, Message
<1>2. PICK k \in Nat : Len(p) = k
  BY <1>1
<1>3. n + 1 - (n - Len(p) + 1) = k
  BY <1>2
<1>4. p = [i \in 1..k |-> p[i]]
  BY <1>1, <1>2, LenProperties
<1>5. \A i \in 1..k : p[i] = (n - Len(p) + 1) + i - 1
  BY <1>1, <1>2
<1>6. [i \in 1..k |-> p[i]] = [i \in 1..k |-> (n - Len(p) + 1) + i - 1]
  BY <1>5
<1> QED
  BY <1>3, <1>4, <1>6, Zenon

\* A run that begins where the messages end goes on with them.
LEMMA RunAppended ==
  ASSUME NEW s \in Seq(Message), NEW end \in Nat, InARow(s, end),
         NEW m \in Message, m # <<>>, m[1] = end,
         \A i \in 1..Len(m) : m[i] = end + i - 1
  PROVE  InARow(Append(s, m), Last(m) + 1)
<1> DEFINE t == Append(s, m)
<1>1. /\ t \in Seq(Message) /\ Len(s) \in Nat /\ Len(t) = Len(s) + 1
      /\ \A i \in 1..Len(s) : t[i] = s[i]
      /\ t[Len(s) + 1] = m /\ DOMAIN t = 1..(Len(s) + 1) /\ DOMAIN s = 1..Len(s)
      /\ t # <<>> /\ Last(t) = m
  BY Appended
<1> HIDE DEF t
<1>2. Len(m) \in Nat \ {0} /\ DOMAIN m = 1..Len(m)
  BY LenProperties, EmptySeq DEF Message
<1>3. PICK k \in Nat, l \in Nat \ {0} : Len(s) = k /\ Len(m) = l
  BY <1>1, <1>2
<1>4. Last(m) = end + l - 1
  BY <1>3 DEF Last
<1> DEFINE next == Last(m) + 1
<1>9. next = end + l
  BY <1>4
<1> HIDE DEF next
<1>5. ASSUME NEW i \in DOMAIN t
      PROVE  /\ t[i] # <<>>
             /\ t[i][1] = IF i = 1 THEN 1 ELSE Last(t[i - 1]) + 1
             /\ \A j \in 1..(Len(t[i]) - 1) : t[i][j + 1] = t[i][j] + 1
  <2>1. CASE i \in 1..k
    <3>1. t[i] = s[i] /\ i \in DOMAIN s
      BY <1>1, <1>3, <2>1
    <3>2. i # 1 => t[i - 1] = s[i - 1]
      BY <1>1, <1>3, <2>1
    <3>3. /\ s[i] # <<>>
          /\ s[i][1] = IF i = 1 THEN 1 ELSE Last(s[i - 1]) + 1
          /\ \A j \in 1..(Len(s[i]) - 1) : s[i][j + 1] = s[i][j] + 1
      BY <3>1 DEF InARow
    <3> QED
      BY <3>1, <3>2, <3>3
  <2>2. CASE i = k + 1
    <3>1. t[i] = m
      BY <1>1, <1>3, <2>2
    <3>2. \A j \in 1..(l - 1) : m[j + 1] = m[j] + 1
      BY <1>3
    <3>3. end = IF i = 1 THEN 1 ELSE Last(t[i - 1]) + 1
      <4>1. CASE k = 0
        <5>1. s = <<>>
          BY <1>3, <4>1, EmptySeq
        <5> QED
          BY <2>2, <4>1, <5>1 DEF InARow
      <4>2. CASE k # 0
        <5>1. s # <<>>
          BY <1>3, <4>2, EmptySeq
        <5>2. t[i - 1] = s[k] /\ Last(s) = s[k] /\ i # 1
          BY <1>1, <1>3, <2>2, <4>2 DEF Last
        <5> QED
          BY <5>1, <5>2 DEF InARow
      <4> QED
        BY <4>1, <4>2
    <3> QED
      BY <1>3, <3>1, <3>2, <3>3
  <2> QED
    BY <1>1, <1>3, <2>1, <2>2
<1>6. ASSUME NEW unit \in 1..(next - 1)
      PROVE  In(t, unit)
  <2>1. CASE unit < end
    <3>1. unit \in 1..(end - 1)
      BY <2>1
    <3>2. PICK i \in DOMAIN s : \E j \in DOMAIN s[i] : s[i][j] = unit
      BY <3>1 DEF InARow, In
    <3>3. i \in DOMAIN t /\ t[i] = s[i]
      BY <1>1, <1>3
    <3> QED
      BY <3>2, <3>3 DEF In
  <2>2. CASE unit >= end
    <3>1. unit - end + 1 \in 1..l /\ m[unit - end + 1] = unit
      BY <1>3, <1>9, <2>2
    <3>2. k + 1 \in DOMAIN t /\ t[k + 1] = m /\ unit - end + 1 \in DOMAIN m
      BY <1>1, <1>2, <1>3, <3>1
    <3> QED
      BY <3>1, <3>2 DEF In
  <2> QED
    BY <2>1, <2>2
<1>10. ASSUME NEW i \in DOMAIN t, NEW j \in DOMAIN t[i]
       PROVE  t[i][j] < next
  <2>1. CASE i \in DOMAIN s
    <3>1. t[i] = s[i]
      BY <1>1, <2>1
    <3>2. s[i][j] < end
      BY <2>1, <3>1 DEF InARow
    <3>3. s[i] \in Message /\ j \in 1..Len(s[i])
      BY <1>1, <2>1, <3>1, ElementOfSeq, LenProperties DEF Message
    <3>4. s[i][j] \in Nat
      <4>1. s[i][j] \in Unit
        BY <3>3, ElementOfSeq DEF Message
      <4>2. Unit \subseteq Nat
        BY UnitAssumption DEF Unit
      <4> QED
        BY <4>1, <4>2
    <3> QED
      BY <1>3, <1>9, <3>1, <3>2, <3>4
  <2>2. CASE i = k + 1
    <3>1. t[i] = m /\ j \in 1..l /\ m[j] = end + j - 1
      BY <1>1, <1>2, <1>3, <2>2
    <3> QED
      BY <1>3, <1>9, <3>1
  <2> QED
    BY <1>1, <1>3, <2>1, <2>2
<1>7. next = IF t = <<>> THEN 1 ELSE Last(Last(t)) + 1
  BY <1>1 DEF next
<1>8. InARow(t, next)
  <2>1. \A i \in DOMAIN t :
          /\ t[i] # <<>>
          /\ t[i][1] = IF i = 1 THEN 1 ELSE Last(t[i - 1]) + 1
          /\ \A j \in 1..(Len(t[i]) - 1) : t[i][j + 1] = t[i][j] + 1
    BY <1>5
  <2> QED
    BY <1>6, <1>7, <1>10, <2>1 DEF InARow
<1> QED
  BY <1>8 DEF t, next

\* One more event, after the others and all of it, leaves whole events.
Events(s) ==
  /\ \A i \in DOMAIN s :
       LET e == s[i]
       IN  /\ e # <<>> /\ Last(e) \in Whole
           /\ \A j \in 1..(Len(e) - 1) : e[j] \notin Whole /\ e[j + 1] = e[j] + 1
           /\ e[1] = 1 \/ e[1] - 1 \in Whole
  /\ \A i \in 1..(Len(s) - 1) : Last(s[i]) < s[i + 1][1]

LEMMA EventAppended ==
  ASSUME NEW s \in Seq(Message), Events(s),
         NEW e \in Message, e # <<>>, Last(e) \in Whole,
         \A j \in 1..(Len(e) - 1) : e[j] \notin Whole /\ e[j + 1] = e[j] + 1,
         e[1] = 1 \/ e[1] - 1 \in Whole,
         \A i \in DOMAIN s : Last(s[i]) < e[1]
  PROVE  Events(Append(s, e))
<1> DEFINE t == Append(s, e)
<1>1. /\ Len(s) \in Nat /\ Len(t) = Len(s) + 1
      /\ \A i \in 1..Len(s) : t[i] = s[i]
      /\ t[Len(s) + 1] = e /\ DOMAIN t = 1..(Len(s) + 1) /\ DOMAIN s = 1..Len(s)
  BY Appended
<1> HIDE DEF t
<1>2. ASSUME NEW i \in DOMAIN t
      PROVE  /\ t[i] # <<>> /\ Last(t[i]) \in Whole
             /\ \A j \in 1..(Len(t[i]) - 1) :
                  t[i][j] \notin Whole /\ t[i][j + 1] = t[i][j] + 1
             /\ t[i][1] = 1 \/ t[i][1] - 1 \in Whole
  <2>1. CASE i \in DOMAIN s
    <3>1. t[i] = s[i]
      BY <1>1, <2>1
    <3> QED
      BY <2>1, <3>1 DEF Events
  <2>2. CASE i = Len(s) + 1
    <3>1. t[i] = e
      BY <1>1, <2>2
    <3> QED
      BY <3>1
  <2> QED
    BY <1>1, <2>1, <2>2
<1>3. ASSUME NEW i \in 1..(Len(t) - 1)
      PROVE  Last(t[i]) < t[i + 1][1]
  <2>1. i \in DOMAIN s /\ t[i] = s[i]
    BY <1>1
  <2>2. CASE i = Len(s)
    <3>1. t[i + 1] = e
      BY <1>1, <2>2
    <3> QED
      BY <2>1, <3>1
  <2>3. CASE i # Len(s)
    <3>0. PICK k \in Nat : Len(s) = k /\ Len(t) = k + 1
      BY <1>1
    <3>1. i \in 1..(Len(s) - 1) /\ i + 1 \in 1..Len(s)
      BY <2>3, <3>0
    <3>2. t[i + 1] = s[i + 1]
      BY <1>1, <3>1
    <3> QED
      BY <2>1, <3>1, <3>2 DEF Events
  <2> QED
    BY <2>2, <2>3
<1> QED
  BY <1>2, <1>3 DEF Events, t

\* One more block.
LEMMA BlockAppended ==
  ASSUME NEW k \in Nat, NEW f \in Nat, NEW b, b = <<f + (k + 1)>>
  PROVE  Append([i \in 1..k |-> <<f + i>>], b) = [i \in 1..(k + 1) |-> <<f + i>>]
<1> DEFINE s == [i \in 1..k |-> <<f + i>>]
           t == [i \in 1..(k + 1) |-> <<f + i>>]
<1>1. s \in Seq(Seq(Nat)) /\ t \in Seq(Seq(Nat)) /\ b \in Seq(Nat) /\ Len(s) = k /\ Len(t) = k + 1
  OBVIOUS
<1>2. /\ Append(s, b) \in Seq(Seq(Nat)) /\ Len(Append(s, b)) = k + 1
      /\ \A i \in 1..k : Append(s, b)[i] = s[i]
      /\ Append(s, b)[k + 1] = b
  BY <1>1, AppendProperties
<1>3. \A i \in 1..(k + 1) : t[i] = <<f + i>>
  OBVIOUS
<1>4. \A i \in 1..k : s[i] = <<f + i>>
  OBVIOUS
<1> HIDE DEF s, t
<1>5. ASSUME NEW i \in 1..(k + 1) PROVE Append(s, b)[i] = t[i]
  <2>1. t[i] = <<f + i>>
    BY <1>3
  <2>2. CASE i \in 1..k
    <3>1. Append(s, b)[i] = s[i] /\ s[i] = <<f + i>>
      BY <1>2, <1>4, <2>2
    <3> QED
      BY <2>1, <3>1, Zenon
  <2>3. CASE i = k + 1
    BY <1>2, <2>1, <2>3, Zenon
  <2>4. i \in 1..k \/ i = k + 1
    OBVIOUS
  <2> QED
    BY <2>2, <2>3, <2>4, Zenon
<1> QED
  BY <1>1, <1>2, <1>5, SeqEqual DEF s, t

-----------------------------------------------------------------------------
(* The steps of the channel.                                               *)

\* What the reader has done with the units, apart from the channel.
Content == Rest /\ ChunksInOrder /\ PlainEventsComplete /\ EventsWhole

\* The numbers, typed.
LEMMA Counts ==
  ASSUME TypeOK
  PROVE  /\ MaxUnits \in Nat /\ arrived \in Nat /\ skipped \in Nat /\ parsed \in Nat
         /\ batch \in Nat /\ arrived <= MaxUnits /\ skipped <= parsed
         /\ parsed <= arrived /\ batch <= arrived
         /\ Capacity \in Nat \ {0} /\ Message = Seq(Unit) /\ NoMsg = <<>>
         /\ <<>> \in Message /\ pending \in Message
<1>1. MaxUnits \in Nat /\ Capacity \in Nat \ {0} /\ NoMsg = <<>>
  BY UnitAssumption, CapacityAssumption
<1>2. arrived \in 0..MaxUnits /\ skipped \in 0..arrived /\ parsed \in skipped..arrived
      /\ batch \in 0..arrived /\ pending \in Seq(Unit)
  BY DEF TypeOK
<1>3. <<>> \in Message
  BY EmptySeq DEF Message
<1> QED
  BY <1>1, <1>2, <1>3 DEF Message

LEMMA SendKeeps ==
  ASSUME TypeOK, Suspended, reader = "reading" \/ reader = "parsing",
         NEW m \in Message, SendAtOnce(m), UNCHANGED <<mode, eof, consumer>>,
         reader' = "reading" \/ reader' = "parsing"
  PROVE  ChanTypeOK(Message)' /\ Suspended'
<1>1. /\ buf \in Seq(Message) /\ slot \in Message /\ Len(buf) \in Nat /\ Len(buf) <= Capacity
      /\ Capacity \in Nat \ {0} /\ rcv \in RcvStates /\ open \in BOOLEAN
  BY Channels, Counts DEF TypeOK, ChanTypeOK
<1>2. blocked = <<>> /\ open
  BY DEF Suspended
<1>3. consumer # "ended" /\ rcv \notin {"cancelled", "closed"}
  BY <1>2 DEF Suspended
<1>4. open' = open /\ blocked' = blocked
  BY DEF SendAtOnce, HandOver, Enqueue
<1>5. /\ buf' \in Seq(Message) /\ Len(buf') <= Capacity
      /\ rcv' \in {"idle", "waiting", "got"} /\ slot' \in Message
      /\ rcv' = "waiting" => buf' = <<>> /\ slot' = <<>>
  <2>1. CASE HandOver(m)
    BY <1>1, <2>1 DEF HandOver
  <2>2. CASE Enqueue(m)
    BY <1>1, <1>3, <2>2, AppendProperties DEF Enqueue, HasRoom, RcvStates
  <2> QED
    BY <2>1, <2>2 DEF SendAtOnce
<1>6. <<>> \in Seq(Message) /\ Len(<<>>) = 0
  BY EmptySeq
<1>7. ChanTypeOK(Message)'
  BY <1>1, <1>2, <1>4, <1>5, <1>6 DEF ChanTypeOK, RcvStates
<1>8. ~open' <=> reader' = "exited"
  BY <1>2, <1>4
<1>9. Suspended'
  BY <1>2, <1>3, <1>4, <1>5, <1>8 DEF Suspended
<1> QED
  BY <1>7, <1>9

LEMMA BlockKeeps ==
  ASSUME TypeOK, Suspended, reader = "reading", mode = "sse",
         NEW m \in Message, SendBlocks(m), UNCHANGED <<mode, eof, consumer>>,
         reader' = "sending"
  PROVE  ChanTypeOK(Message)' /\ Suspended' /\ blocked' # <<>>
<1>1. /\ buf \in Seq(Message) /\ slot \in Message /\ Len(buf) \in Nat /\ Len(buf) <= Capacity
      /\ Capacity \in Nat \ {0} /\ rcv \in RcvStates /\ open \in BOOLEAN
  BY Channels, Counts DEF TypeOK, ChanTypeOK
<1>2. /\ blocked' = <<m>> /\ <<m>> \in Seq(Message) /\ Len(<<m>>) = 1 /\ <<m>> # <<>>
      /\ UNCHANGED <<buf, open, rcv, slot>> /\ rcv # "waiting" /\ Len(buf) = Capacity
  BY <1>1 DEF SendBlocks, HasRoom
<1>3. open /\ consumer # "ended" /\ rcv \notin {"cancelled", "closed"}
  BY DEF Suspended
<1>4. ChanTypeOK(Message)'
  BY <1>1, <1>2 DEF ChanTypeOK
<1>5. ~open' <=> reader' = "exited"
  BY <1>2, <1>3
<1>6. Suspended'
  BY <1>2, <1>3, <1>5 DEF Suspended
<1> QED
  BY <1>2, <1>4, <1>6

\* A receive that takes the place of a send that waited lets the reader go on.
LEMMA TakesKeeps ==
  ASSUME TypeOK, Suspended, Takes, reader # "parsing", consumer = "running",
         reader' = IF blocked # blocked' THEN "reading" ELSE reader,
         UNCHANGED <<mode, eof, consumer>>
  PROVE  /\ ChanTypeOK(Message)' /\ Suspended' /\ received' \in Seq(Message)
         /\ reader' # "sending" /\ reader' # "parsing" /\ reader' \in ReaderStates
<1>1. /\ buf \in Seq(Message) /\ slot \in Message /\ received \in Seq(Message)
      /\ blocked \in Seq(Message) /\ Len(buf) \in Nat /\ Len(buf) <= Capacity
      /\ Capacity \in Nat \ {0} /\ open \in BOOLEAN /\ Len(blocked) <= 1
      /\ NoMsg = <<>> /\ <<>> \in Message /\ reader \in ReaderStates
  BY Channels, Counts DEF TypeOK, ChanTypeOK
<1>2. open' = open
  BY DEF Takes, StartReceive
<1>3. received' \in Seq(Message)
  BY <1>1, AppendProperties DEF Takes
<1>4. blocked # <<>> => Len(buf) = Capacity /\ buf # <<>>
  <2>1. blocked # <<>> => Len(buf) = Capacity
    BY DEF Suspended
  <2>2. Len(<<>>) = 0
    OBVIOUS
  <2> QED
    BY <1>1, <2>1, <2>2
<1>5. /\ blocked' = <<>> /\ buf' \in Seq(Message) /\ Len(buf') <= Capacity
      /\ slot' \in Message /\ rcv' \in {"got", "waiting", "closed"}
      /\ rcv' # "got" => buf' = <<>> /\ slot' = <<>> /\ (rcv' = "waiting" <=> open)
  <2>1. CASE buf # <<>>
    <3>1. /\ rcv' = "got" /\ slot' = Head(buf) /\ buf' = Tail(buf) \o blocked
          /\ blocked' = <<>>
      BY <2>1 DEF Takes, StartReceive, Refill
    <3>2. /\ Head(buf) \in Message /\ Tail(buf) \in Seq(Message)
          /\ Len(Tail(buf)) = Len(buf) - 1
      BY <1>1, <2>1, HeadTailProperties
    <3>3. /\ buf' \in Seq(Message) /\ Len(buf') = Len(buf) - 1 + Len(blocked)
      BY <1>1, <3>1, <3>2, ConcatProperties
    <3>4. Len(blocked) \in Nat
      BY <1>1, LenProperties
    <3>5. Len(buf') <= Capacity
      BY <1>1, <3>3, <3>4
    <3> QED
      BY <3>1, <3>2, <3>3, <3>5
  <2>2. CASE buf = <<>>
    <3>1. /\ rcv' = (IF open THEN "waiting" ELSE "closed") /\ slot' = <<>>
          /\ buf' = buf /\ blocked' = blocked
      BY <1>1, <2>2 DEF Takes, StartReceive
    <3> QED
      BY <1>1, <1>4, <2>2, <3>1
  <2> QED
    BY <2>1, <2>2
<1>6. /\ reader' # "sending" /\ reader' # "parsing" /\ reader' \in ReaderStates
      /\ reader' = "exited" <=> reader = "exited"
  <2>1. blocked # <<>> <=> reader = "sending"
    BY DEF Suspended
  <2> QED
    BY <1>1, <1>5, <2>1 DEF ReaderStates
<1>7. <<>> \in Seq(Message) /\ Len(<<>>) = 0
  BY EmptySeq
<1>8. ChanTypeOK(Message)'
  BY <1>1, <1>2, <1>5, <1>7 DEF ChanTypeOK, RcvStates
<1>9. ~open <=> reader = "exited"
  BY DEF Suspended
<1>10. ~open' <=> reader' = "exited"
  BY <1>2, <1>6, <1>9, Zenon
<1>11. ~open' => eof'
  BY <1>2 DEF Suspended
<1>12. /\ rcv' \in {"waiting", "cancelled", "closed"} => buf' = <<>> /\ slot' = <<>>
       /\ rcv' = "waiting" => open'
       /\ rcv' \in {"cancelled", "closed"} => ~open'
  BY <1>2, <1>5
<1>13. Suspended'
  BY <1>5, <1>6, <1>10, <1>11, <1>12 DEF Suspended
<1> QED
  BY <1>3, <1>6, <1>8, <1>13

\* What the messages and the rest say does not change with anything else.
LEMMA ContentKept ==
  ASSUME IInv, UNCHANGED <<mode, parsed, skipped, pending>>, Accepted' = Accepted
  PROVE  Content'
<1>1. Rest'
  BY DEF IInv, Rest
<1>2. ChunksInOrder'
  BY DEF IInv, ChunksInOrder, InARow, In
<1>3. PlainEventsComplete'
  BY DEF IInv, PlainEventsComplete
<1>4. EventsWhole'
  BY DEF IInv, EventsWhole
<1> QED
  BY <1>1, <1>2, <1>3, <1>4 DEF Content

-----------------------------------------------------------------------------
(* The invariant holds at first, and every step keeps it.                  *)

\* The parts of the invariant.
LEMMA Parts ==
  /\ IInv <=> TypeOK /\ Suspended /\ Content
  /\ IInv' <=> TypeOK' /\ Suspended' /\ Content'
BY DEF IInv, Content

\* The type of everything but the channel.
OtherTypes ==
  /\ mode \in Modes /\ arrived \in 0..MaxUnits /\ skipped \in 0..arrived
  /\ parsed \in skipped..arrived /\ batch \in 0..arrived
  /\ pending \in Seq(Unit) /\ eof \in BOOLEAN /\ reader \in ReaderStates
  /\ received \in Seq(Seq(Unit)) /\ consumer \in {"running", "ended"}
  /\ reader = "parsing" => parsed < batch
  /\ reader = "sending" => mode = "sse" /\ blocked # <<>>

LEMMA Types ==
  /\ TypeOK <=> ChanTypeOK(Message) /\ OtherTypes
  /\ TypeOK' <=> ChanTypeOK(Message)' /\ OtherTypes'
BY DEF TypeOK, OtherTypes, Message

LEMMA InARowNone == InARow(<<>>, 1)
<1>1. <<>> = <<>> /\ DOMAIN <<>> = {}
  OBVIOUS
<1>2. 1..(1 - 1) = {}
  OBVIOUS
<1> QED
  BY <1>1, <1>2 DEF InARow

LEMMA InitGood ==
  ASSUME Init
  PROVE  IInv
<1>1. /\ buf = <<>> /\ open = TRUE /\ blocked = <<>> /\ rcv = "idle" /\ slot = NoMsg
      /\ received = <<>> /\ pending = <<>> /\ mode \in Modes /\ arrived \in 0..1
      /\ skipped = (IF mode = "sse" THEN arrived ELSE 0) /\ parsed = skipped
      /\ batch = 0 /\ eof = FALSE /\ reader = "reading" /\ consumer = "running"
  BY DEF Init, ChanInit
<1>2. Capacity \in Nat \ {0} /\ NoMsg = <<>> /\ MaxUnits \in Nat \ {0}
  BY CapacityAssumption, UnitAssumption
<1>3. /\ <<>> \in Seq(Message) /\ <<>> \in Message /\ <<>> \in Seq(Unit)
      /\ <<>> \in Seq(Seq(Unit)) /\ Len(<<>>) = 0
  BY EmptySeq DEF Message
<1>4. Accepted = <<>>
  BY <1>1, <1>3, ConcatEmptySeq DEF Accepted
<1>5. ChanTypeOK(Message)
  BY <1>1, <1>2, <1>3 DEF ChanTypeOK, RcvStates
<1>6. OtherTypes
  <2>1. /\ arrived \in Nat /\ arrived <= 1 /\ skipped \in Nat /\ skipped <= arrived
        /\ parsed \in Nat /\ parsed = skipped
    BY <1>1
  <2>2. arrived <= MaxUnits
    BY <1>2, <2>1
  <2>3. /\ arrived \in 0..MaxUnits /\ skipped \in 0..arrived
        /\ parsed \in skipped..arrived /\ batch \in 0..arrived
    BY <1>1, <1>2, <2>1, <2>2
  <2>4. /\ mode \in Modes /\ pending \in Seq(Unit) /\ eof \in BOOLEAN
        /\ reader \in ReaderStates /\ received \in Seq(Seq(Unit))
        /\ consumer \in {"running", "ended"}
        /\ reader = "parsing" => parsed < batch
        /\ reader = "sending" => mode = "sse" /\ blocked # <<>>
    BY <1>1, <1>3 DEF ReaderStates
  <2> QED
    BY <2>3, <2>4 DEF OtherTypes
<1>7. Suspended
  BY <1>1 DEF Suspended
<1>8. parsed \in Nat /\ (mode # "sse" => parsed = 0 /\ skipped = 0)
      /\ (mode = "sse" => parsed - skipped = 0)
  BY <1>1
<1>9. Run(pending, parsed)
  BY <1>1, <1>8, EmptyRun
<1>14. /\ 1..Len(<<>>) = {} /\ 1..(Len(<<>>) - 1) = {} /\ DOMAIN Accepted = {}
       /\ Len(Accepted) = 0 /\ Len(pending) = 0
  BY <1>1, <1>3, <1>4
<1>10. Rest
  <2>1. mode # "sse" => parsed = 0 /\ parsed - Len(pending) = 0 /\ skipped = 0
    BY <1>8, <1>14
  <2>2. Len(pending) <= parsed
    BY <1>8, <1>14
  <2> QED
    BY <1>1, <1>14, <2>1, <2>2 DEF Rest
<1>11. ChunksInOrder
  <2> SUFFICES ASSUME mode = "chunks"
               PROVE  LET first == parsed - Len(pending) + 1
                      IN  /\ InARow(Accepted, first)
                          /\ pending = [i \in 1..(parsed + 1 - first) |-> first + i - 1]
    BY DEF ChunksInOrder
  <2>1. parsed - Len(pending) + 1 = 1
    BY <1>8, <1>14
  <2>2. InARow(Accepted, parsed - Len(pending) + 1)
    BY <1>4, <2>1, InARowNone
  <2> QED
    BY <1>8, <1>9, <2>2, RunIs
<1>12. PlainEventsComplete
  <2>1. <<>> = [i \in 1..0 |-> <<skipped + i>>]
    OBVIOUS
  <2> QED
    BY <1>4, <1>8, <2>1 DEF PlainEventsComplete
<1>13. EventsWhole
  BY <1>14 DEF EventsWhole
<1> QED
  BY <1>5, <1>6, <1>7, <1>10, <1>11, <1>12, <1>13, Types, Parts DEF Content

\* A step that leaves the channel alone and the units as they are.
LEMMA StaysGood ==
  ASSUME IInv, UNCHANGED <<chanVars, mode, parsed, skipped, pending, received, consumer>>,
         eof' = eof \/ eof' = TRUE,
         arrived' \in arrived..MaxUnits, batch' \in 0..arrived',
         reader' = reader \/ (reader = "reading" /\ reader' = "parsing"),
         reader' = "parsing" => parsed < batch'
  PROVE  IInv'
<1>1. TypeOK /\ Suspended
  BY Parts
<1>2. /\ UNCHANGED <<buf, open, blocked, rcv, slot>>
  BY DEF chanVars
<1>3. ChanTypeOK(Message) /\ OtherTypes
  BY <1>1, Types
<1>4. ChanTypeOK(Message)'
  BY <1>2, <1>3 DEF ChanTypeOK
<1>5. OtherTypes'
  <2>1. /\ mode' \in Modes /\ pending' \in Seq(Unit) /\ eof' \in BOOLEAN
        /\ reader' \in ReaderStates /\ received' \in Seq(Seq(Unit))
        /\ consumer' \in {"running", "ended"}
    BY <1>3 DEF OtherTypes, ReaderStates
  <2>2. /\ arrived' \in 0..MaxUnits /\ skipped' \in 0..arrived'
        /\ parsed' \in skipped'..arrived' /\ batch' \in 0..arrived'
    BY <1>1, Counts
  <2>3. /\ reader' = "parsing" => parsed' < batch'
        /\ reader' = "sending" => mode' = "sse" /\ blocked' # <<>>
    BY <1>2, <1>3 DEF OtherTypes
  <2> QED
    BY <2>1, <2>2, <2>3 DEF OtherTypes
<1>6. Accepted' = Accepted
  BY <1>2 DEF Accepted
<1>7. Content'
  BY <1>6, ContentKept
<1>8. /\ blocked' # <<>> <=> reader' = "sending"
      /\ ~open' <=> reader' = "exited"
      /\ ~open' => eof'
  <2>1. /\ blocked # <<>> <=> reader = "sending"
        /\ ~open <=> reader = "exited"
        /\ ~open => eof
    BY <1>1 DEF Suspended
  <2> QED
    BY <1>2, <2>1, Zenon
<1>9. Suspended'
  BY <1>1, <1>2, <1>8 DEF Suspended
<1> QED
  BY <1>4, <1>5, <1>7, <1>9, Types, Parts

LEMMA ReadChunksKeeps ==
  ASSUME IInv, NEW n \in Unit, ReadChunks(n)
  PROVE  IInv'
<1>1. TypeOK
  BY Parts
<1> QED
  BY <1>1, Counts, StaysGood DEF ReadChunks

LEMMA ServerKeeps ==
  ASSUME IInv, Arrive \/ ConnectionEnds
  PROVE  IInv'
<1>1. TypeOK
  BY Parts
<1>2. batch \in 0..arrived
  BY <1>1 DEF TypeOK
<1>3. CASE Arrive
  BY <1>1, <1>2, <1>3, Counts, StaysGood DEF Arrive
<1>4. CASE ConnectionEnds
  BY <1>1, <1>2, <1>4, Counts, StaysGood DEF ConnectionEnds
<1> QED
  BY <1>3, <1>4

\* The reader returns when it does not wait for room, so the close loses
\* no message.
LEMMA ReaderReturnsKeeps ==
  ASSUME IInv, ReaderReturns
  PROVE  IInv'
<1>1. TypeOK /\ Suspended /\ ChanTypeOK(Message) /\ OtherTypes
  BY Parts, Types
<1>2. /\ eof /\ reader = "reading" /\ reader' = "exited"
      /\ UNCHANGED <<mode, arrived, skipped, parsed, batch, pending, eof, received,
                     consumer>>
      /\ CloseAlone \/ CancelAndClose
  BY DEF ReaderReturns
<1>3. blocked = <<>> /\ open /\ consumer # "ended" /\ rcv \notin {"cancelled", "closed"}
  BY <1>1, <1>2 DEF Suspended
<1>4. /\ open' = FALSE /\ UNCHANGED <<buf, slot, blocked>>
      /\ rcv' = rcv \/ (rcv = "waiting" /\ rcv' \in {"cancelled", "closed"})
  BY <1>2, <1>3 DEF CloseAlone, CancelAndClose
<1>5. /\ rcv' = "got" <=> rcv = "got"
      /\ rcv' # "waiting" /\ rcv' \in RcvStates
  <2>1. rcv' = "got" <=> rcv = "got"
    BY <1>4
  <2>2. rcv' # "waiting" /\ rcv' \in RcvStates
    <3>1. CASE rcv = "waiting"
      BY <1>2, <1>3, <3>1 DEF CloseAlone, CancelAndClose, RcvStates
    <3>2. CASE rcv # "waiting"
      BY <1>1, <1>4, <3>2 DEF ChanTypeOK
    <3> QED
      BY <3>1, <3>2
  <2> QED
    BY <2>1, <2>2
<1>6. ChanTypeOK(Message)'
  BY <1>1, <1>4, <1>5 DEF ChanTypeOK
<1>7. OtherTypes'
  BY <1>1, <1>2, <1>4 DEF OtherTypes, ReaderStates
<1>8. Accepted' = Accepted
  BY <1>2, <1>4, <1>5 DEF Accepted
<1>9. Content'
  BY <1>2, <1>8, ContentKept
<1>10. rcv' \in {"cancelled", "closed"} => buf' = <<>> /\ slot' = <<>>
  BY <1>1, <1>3, <1>4 DEF Suspended
<1>11. Suspended'
  BY <1>2, <1>3, <1>4, <1>5, <1>10 DEF Suspended
<1> QED
  BY <1>6, <1>7, <1>9, <1>11, Types, Parts

\* The consumer moves messages on.
LEMMA ConsumerKeeps ==
  ASSUME IInv, ConsumerStarts \/ ConsumerGets
  PROVE  IInv'
<1>1. TypeOK /\ Suspended /\ OtherTypes
  BY Parts, Types
<1>2. /\ Takes /\ reader # "parsing" /\ consumer = "running"
      /\ reader' = (IF blocked # blocked' THEN "reading" ELSE reader)
      /\ UNCHANGED <<mode, arrived, skipped, parsed, batch, pending, eof, consumer>>
  <2>1. CASE ConsumerStarts
    BY <2>1 DEF ConsumerStarts, Receive, Takes
  <2>2. CASE ConsumerGets
    <3>1. rcv = "got" /\ consumer \in {"running", "ended"}
      BY <1>1, <2>2 DEF ConsumerGets, OtherTypes
    <3>2. consumer = "running"
      BY <1>1, <3>1 DEF Suspended
    <3> QED
      BY <2>2, <3>2 DEF ConsumerGets, Receive, Takes
  <2> QED
    BY <2>1, <2>2
<1>3. /\ ChanTypeOK(Message)' /\ Suspended' /\ received' \in Seq(Message)
      /\ reader' # "sending" /\ reader' # "parsing" /\ reader' \in ReaderStates
  BY <1>1, <1>2, TakesKeeps
<1>4. OtherTypes'
  BY <1>1, <1>2, <1>3 DEF OtherTypes, Message
<1>5. Accepted' = Accepted
  BY <1>1, <1>2, Moved
<1>6. Content'
  BY <1>2, <1>5, ContentKept
<1> QED
  BY <1>3, <1>4, <1>6, Types, Parts

LEMMA ConsumerEndsKeeps ==
  ASSUME IInv, ConsumerEnds
  PROVE  IInv'
<1>1. TypeOK /\ Suspended /\ ChanTypeOK(Message) /\ OtherTypes
  BY Parts, Types
<1>2. /\ rcv \in {"cancelled", "closed"} /\ rcv' = "idle" /\ slot' = NoMsg
      /\ consumer' = "ended"
      /\ UNCHANGED <<buf, open, blocked, mode, arrived, skipped, parsed, batch, pending,
                     eof, reader, received>>
  BY DEF ConsumerEnds, EndReceive
<1>3. buf = <<>> /\ ~open
  BY <1>1, <1>2 DEF Suspended
<1>4. ChanTypeOK(Message)'
  BY <1>1, <1>2 DEF ChanTypeOK, RcvStates
<1>5. OtherTypes'
  BY <1>1, <1>2 DEF OtherTypes
<1>6. Accepted' = Accepted
  BY <1>2 DEF Accepted
<1>7. Content'
  BY <1>2, <1>6, ContentKept
<1>8. /\ blocked' # <<>> <=> reader' = "sending"
      /\ ~open' <=> reader' = "exited"
      /\ ~open' => eof'
  <2>1. /\ blocked # <<>> <=> reader = "sending"
        /\ ~open <=> reader = "exited"
        /\ ~open => eof
    BY <1>1 DEF Suspended
  <2> QED
    BY <1>2, <2>1, Zenon
<1>9. Suspended'
  BY <1>1, <1>2, <1>3, <1>8 DEF Suspended
<1> QED
  BY <1>4, <1>5, <1>7, <1>9, Types, Parts

\* A block goes to the consumer, or waits: it is never lost.
LEMMA ReadBlockKeeps ==
  ASSUME IInv, ReadBlock
  PROVE  IInv'
<1> DEFINE m == <<parsed + 1>>
<1>1. TypeOK /\ Suspended /\ Content /\ ChanTypeOK(Message) /\ OtherTypes
  BY Parts, Types
<1>2. /\ mode = "sse" /\ reader = "reading" /\ parsed < arrived /\ parsed' = parsed + 1
      /\ (SendAtOnce(m) /\ reader' = reader) \/ (SendBlocks(m) /\ reader' = "sending")
      /\ UNCHANGED <<mode, arrived, skipped, batch, pending, eof, received, consumer>>
  BY DEF ReadBlock
<1>3. m \in Message
  <2>1. parsed + 1 \in Unit
    BY <1>1, <1>2, Counts DEF Unit
  <2> QED
    BY <2>1 DEF Message
<1> HIDE DEF m
<1>4. blocked = <<>>
  BY <1>1, <1>2 DEF Suspended
<1>5. Accepted' = Append(Accepted, m)
  BY <1>1, <1>2, <1>3, <1>4, SentAtOnce, SentLater
<1>6. /\ ChanTypeOK(Message)' /\ Suspended'
      /\ reader' = "reading" \/ (reader' = "sending" /\ blocked' # <<>>)
  BY <1>1, <1>2, <1>3, SendKeeps, BlockKeeps
<1>7. OtherTypes'
  <2>1. parsed' \in skipped'..arrived'
    BY <1>1, <1>2, Counts
  <2> QED
    BY <1>1, <1>2, <1>6, <2>1 DEF OtherTypes, ReaderStates
<1>8. PlainEventsComplete'
  <2>1. /\ parsed - skipped \in Nat /\ skipped \in Nat /\ parsed \in Nat
        /\ parsed + 1 - skipped = (parsed - skipped) + 1
    BY <1>1, Counts
  <2>6. m = <<skipped + ((parsed - skipped) + 1)>>
    BY <2>1, <1>1, Counts DEF m
  <2>2. Accepted = [i \in 1..(parsed - skipped) |-> <<skipped + i>>]
    BY <1>1, <1>2 DEF Content, PlainEventsComplete
  <2>3. Append(Accepted, m) = [i \in 1..((parsed - skipped) + 1) |-> <<skipped + i>>]
    BY <2>1, <2>2, <2>6, BlockAppended
  <2>7. parsed' = parsed + 1 /\ skipped' = skipped
    BY <1>2
  <2>4. parsed' - skipped' = (parsed - skipped) + 1 /\ skipped' = skipped
    BY <2>1, <2>7
  <2>5. Accepted' = [i \in 1..(parsed' - skipped') |-> <<skipped' + i>>]
    BY <1>5, <2>3, <2>4, Zenon
  <2> QED
    BY <2>5, Zenon DEF PlainEventsComplete
<1>9. Rest'
  <2>1. pending = <<>> /\ Len(<<>>) = 0
    BY <1>1, <1>2 DEF Content, Rest
  <2>2. parsed + 1 \in Nat
    BY <1>1, Counts
  <2> QED
    BY <1>2, <2>1, <2>2 DEF Rest
<1>10. ChunksInOrder' /\ EventsWhole'
  BY <1>2 DEF ChunksInOrder, EventsWhole
<1> QED
  BY <1>6, <1>7, <1>8, <1>9, <1>10, Types, Parts DEF Content

\* A chunk makes the rest longer; the rest becomes a message, or it is
\* dropped or kept as the reader does.
LEMMA ChunkKeeps ==
  ASSUME IInv, OnChunkBody
  PROVE  IInv'
<1> DEFINE m == Append(pending, parsed + 1)
           first == parsed - Len(pending) + 1
<1>1. TypeOK /\ Suspended /\ Content /\ ChanTypeOK(Message) /\ OtherTypes
  BY Parts, Types
<1>2. /\ reader = "parsing" /\ parsed' = parsed + 1 /\ mode \in {"chunks", "chunked sse"}
      /\ reader' = (IF parsed + 1 = batch THEN "reading" ELSE "parsing")
      /\ UNCHANGED <<mode, arrived, skipped, batch, eof, received, consumer>>
  BY DEF OnChunkBody
<1>3. /\ blocked = <<>> /\ parsed \in Nat /\ parsed < batch /\ parsed + 1 \in Unit
      /\ skipped = 0
  <2>1. blocked = <<>>
    BY <1>1, <1>2 DEF Suspended
  <2>2. parsed < batch
    BY <1>1, <1>2 DEF OtherTypes
  <2>3. skipped = 0
    BY <1>1, <1>2 DEF Content, Rest
  <2>4. parsed \in Nat /\ parsed + 1 \in Unit
    BY <1>1, <2>2, Counts DEF Unit
  <2> QED
    BY <2>1, <2>2, <2>3, <2>4
<1>4. Run(pending, parsed)
  BY <1>1, Counts DEF Run, Content, Rest
<1>5. /\ Run(m, parsed + 1) /\ Len(m) = Len(pending) + 1 /\ Last(m) = parsed + 1
      /\ m # <<>> /\ m[1] = first
      /\ \A j \in 1..(Len(m) - 1) : m[j] = pending[j] /\ m[j + 1] = m[j] + 1
      /\ m \in Message
  BY <1>3, <1>4, RunGrows DEF Run
<1>6. /\ Len(pending) \in Nat /\ Len(pending) <= parsed /\ first \in Nat
      /\ \A i \in 1..Len(m) : m[i] = first + i - 1
      /\ Run(<<>>, parsed + 1) /\ Len(<<>>) = 0
  <2>1. Len(pending) \in Nat /\ Len(pending) <= parsed
    BY <1>1, <1>4, Counts, LenProperties DEF Run
  <2>2. PICK k \in Nat : Len(pending) = k
    BY <2>1
  <2>3. \A i \in 1..Len(m) : m[i] = (parsed + 1) - (k + 1) + i
    BY <1>5, <2>2 DEF Run
  <2>4. ASSUME NEW i \in 1..Len(m) PROVE m[i] = first + i - 1
    <3>1. m[i] = (parsed + 1) - (k + 1) + i /\ i \in Nat
      BY <1>5, <2>2, <2>3
    <3> QED
      BY <1>3, <2>2, <3>1
  <2>5. Run(<<>>, parsed + 1) /\ Len(<<>>) = 0
    BY <1>3, EmptyRun
  <2> QED
    BY <1>3, <2>1, <2>2, <2>4, <2>5
<1> HIDE DEF m
<1>7. /\ \/ SendAtOnce(m) /\ Accepted' = Append(Accepted, m)
         \/ UNCHANGED chanVars /\ Accepted' = Accepted
      /\ \/ pending' = <<>>
         \/ pending' = m /\ UNCHANGED chanVars /\ Accepted' = Accepted
  <2>1. SendAtOnce(m) => Accepted' = Append(Accepted, m)
    BY <1>1, <1>2, <1>3, <1>5, SentAtOnce
  <2>2. UNCHANGED chanVars => Accepted' = Accepted
    BY <1>2 DEF Accepted, chanVars
  <2>3. \/ SendAtOnce(m) /\ pending' = <<>>
        \/ UNCHANGED chanVars /\ (pending' = <<>> \/ pending' = m)
    BY DEF OnChunkBody, SendChunk, SendEvent, TrySend, m
  <2> QED
    BY <2>1, <2>2, <2>3
<1>8. ChanTypeOK(Message)' /\ Suspended'
  <2>1. reader' = "reading" \/ reader' = "parsing"
    BY <1>2
  <2>2. CASE SendAtOnce(m)
    BY <1>1, <1>2, <1>5, <2>1, <2>2, SendKeeps
  <2>3. CASE UNCHANGED chanVars
    <3>1. UNCHANGED <<buf, open, blocked, rcv, slot>>
      BY <2>3 DEF chanVars
    <3>2. ChanTypeOK(Message)'
      BY <1>1, <3>1 DEF ChanTypeOK
    <3>3. open /\ (~open' <=> reader' = "exited") /\ (blocked' # <<>> <=> reader' = "sending")
      BY <1>1, <1>2, <2>1, <3>1 DEF Suspended
    <3>4. Suspended'
      BY <1>1, <1>2, <2>1, <3>1, <3>3 DEF Suspended
    <3> QED
      BY <3>2, <3>4
  <2> QED
    BY <1>7, <2>2, <2>3
<1>9. OtherTypes'
  <2>1. pending' \in Seq(Unit)
    BY <1>1, <1>5, <1>7, Counts DEF Message
  <2>4. /\ parsed' = parsed + 1 /\ arrived' = arrived /\ batch' = batch /\ skipped' = skipped
        /\ reader' = "parsing" => parsed + 1 # batch
    BY <1>2
  <2>5. /\ parsed \in Nat /\ batch \in Nat /\ arrived \in Nat /\ skipped \in Nat
        /\ skipped <= parsed /\ parsed < batch /\ batch <= arrived
    BY <1>1, <1>3, Counts
  <2>2. parsed' \in skipped'..arrived'
    BY <2>4, <2>5
  <2>3. reader' = "parsing" => parsed' < batch'
    BY <2>4, <2>5
  <2> QED
    BY <1>1, <1>2, <2>1, <2>2, <2>3 DEF OtherTypes, ReaderStates
<1>10. Run(pending', parsed + 1)
  BY <1>5, <1>6, <1>7
<1>11. /\ Accepted \in Seq(Message) /\ DOMAIN Accepted = 1..Len(Accepted)
       /\ DOMAIN Append(Accepted, m) = 1..(Len(Accepted) + 1)
       /\ \A i \in 1..Len(Accepted) : Append(Accepted, m)[i] = Accepted[i]
       /\ Append(Accepted, m)[Len(Accepted) + 1] = m
       /\ Len(Accepted) \in Nat
  <2>1. Accepted \in Seq(Message)
    BY <1>1, Channels
  <2> QED
    BY <1>5, <2>1, Appended
<1>12. ChunksInOrder'
  <2> SUFFICES ASSUME mode = "chunks"
               PROVE  LET f == parsed' - Len(pending') + 1
                      IN  /\ InARow(Accepted', f)
                          /\ pending' = [i \in 1..(parsed' + 1 - f) |-> f + i - 1]
    BY <1>2 DEF ChunksInOrder, InARow, In
  <2>1. InARow(Accepted, first)
    BY <1>1 DEF Content, ChunksInOrder
  <2>2. \/ pending' = <<>> /\ Accepted' = Append(Accepted, m)
        \/ pending' = m /\ Accepted' = Accepted
    <3>1. \/ SendAtOnce(m) /\ pending' = <<>>
          \/ UNCHANGED chanVars /\ pending' = m
      BY DEF OnChunkBody, SendChunk, TrySend, m
    <3>2. SendAtOnce(m) => Accepted' = Append(Accepted, m)
      BY <1>1, <1>2, <1>3, <1>5, SentAtOnce
    <3>3. UNCHANGED chanVars => Accepted' = Accepted
      BY <1>2 DEF Accepted, chanVars
    <3> QED
      BY <3>1, <3>2, <3>3
  <2>3. InARow(Accepted', parsed' - Len(pending') + 1)
    <3>1. CASE pending' = <<>> /\ Accepted' = Append(Accepted, m)
      <4>1. InARow(Append(Accepted, m), Last(m) + 1)
        BY <1>5, <1>6, <1>11, <2>1, RunAppended
      <4>2. parsed' - Len(pending') + 1 = Last(m) + 1
        BY <1>2, <1>3, <1>5, <1>6, <3>1
      <4> QED
        BY <3>1, <4>1, <4>2
    <3>2. CASE pending' = m /\ Accepted' = Accepted
      <4>1. parsed' - Len(pending') + 1 = first
        <5>1. PICK k \in Nat : Len(pending) = k /\ Len(m) = k + 1
          BY <1>5, <1>6
        <5> QED
          BY <1>2, <1>3, <3>2, <5>1
      <4> QED
        BY <2>1, <3>2, <4>1
    <3> QED
      BY <2>2, <3>1, <3>2
  <2>4. parsed + 1 \in Nat
    BY <1>3
  <2> QED
    BY <1>2, <1>10, <2>3, <2>4, RunIs
<1>13. PlainEventsComplete'
  BY <1>2 DEF PlainEventsComplete
<1>14. ASSUME mode = "chunked sse"
       PROVE  /\ \A i \in 1..Len(pending') : pending'[i] \notin Whole
              /\ parsed + 1 - Len(pending') \in {0} \cup Whole
              /\ \A i \in DOMAIN Accepted' : Last(Accepted'[i]) <= parsed + 1 - Len(pending')
              /\ Events(Accepted')
  <2>0. PICK k \in Nat : Len(pending) = k /\ Len(m) = k + 1
    BY <1>5, <1>6
  <2>1. /\ \A i \in 1..k : pending[i] \notin Whole
        /\ parsed - k \in {0} \cup Whole
        /\ \A i \in DOMAIN Accepted : Last(Accepted[i]) <= parsed - k
        /\ Events(Accepted)
    BY <1>1, <1>14, <2>0 DEF Content, Rest, EventsWhole, Events
  <2>2. \A i \in DOMAIN Accepted : Last(Accepted[i]) \in Nat
    <3> SUFFICES ASSUME NEW i \in DOMAIN Accepted
                 PROVE  Last(Accepted[i]) \in Nat
      OBVIOUS
    <3>1. Last(Accepted[i]) \in Whole
      BY <2>1 DEF Events
    <3>2. Whole \subseteq Nat
      BY UnitAssumption
    <3> QED
      BY <3>1, <3>2
  <2>3. \/ parsed + 1 \in Whole /\ pending' = <<>>
        \/ parsed + 1 \notin Whole /\ pending' = m /\ Accepted' = Accepted
    <3>1. IF Last(m) \in Whole THEN TrySend(m) /\ pending' = <<>>
                               ELSE pending' = m /\ UNCHANGED chanVars
      BY <1>14 DEF OnChunkBody, SendEvent, m
    <3>2. UNCHANGED chanVars => Accepted' = Accepted
      BY <1>2 DEF Accepted, chanVars
    <3> QED
      BY <1>5, <3>1, <3>2
  <2>4. CASE parsed + 1 \in Whole /\ pending' = <<>>
    <3>1. /\ \A i \in 1..Len(pending') : pending'[i] \notin Whole
          /\ parsed + 1 - Len(pending') = parsed + 1
      BY <1>3, <1>6, <2>4
    <3>2. \A i \in DOMAIN Accepted : Last(Accepted[i]) <= parsed + 1
      BY <1>3, <2>0, <2>1, <2>2
    <3>3. Events(Append(Accepted, m))
      <4>1. \A j \in 1..(Len(m) - 1) : m[j] \notin Whole /\ m[j + 1] = m[j] + 1
        BY <1>5, <2>0, <2>1
      <4>2. m[1] = parsed - k + 1
        BY <1>5, <2>0
      <4>3. m[1] = 1 \/ m[1] - 1 \in Whole
        <5>1. m[1] - 1 = parsed - k /\ (parsed - k = 0 => m[1] = 1)
          BY <1>3, <2>0, <4>2
        <5> QED
          BY <2>1, <5>1
      <4>4. \A i \in DOMAIN Accepted : Last(Accepted[i]) < m[1]
        BY <1>3, <2>0, <2>1, <2>2, <4>2
      <4>5. Last(m) \in Whole
        BY <1>5, <2>4
      <4> QED
        BY <1>5, <1>11, <2>1, <4>1, <4>3, <4>4, <4>5, EventAppended
    <3>4. \A i \in DOMAIN Append(Accepted, m) : Last(Append(Accepted, m)[i]) <= parsed + 1
      <4> SUFFICES ASSUME NEW i \in DOMAIN Append(Accepted, m)
                   PROVE  Last(Append(Accepted, m)[i]) <= parsed + 1
        OBVIOUS
      <4>1. CASE i \in DOMAIN Accepted
        <5>1. Append(Accepted, m)[i] = Accepted[i]
          BY <1>11, <4>1
        <5> QED
          BY <3>2, <4>1, <5>1
      <4>2. CASE i = Len(Accepted) + 1
        <5>1. Append(Accepted, m)[i] = m
          BY <1>11, <4>2
        <5> QED
          BY <1>3, <1>5, <5>1
      <4>3. i \in DOMAIN Accepted \/ i = Len(Accepted) + 1
        BY <1>11
      <4> QED
        BY <4>1, <4>2, <4>3
    <3>5. Accepted' = Accepted \/ Accepted' = Append(Accepted, m)
      BY <1>7
    <3>6. /\ \A i \in DOMAIN Accepted' : Last(Accepted'[i]) <= parsed + 1
          /\ Events(Accepted')
      <4>1. CASE Accepted' = Accepted
        BY <2>1, <3>2, <4>1
      <4>2. CASE Accepted' = Append(Accepted, m)
        BY <3>3, <3>4, <4>2
      <4> QED
        BY <3>5, <4>1, <4>2
    <3> QED
      BY <2>4, <3>1, <3>6
  <2>5. CASE parsed + 1 \notin Whole /\ pending' = m /\ Accepted' = Accepted
    <3>1. parsed + 1 - Len(pending') = parsed - k
      BY <1>3, <2>0, <2>5
    <3>2. ASSUME NEW i \in 1..Len(pending') PROVE pending'[i] \notin Whole
      <4>1. CASE i \in 1..k
        <5>1. pending'[i] = pending[i]
          BY <1>5, <2>0, <2>5, <4>1
        <5> QED
          BY <2>1, <4>1, <5>1
      <4>2. CASE i = k + 1
        <5>1. pending'[i] = parsed + 1
          BY <1>5, <2>0, <2>5, <4>2 DEF Last
        <5> QED
          BY <2>5, <5>1
      <4>3. i \in 1..k \/ i = k + 1
        BY <2>0, <2>5
      <4> QED
        BY <4>1, <4>2, <4>3
    <3> QED
      BY <2>1, <2>5, <3>1, <3>2
  <2> QED
    BY <2>3, <2>4, <2>5
<1>15. Rest'
  <2>1. /\ Len(pending') <= parsed'
        /\ \A i \in 1..Len(pending') : pending'[i] = parsed' - Len(pending') + i
    BY <1>2, <1>10 DEF Run
  <2>2. mode' # "sse" /\ skipped' = 0
    BY <1>2, <1>3
  <2>3. mode' = mode /\ parsed' = parsed + 1
    BY <1>2
  <2>4. ASSUME mode' = "chunked sse"
        PROVE  /\ \A i \in 1..Len(pending') : pending'[i] \notin Whole
               /\ parsed' - Len(pending') \in {0} \cup Whole
               /\ \A i \in DOMAIN Accepted' : Last(Accepted'[i]) <= parsed' - Len(pending')
    <3>1. mode = "chunked sse"
      BY <2>3, <2>4
    <3>2. parsed' - Len(pending') = parsed + 1 - Len(pending')
      <4>1. Len(pending') \in Nat
        BY <1>10, LenProperties DEF Run, Message
      <4>2. parsed' = parsed + 1
        BY <2>3
      <4> QED
        BY <1>3, <4>1, <4>2
    <3> QED
      BY <1>14, <3>1, <3>2, Zenon
  <2> QED
    BY <2>1, <2>2, <2>4 DEF Rest
<1>16. EventsWhole'
  <2>1. mode' = "chunked sse" => Events(Accepted')
    BY <1>2, <1>14
  <2> QED
    BY <2>1 DEF EventsWhole, Events
<1> QED
  BY <1>8, <1>9, <1>12, <1>13, <1>15, <1>16, Types, Parts DEF Content

LEMMA IInvStep ==
  ASSUME IInv, [Next]_vars
  PROVE  IInv'
<1>1. ASSUME NEW n \in Unit, ReadChunks(n) PROVE IInv'
  BY <1>1, ReadChunksKeeps
<1>2. CASE OnChunkBody
  BY <1>2, ChunkKeeps
<1>3. CASE ReadBlock
  BY <1>3, ReadBlockKeeps
<1>4. CASE ReaderReturns
  BY <1>4, ReaderReturnsKeeps
<1>5. CASE ConsumerStarts \/ ConsumerGets
  BY <1>5, ConsumerKeeps
<1>6. CASE ConsumerEnds
  BY <1>6, ConsumerEndsKeeps
<1>7. CASE Arrive \/ ConnectionEnds
  BY <1>7, ServerKeeps
<1>8. CASE UNCHANGED vars
  <2>1. UNCHANGED <<chanVars, mode, arrived, skipped, parsed, batch, pending, eof, reader,
                    received, consumer>>
    BY <1>8 DEF vars
  <2>2. TypeOK /\ OtherTypes
    BY Parts, Types
  <2>3. arrived' \in arrived..MaxUnits /\ batch' \in 0..arrived'
    BY <2>1, <2>2, Counts
  <2>4. reader' = "parsing" => parsed < batch'
    BY <2>1, <2>2 DEF OtherTypes
  <2> QED
    BY <2>1, <2>3, <2>4, StaysGood
<1> QED
  BY <1>1, <1>2, <1>3, <1>4, <1>5, <1>6, <1>7, <1>8 DEF Next, ReaderStep, ConsumerStep

-----------------------------------------------------------------------------
(* The theorems.                                                           *)

\* In every reachable state the readers, the channel and the consumer are
\* where the invariant says (client/response.hpp and the examples).
THEOREM Invariance == Spec => []IInv
<1>1. Init => IInv
  BY InitGood
<1>2. IInv /\ [Next]_vars => IInv'
  BY IInvStep
<1> QED
  BY <1>1, <1>2, PTL DEF Spec

\* Every variable keeps its type, and nothing is parsed before it arrived.
THEOREM TypeCorrect == Spec => []TypeOK
<1>1. IInv => TypeOK
  BY DEF IInv
<1> QED
  BY <1>1, Invariance, PTL

\* read_chunked_encoding: however the reads cut the body and whenever the
\* channel is full, the consumer gets every chunk once and in order, but for
\* the rest that read_chunked_encoding still holds.
THEOREM NoChunkLost == Spec => []ChunksInOrder
<1>1. IInv => ChunksInOrder
  BY DEF IInv
<1> QED
  BY <1>1, Invariance, PTL

\* read_sse with plain events: no block after the first read is lost, even
\* though the channel may be full when it is read.
THEOREM NoBlockLost == Spec => []PlainEventsComplete
<1>1. IInv => PlainEventsComplete
  BY DEF IInv
<1> QED
  BY <1>1, Invariance, PTL

\* read_chunked_sse: what the consumer gets are events as they were sent.
THEOREM NoEventTorn == Spec => []EventsWhole
<1>1. IInv => EventsWhole
  BY DEF IInv
<1> QED
  BY <1>1, Invariance, PTL
=============================================================================
