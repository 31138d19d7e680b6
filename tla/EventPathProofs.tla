--------------------------- MODULE EventPathProofs ---------------------------
(***************************************************************************)
(* Proofs about the text of an event stream: an event is read as it was    *)
(* written, and both readers find each event where the server has put it.  *)
(*                                                                         *)
(* The round trip goes from tokens to lines, fields and events; what a     *)
(* recursive function makes of a text is got at one position after the     *)
(* other, by induction (Induction).  The invariant places the events in    *)
(* the text (Placed) and the readers among them (Chunked, Plain).  What    *)
(* lines add after an event is what they add by themselves, joined to it   *)
(* (ParseFrom): so a block of several events means the join of them.       *)
(***************************************************************************)
EXTENDS EventPath, SequenceTheorems, WellFoundedInduction, TLAPS

-----------------------------------------------------------------------------
(* Induction over numbers, and the lines of a text.                        *)

\* A set of numbers has a smallest one.
LEMMA Smallest ==
  ASSUME NEW S \in SUBSET Nat, S # {}
  PROVE  \E x \in S : \A y \in S : x <= y
<1> DEFINE R == {ss \in Nat \X Nat : ss[1] < ss[2]}
<1>1. IsWellFoundedOn(R, Nat)
  BY NatLessThanWellFounded DEF OpToRel
<1>2. \A x, y \in Nat : <<y, x>> \notin R => x <= y
  OBVIOUS
<1> HIDE DEF R
<1>3. PICK x \in S : \A y \in S : <<y, x>> \notin R
  BY <1>1, WFMin
<1> QED
  BY <1>2, <1>3

\* A set that has 0, and with each number the next, has all.
LEMMA Induction ==
  ASSUME NEW S, 0 \in S, \A n \in Nat : n \in S => n + 1 \in S
  PROVE  \A n \in Nat : n \in S
<1> DEFINE D == {n \in Nat : n \notin S}
<1>1. SUFFICES ASSUME D # {} PROVE FALSE
  OBVIOUS
<1>2. PICK x \in D : \A y \in D : x <= y
  BY <1>1, Smallest
<1>3. x - 1 \in Nat /\ x - 1 \notin D /\ x \notin S
  BY <1>2
<1>4. x - 1 \in S
  BY <1>3
<1> QED
  BY <1>3, <1>4

\* ParseLines goes through the text from its start.
IsParse(f, text0, event) ==
  /\ f[0] = event
  /\ \A i \in 1..Len(text0) :
       f[i] = IF text0[i] = NewLine THEN ParseLine(LineBefore(text0, i), f[i - 1])
              ELSE f[i - 1]

\* ParseLines is the last value of its recursive function.
LEMMA ParseExists ==
  ASSUME NEW t, Len(t) \in Nat, NEW event
  PROVE  \E f : IsParse(f, t, event) /\ ParseLines(t, event) = f[Len(t)]
<1> DEFINE Body(f, n) ==
      [i \in 0..n |->
        IF i = 0 THEN event
        ELSE IF t[i] = NewLine THEN ParseLine(LineBefore(t, i), f[i - 1])
        ELSE f[i - 1]]
    S == {n \in Nat : \E f : f = Body(f, n)}
<1>1. 0 \in S
  <2> DEFINE f == [i \in 0..0 |-> event]
  <2>1. f = Body(f, 0)
    OBVIOUS
  <2> QED
    BY <2>1
<1>2. ASSUME NEW n \in Nat, n \in S PROVE n + 1 \in S
  <2>1. PICK f : f = Body(f, n)
    BY <1>2
  <2> DEFINE g == [i \in 0..(n + 1) |-> IF i <= n THEN f[i]
                     ELSE IF t[i] = NewLine THEN ParseLine(LineBefore(t, i), f[i - 1])
                     ELSE f[i - 1]]
  <2>2. \A i \in 0..n : f[i] = Body(f, n)[i]
    BY <2>1
  <2>3. ASSUME NEW i \in 0..(n + 1) PROVE g[i] = Body(g, n + 1)[i]
    <3>1. CASE i = 0
      BY <2>2, <3>1
    <3>2. CASE i \in 1..n
      <4>1. g[i] = f[i] /\ g[i - 1] = f[i - 1]
        BY <3>2
      <4> QED
        BY <2>2, <3>2, <4>1
    <3>3. CASE i = n + 1
      BY <3>3
    <3> QED
      BY <3>1, <3>2, <3>3
  <2>4. g = Body(g, n + 1)
    <3>1. g = [i \in 0..(n + 1) |-> g[i]]
      OBVIOUS
    <3>2. Body(g, n + 1) = [i \in 0..(n + 1) |-> Body(g, n + 1)[i]]
      OBVIOUS
    <3> HIDE DEF g, Body
    <3> QED
      BY <2>3, <3>1, <3>2
  <2> HIDE DEF g, Body
  <2> QED
    BY <2>4
<1>3. Len(t) \in S
  <2> HIDE DEF S
  <2> QED
    BY <1>1, <1>2, Induction
<1> DEFINE f == CHOOSE f : f = Body(f, Len(t))
<1>4. f = Body(f, Len(t))
  BY <1>3
<1>5. ParseLines(t, event) = f[Len(t)]
  BY DEF ParseLines
<1> HIDE DEF f
<1>6. IsParse(f, t, event)
  <2>1. \A i \in 0..Len(t) :
          f[i] = IF i = 0 THEN event
                 ELSE IF t[i] = NewLine THEN ParseLine(LineBefore(t, i), f[i - 1])
                 ELSE f[i - 1]
    BY <1>4
  <2>2. f[0] = event
    BY <2>1
  <2>3. ASSUME NEW i \in 1..Len(t)
        PROVE  f[i] = IF t[i] = NewLine THEN ParseLine(LineBefore(t, i), f[i - 1])
                      ELSE f[i - 1]
    <3>1. i \in 0..Len(t) /\ i # 0
      OBVIOUS
    <3> QED
      BY <2>1, <3>1, Zenon
  <2> QED
    BY <2>2, <2>3, Zenon DEF IsParse
<1> QED
  BY <1>5, <1>6

\* The texts.
Text == Seq(Words)

\* Positions of a concatenation.
LEMMA ConcatAt ==
  ASSUME NEW S, NEW s \in Seq(S), NEW t \in Seq(S)
  PROVE  /\ s \o t \in Seq(S) /\ Len(s) \in Nat /\ Len(t) \in Nat
         /\ Len(s \o t) = Len(s) + Len(t)
         /\ \A i \in 1..Len(s) : (s \o t)[i] = s[i]
         /\ \A i \in 1..Len(t) : (s \o t)[Len(s) + i] = t[i]
<1>1. Len(s) \in Nat /\ Len(t) \in Nat
  BY LenProperties
<1>2. /\ s \o t \in Seq(S) /\ Len(s \o t) = Len(s) + Len(t)
      /\ \A i \in 1..(Len(s) + Len(t)) :
           (s \o t)[i] = IF i <= Len(s) THEN s[i] ELSE t[i - Len(s)]
  BY ConcatProperties
<1>3. \A i \in 1..Len(t) : Len(s) + i - Len(s) = i
  BY <1>1
<1> QED
  BY <1>1, <1>2, <1>3

\* The same for texts.
LEMMA TextConcat ==
  ASSUME NEW s \in Text, NEW t \in Text
  PROVE  /\ s \o t \in Text /\ Len(s) \in Nat /\ Len(t) \in Nat
         /\ Len(s \o t) = Len(s) + Len(t)
         /\ \A i \in 1..Len(s) : (s \o t)[i] = s[i]
         /\ \A i \in 1..Len(t) : (s \o t)[Len(s) + i] = t[i]
BY ConcatAt DEF Text

\* Nothing that ends a line.
Unbroken(w) == \A i \in 1..Len(w) : w[i] # NewLine /\ w[i] # Return

\* Whole lines.
Ended(s) == s # <<>> => s[Len(s)] = NewLine

\* Position b is the last newline before position i, or 0.
IsStart(t, b, i) ==
  /\ b \in 0..(i - 1) /\ (b = 0 \/ t[b] = NewLine)
  /\ \A j \in (b + 1)..(i - 1) : t[j] # NewLine

\* Where the line that ends before a position starts.
LEMMA StartExists ==
  ASSUME NEW t, NEW i \in Nat \ {0}
  PROVE  \E b : IsStart(t, b, i)
<1> DEFINE S == {n \in Nat : \E b : IsStart(t, b, n + 1)}
<1>1. 0 \in S
  <2>1. IsStart(t, 0, 0 + 1)
    BY DEF IsStart
  <2> QED
    BY <2>1
<1>2. ASSUME NEW n \in Nat, n \in S PROVE n + 1 \in S
  <2>1. PICK b : IsStart(t, b, n + 1)
    BY <1>2
  <2>2. CASE t[n + 1] = NewLine
    <3>1. IsStart(t, n + 1, n + 1 + 1)
      BY <2>2 DEF IsStart
    <3> QED
      BY <3>1
  <2>3. CASE t[n + 1] # NewLine
    <3>1. IsStart(t, b, n + 1 + 1)
      BY <2>1, <2>3 DEF IsStart
    <3> QED
      BY <3>1
  <2> QED
    BY <2>2, <2>3
<1> HIDE DEF S
<1>3. i - 1 \in S
  BY <1>1, <1>2, Induction
<1> QED
  BY <1>3 DEF S

\* LineBefore in terms of that start.
LEMMA LineIs ==
  ASSUME NEW t, NEW i \in Nat \ {0}, NEW b, IsStart(t, b, i)
  PROVE  LineBefore(t, i) =
           SubSeq(t, b + 1, IF b + 1 < i /\ t[i - 1] = Return THEN i - 2 ELSE i - 1)
<1> DEFINE start == CHOOSE s \in 0..(i - 1) :
                 /\ s = 0 \/ t[s] = NewLine
                 /\ \A j \in (s + 1)..(i - 1) : t[j] # NewLine
<1>1. IsStart(t, start, i)
  BY DEF IsStart
<1>2. LineBefore(t, i) =
       SubSeq(t, start + 1, IF start + 1 < i /\ t[i - 1] = Return THEN i - 2 ELSE i - 1)
  BY Zenon DEF LineBefore
<1> HIDE DEF start
<1>3. start = b
  BY <1>1 DEF IsStart
<1> QED
  BY <1>2, <1>3

\* A line within the first of two texts.
LEMMA LineInFirst ==
  ASSUME NEW s \in Text, NEW t \in Text, NEW i \in 1..Len(s)
  PROVE  LineBefore(s \o t, i) = LineBefore(s, i)
<1>1. i \in Nat \ {0} /\ Len(s) \in Nat
  BY LenProperties DEF Text
<1>2. PICK b : IsStart(s, b, i)
  BY <1>1, StartExists
<1> DEFINE u == s \o t
<1>3. \A j \in 1..Len(s) : u[j] = s[j]
  BY ConcatAt DEF Text
<1>4. /\ \A m, n \in 1..Len(s) : SubSeq(u, m, n) = SubSeq(s, m, n)
      /\ \A m, n \in Int : n < m => SubSeq(u, m, n) = <<>> /\ SubSeq(s, m, n) = <<>>
  BY SubSeqOfConcat1, SubSeqEmpty DEF Text
<1> HIDE DEF u
<1>5. IsStart(u, b, i)
  BY <1>1, <1>2, <1>3 DEF IsStart
<1> DEFINE e == IF b + 1 < i /\ s[i - 1] = Return THEN i - 2 ELSE i - 1
<1>6. b \in 0..(i - 1)
  BY <1>2 DEF IsStart
<1>7. b + 1 < i => u[i - 1] = s[i - 1]
  BY <1>1, <1>3, <1>6
<1>8. LineBefore(u, i) = SubSeq(u, b + 1, e) /\ LineBefore(s, i) = SubSeq(s, b + 1, e)
  BY <1>1, <1>2, <1>5, <1>7, LineIs
<1>9. e \in Int /\ e < i /\ (e < b + 1 \/ (b + 1 \in 1..Len(s) /\ e \in 1..Len(s)))
  BY <1>1, <1>6
<1> HIDE DEF e
<1>10. SubSeq(u, b + 1, e) = SubSeq(s, b + 1, e)
  BY <1>4, <1>6, <1>9
<1> QED
  BY <1>8, <1>10 DEF u

\* And within the second, if the first has whole lines.
LEMMA LineInSecond ==
  ASSUME NEW s \in Text, NEW t \in Text, Ended(s), NEW i \in 1..Len(t)
  PROVE  LineBefore(s \o t, Len(s) + i) = LineBefore(t, i)
<1>1. i \in Nat \ {0} /\ Len(s) \in Nat /\ Len(t) \in Nat
  BY LenProperties DEF Text
<1>2. PICK b : IsStart(t, b, i)
  BY <1>1, StartExists
<1> DEFINE u == s \o t
<1>3. /\ \A j \in 1..Len(s) : u[j] = s[j]
      /\ \A j \in 1..Len(t) : u[Len(s) + j] = t[j]
  BY ConcatAt DEF Text
<1>4. Len(s) = 0 \/ s[Len(s)] = NewLine
  BY EmptySeq DEF Ended, Text
<1>5. PICK n \in Nat : Len(s) = n
  BY <1>1
<1>6. PICK m \in Nat : Len(t) = m
  BY <1>1
<1>7. /\ \A k, l \in (n + 1)..(n + m) : SubSeq(u, k, l) = SubSeq(t, k - n, l - n)
      /\ \A k, l \in Int : l < k => SubSeq(u, k, l) = <<>> /\ SubSeq(t, k, l) = <<>>
  BY <1>5, <1>6, SubSeqOfConcat2, SubSeqEmpty DEF Text
<1> HIDE DEF u
<1>8. b \in 0..(i - 1) /\ i \in 1..m
  BY <1>2, <1>6 DEF IsStart
<1>9. IsStart(u, n + b, n + i)
  <2>1. n + b = 0 \/ u[n + b] = NewLine
    <3>1. CASE b = 0
      BY <1>3, <1>4, <1>5, <3>1
    <3>2. CASE b # 0
      <4>1. t[b] = NewLine /\ b \in 1..m
        BY <1>2, <1>8, <3>2 DEF IsStart
      <4> QED
        BY <1>3, <1>5, <1>6, <4>1
    <3> QED
      BY <3>1, <3>2
  <2>2. ASSUME NEW j \in (n + b + 1)..(n + i - 1) PROVE u[j] # NewLine
    <3>1. j - n \in (b + 1)..(i - 1) /\ j - n \in 1..m /\ j = n + (j - n)
      BY <1>8
    <3>2. u[n + (j - n)] = t[j - n]
      BY <1>3, <1>5, <1>6, <3>1
    <3> QED
      BY <1>2, <3>1, <3>2 DEF IsStart
  <2> QED
    BY <1>8, <2>1, <2>2 DEF IsStart
<1> DEFINE e == IF b + 1 < i /\ t[i - 1] = Return THEN i - 2 ELSE i - 1
<1>10. b + 1 < i => u[n + i - 1] = t[i - 1]
  <2>1. b + 1 < i => i - 1 \in 1..m /\ n + i - 1 = n + (i - 1)
    BY <1>8
  <2> QED
    BY <1>3, <1>5, <1>6, <2>1
<1>11. LineBefore(t, i) = SubSeq(t, b + 1, e)
  BY <1>1, <1>2, LineIs
<1>12. LineBefore(u, n + i) = SubSeq(u, n + b + 1, n + e)
  <2>1. n + i \in Nat \ {0}
    BY <1>1
  <2>2. LineBefore(u, n + i) = SubSeq(u, n + b + 1,
           IF n + b + 1 < n + i /\ u[n + i - 1] = Return THEN n + i - 2 ELSE n + i - 1)
    BY <1>9, <2>1, LineIs
  <2>3. (n + b + 1 < n + i <=> b + 1 < i) /\ n + (i - 2) = n + i - 2 /\ n + (i - 1) = n + i - 1
    BY <1>1, <1>8
  <2> QED
    BY <1>10, <2>2, <2>3
<1>13. e \in Int /\ (e < b + 1 \/ (b + 1 \in 1..m /\ e \in 1..m))
  BY <1>8
<1> HIDE DEF e
<1>14. SubSeq(u, n + b + 1, n + e) = SubSeq(t, b + 1, e)
  <2>1. CASE e < b + 1
    BY <1>7, <1>8, <1>13, <2>1
  <2>2. CASE ~(e < b + 1)
    <3>1. PICK k \in (n + 1)..(n + m), l \in (n + 1)..(n + m) :
            k = n + b + 1 /\ l = n + e
      BY <1>8, <1>13, <2>2
    <3>2. SubSeq(u, k, l) = SubSeq(t, k - n, l - n)
      BY <1>7
    <3>3. k - n = b + 1 /\ l - n = e
      BY <1>8, <1>13, <3>1
    <3> QED
      BY <3>1, <3>2, <3>3
  <2> QED
    BY <2>1, <2>2
<1>15. LineBefore(u, n + i) = LineBefore(t, i)
  BY <1>11, <1>12, <1>14, Zenon
<1>16. LineBefore(u, Len(s) + i) = LineBefore(t, i)
  BY <1>5, <1>15
<1> QED
  BY <1>16 DEF u

\* A text is parsed line by line, wherever it is cut between two lines.
LEMMA ParseConcat ==
  ASSUME NEW s \in Text, NEW t \in Text, Ended(s), NEW event
  PROVE  ParseLines(s \o t, event) = ParseLines(t, ParseLines(s, event))
<1> DEFINE u == s \o t
<1>1. /\ Len(s) \in Nat /\ Len(t) \in Nat /\ Len(u) = Len(s) + Len(t)
      /\ \A i \in 1..Len(s) : u[i] = s[i]
      /\ \A i \in 1..Len(t) : u[Len(s) + i] = t[i]
  BY ConcatAt DEF Text
<1>2. /\ \A i \in 1..Len(s) : LineBefore(u, i) = LineBefore(s, i)
      /\ \A i \in 1..Len(t) : LineBefore(u, Len(s) + i) = LineBefore(t, i)
  BY LineInFirst, LineInSecond
<1> HIDE DEF u
<1>3. PICK n \in Nat, m \in Nat : Len(s) = n /\ Len(t) = m
  BY <1>1
<1>4. PICK f : IsParse(f, u, event) /\ ParseLines(u, event) = f[n + m]
  <2>1. Len(u) = n + m /\ Len(u) \in Nat
    BY <1>1, <1>3
  <2>2. PICK f : IsParse(f, u, event) /\ ParseLines(u, event) = f[Len(u)]
    BY <2>1, ParseExists
  <2>3. ParseLines(u, event) = f[n + m]
    BY <2>1, <2>2
  <2> QED
    BY <2>2, <2>3
<1>5. PICK g : IsParse(g, s, event) /\ ParseLines(s, event) = g[n]
  BY <1>1, <1>3, ParseExists
<1>6. PICK h : IsParse(h, t, g[n]) /\ ParseLines(t, g[n]) = h[m]
  BY <1>1, <1>3, ParseExists
<1>7. \A i \in Nat : i <= n => f[i] = g[i]
  <2> DEFINE S == {i \in Nat : i <= n => f[i] = g[i]}
  <2>1. 0 \in S
    BY <1>4, <1>5 DEF IsParse
  <2>2. ASSUME NEW i \in Nat, i \in S PROVE i + 1 \in S
    <3>1. SUFFICES ASSUME i + 1 <= n PROVE f[i + 1] = g[i + 1]
      OBVIOUS
    <3>2. i + 1 \in 1..n /\ i + 1 \in 1..(n + m) /\ i + 1 - 1 = i /\ f[i] = g[i]
      BY <2>2, <3>1
    <3>3. /\ f[i + 1] = IF u[i + 1] = NewLine THEN ParseLine(LineBefore(u, i + 1), f[i])
                        ELSE f[i]
          /\ g[i + 1] = IF s[i + 1] = NewLine THEN ParseLine(LineBefore(s, i + 1), g[i])
                        ELSE g[i]
      BY <1>1, <1>3, <1>4, <1>5, <3>2 DEF IsParse
    <3> QED
      BY <1>1, <1>2, <1>3, <3>2, <3>3
  <2> HIDE DEF S
  <2>3. \A i \in Nat : i \in S
    BY <2>1, <2>2, Induction
  <2> QED
    BY <2>3 DEF S
<1>8. \A i \in Nat : i <= m => f[n + i] = h[i]
  <2> DEFINE S == {i \in Nat : i <= m => f[n + i] = h[i]}
  <2>1. 0 \in S
    BY <1>6, <1>7 DEF IsParse
  <2>2. ASSUME NEW i \in Nat, i \in S PROVE i + 1 \in S
    <3>1. SUFFICES ASSUME i + 1 <= m PROVE f[n + (i + 1)] = h[i + 1]
      OBVIOUS
    <3>2. /\ i + 1 \in 1..m /\ n + (i + 1) \in 1..(n + m)
          /\ i + 1 - 1 = i /\ n + (i + 1) - 1 = n + i /\ f[n + i] = h[i]
      BY <2>2, <3>1
    <3>3. /\ f[n + (i + 1)] = IF u[n + (i + 1)] = NewLine
                              THEN ParseLine(LineBefore(u, n + (i + 1)), f[n + i])
                              ELSE f[n + i]
          /\ h[i + 1] = IF t[i + 1] = NewLine THEN ParseLine(LineBefore(t, i + 1), h[i])
                        ELSE h[i]
      BY <1>1, <1>3, <1>4, <1>6, <3>2 DEF IsParse
    <3> QED
      BY <1>1, <1>2, <1>3, <3>2, <3>3
  <2> HIDE DEF S
  <2>3. \A i \in Nat : i \in S
    BY <2>1, <2>2, Induction
  <2> QED
    BY <2>3 DEF S
<1>9. ParseLines(u, event) = ParseLines(t, ParseLines(s, event))
  BY <1>4, <1>5, <1>6, <1>8
<1> QED
  BY <1>9 DEF u

\* A single line.
LEMMA ParseOne ==
  ASSUME NEW w \in Text, Unbroken(w), NEW event
  PROVE  ParseLines(w \o <<NewLine>>, event) = ParseLine(w, event)
<1> DEFINE u == w \o <<NewLine>>
<1>1. NewLine \in Words
  BY WordAssumption DEF Separators
<1>2. <<NewLine>> \in Text /\ Len(<<NewLine>>) = 1
  BY <1>1 DEF Text
<1>3. /\ Len(w) \in Nat /\ Len(u) = Len(w) + 1
      /\ \A i \in 1..Len(w) : u[i] = w[i]
      /\ u[Len(w) + 1] = NewLine
  BY <1>2, ConcatAt DEF Text
<1>4. SubSeq(u, 1, Len(w)) = w
  <2>1. CASE Len(w) = 0
    BY <1>3, <2>1, SubSeqEmpty, EmptySeq DEF Text
  <2>2. CASE Len(w) # 0
    <3>1. SubSeq(u, 1, Len(w)) = SubSeq(w, 1, Len(w))
      BY <1>2, <1>3, <2>2, SubSeqOfConcat1 DEF Text
    <3> QED
      BY <3>1, SubSeqFull DEF Text
  <2> QED
    BY <2>1, <2>2
<1> HIDE DEF u
<1>5. PICK n \in Nat : Len(w) = n
  BY <1>3
<1>6. PICK f : IsParse(f, u, event) /\ ParseLines(u, event) = f[n + 1]
  BY <1>3, <1>5, ParseExists
<1>7. \A i \in Nat : i <= n => f[i] = event
  <2> DEFINE S == {i \in Nat : i <= n => f[i] = event}
  <2>1. 0 \in S
    BY <1>6 DEF IsParse
  <2>2. ASSUME NEW i \in Nat, i \in S PROVE i + 1 \in S
    <3>1. SUFFICES ASSUME i + 1 <= n PROVE f[i + 1] = event
      OBVIOUS
    <3>2. i + 1 \in 1..n /\ i + 1 \in 1..(n + 1) /\ i + 1 - 1 = i /\ f[i] = event
      BY <2>2, <3>1
    <3>3. u[i + 1] # NewLine
      BY <1>3, <1>5, <3>2 DEF Unbroken
    <3> QED
      BY <1>3, <1>5, <1>6, <3>2, <3>3 DEF IsParse
  <2> HIDE DEF S
  <2>3. \A i \in Nat : i \in S
    BY <2>1, <2>2, Induction
  <2> QED
    BY <2>3 DEF S
<1>8. LineBefore(u, n + 1) = w
  <2> DEFINE k == n + 1
  <2>1. IsStart(u, 0, k)
    BY <1>3, <1>5 DEF IsStart, Unbroken
  <2>2. 1 < k => u[k - 1] # Return
    BY <1>3, <1>5 DEF Unbroken
  <2>3. k \in Nat \ {0} /\ k - 1 = n
    OBVIOUS
  <2> HIDE DEF k
  <2>4. PICK b : b = 0
    OBVIOUS
  <2>5. LineBefore(u, k) =
          SubSeq(u, b + 1, IF b + 1 < k /\ u[k - 1] = Return THEN k - 2 ELSE k - 1)
    BY <2>1, <2>3, <2>4, LineIs
  <2>6. LineBefore(u, k) = SubSeq(u, 1, n)
    BY <2>2, <2>3, <2>4, <2>5
  <2> QED
    BY <1>4, <1>5, <2>6 DEF k
<1>9. f[n + 1] = ParseLine(w, event)
  BY <1>3, <1>5, <1>6, <1>7, <1>8 DEF IsParse
<1> QED
  BY <1>6, <1>9 DEF u

\* No line at all.
LEMMA ParseNothing == \A event : ParseLines(<<>>, event) = event
<1> SUFFICES ASSUME NEW event PROVE ParseLines(<<>>, event) = event
  OBVIOUS
<1>1. Len(<<>>) = 0
  BY EmptySeq
<1>2. PICK f : IsParse(f, <<>>, event) /\ ParseLines(<<>>, event) = f[0]
  BY <1>1, ParseExists
<1> QED
  BY <1>2 DEF IsParse

-----------------------------------------------------------------------------
(* A line is read as it was written.                                       *)

\* The tokens are words, and differ.
LEMMA Tokens ==
  /\ NewLine \in Words /\ Return \in Words /\ Colon \in Words /\ Space \in Words
  /\ FieldSet \subseteq Words /\ Numerals \subseteq Words
  /\ Colon # NewLine /\ Colon # Return /\ Space # NewLine /\ Space # Return
  /\ NewLine # Return
  /\ \A f \in FieldSet : f # NewLine /\ f # Return /\ f # Colon
BY WordAssumption DEF Separators, NewLine, Return, Colon, Space, FieldSet

\* A text of one token.
LEMMA OneToken ==
  ASSUME NEW x \in Words
  PROVE  <<x>> \in Text /\ Len(<<x>>) = 1 /\ <<x>>[1] = x
BY DEF Text

\* The start of a line of a field.
LEMMA PromptText ==
  ASSUME NEW f \in FieldSet
  PROVE  /\ Prompt(f) \in Text /\ Len(Prompt(f)) = 3
         /\ Prompt(f)[1] = f /\ Prompt(f)[2] = Colon /\ Prompt(f)[3] = Space
<1>1. f \in Words /\ Colon \in Words /\ Space \in Words
  BY Tokens
<1> QED
  BY <1>1 DEF Prompt, Text

\* Find is the first position, if there is one.
LEMMA FindIs ==
  ASSUME NEW t, Len(t) \in Nat, NEW x, NEW i \in 1..(Len(t) + 1),
         i = Len(t) + 1 \/ t[i] = x, \A j \in 1..(i - 1) : t[j] # x
  PROVE  Find(t, x) = i
<1> DEFINE c == CHOOSE c \in 1..(Len(t) + 1) :
                  /\ c = Len(t) + 1 \/ t[c] = x
                  /\ \A j \in 1..(c - 1) : t[j] # x
<1>1. /\ c \in 1..(Len(t) + 1) /\ (c = Len(t) + 1 \/ t[c] = x)
      /\ \A j \in 1..(c - 1) : t[j] # x
  OBVIOUS
<1>2. Find(t, x) = c
  BY DEF Find
<1> HIDE DEF c
<1>3. c = i
  BY <1>1
<1> QED
  BY <1>2, <1>3

\* A line of a field is read as it was written.
LEMMA FieldRead ==
  ASSUME NEW f \in FieldSet, NEW v \in Text
  PROVE  FieldOf(Prompt(f) \o v) = <<f>> /\ ValueOf(Prompt(f) \o v) = v
<1> DEFINE w == Prompt(f) \o v
<1>1. /\ w \in Text /\ Len(v) \in Nat /\ Len(w) = Len(v) + 3
      /\ w[1] = f /\ w[2] = Colon /\ w[3] = Space
      /\ \A i \in 1..Len(v) : w[3 + i] = v[i]
  <2>1. /\ Prompt(f) \in Seq(Words) /\ v \in Seq(Words) /\ Len(Prompt(f)) = 3
        /\ Prompt(f)[1] = f /\ Prompt(f)[2] = Colon /\ Prompt(f)[3] = Space
    BY PromptText DEF Text
  <2>2. PICK p \in Seq(Words) : p = Prompt(f)
    BY <2>1
  <2> DEFINE q == p \o v
  <2>3. /\ q \in Seq(Words) /\ Len(v) \in Nat /\ Len(q) = Len(p) + Len(v)
        /\ \A i \in 1..Len(p) : q[i] = p[i]
        /\ \A i \in 1..Len(v) : q[Len(p) + i] = v[i]
    BY <2>1, ConcatAt
  <2>4. w = q /\ Len(p) = 3
    BY <2>1, <2>2
  <2> HIDE DEF w, q
  <2>5. 1 \in 1..Len(p) /\ 2 \in 1..Len(p) /\ 3 \in 1..Len(p)
    BY <2>4
  <2>6. w[1] = p[1] /\ w[2] = p[2] /\ w[3] = p[3]
    BY <2>3, <2>4, <2>5
  <2>7. \A i \in 1..Len(v) : w[3 + i] = v[i]
    BY <2>3, <2>4
  <2>8. w \in Text /\ Len(v) \in Nat
    BY <2>3, <2>4 DEF Text
  <2>9. Len(w) = Len(v) + 3
    BY <2>3, <2>4
  <2>10. w[1] = f /\ w[2] = Colon /\ w[3] = Space
    BY <2>1, <2>2, <2>6
  <2> QED
    BY <2>7, <2>8, <2>9, <2>10
<1> HIDE DEF w
<1>2. Find(w, Colon) = 2
  <2>1. f # Colon
    BY Tokens
  <2>2. Len(w) \in Nat /\ 2 \in 1..(Len(w) + 1) /\ w[2] = Colon
    BY <1>1
  <2>3. \A j \in 1..(2 - 1) : w[j] # Colon
    BY <1>1, <2>1
  <2> QED
    BY <2>2, <2>3, FindIs
<1>3. FieldOf(w) = <<f>>
  <2>1. FieldOf(w) = SubSeq(w, 1, 1)
    BY <1>2 DEF FieldOf
  <2>2. f \in Words /\ \A i \in 1..1 : w[i] \in Words
    BY <1>1, Tokens
  <2>3. /\ SubSeq(w, 1, 1) \in Seq(Words) /\ Len(SubSeq(w, 1, 1)) = 1
        /\ SubSeq(w, 1, 1)[1] = w[1]
    BY <2>2, SubSeqProperties
  <2>4. <<f>> \in Seq(Words) /\ Len(<<f>>) = 1 /\ <<f>>[1] = f
    BY <2>2
  <2> DEFINE a == SubSeq(w, 1, 1)
           b == <<f>>
  <2>5. a \in Seq(Words) /\ b \in Seq(Words) /\ Len(a) = 1 /\ Len(b) = 1 /\ a[1] = b[1]
    BY <1>1, <2>3, <2>4
  <2> HIDE DEF a, b
  <2>6. \A i \in 1..Len(a) : a[i] = b[i]
    BY <2>5
  <2>7. a = b
    BY <2>5, <2>6, SeqEqual
  <2> QED
    BY <2>1, <2>7 DEF a, b
<1>4. ValueOf(w) = v
  <2> DEFINE value == SubSeq(w, 3, Len(w))
  <2>1. PICK n \in Nat : Len(v) = n /\ Len(w) = n + 3
    BY <1>1
  <2>2. \A i \in 3..Len(w) : w[i] \in Words
    BY <1>1, <2>1, ElementOfSeq DEF Text
  <2>3. /\ value \in Seq(Words) /\ Len(value) = n + 1
        /\ \A i \in 1..(n + 1) : value[i] = w[3 + i - 1]
    BY <2>1, <2>2, SubSeqProperties
  <2>5. ValueOf(w) = IF value # <<>> /\ Head(value) = Space THEN Tail(value) ELSE value
    <3>1. Len(FieldOf(w)) + 2 = 3
      BY <1>3
    <3> QED
      BY <3>1 DEF ValueOf
  <2> HIDE DEF value
  <2>4. value # <<>>
    BY <2>3, EmptySeq
  <2>6. Head(value) = Space
    <3>1. Head(value) = value[1]
      BY <2>3, <2>4
    <3>2. value[1] = w[3]
      BY <2>3
    <3> QED
      BY <1>1, <3>1, <3>2
  <2>7. Tail(value) \in Seq(Words) /\ Len(Tail(value)) = n
    BY <2>3, <2>4, HeadTailProperties
  <2>8. ASSUME NEW i \in 1..n PROVE Tail(value)[i] = v[i]
    <3>1. Tail(value)[i] = value[i + 1]
      BY <2>3, <2>4, <2>7, HeadTailProperties
    <3>2. value[i + 1] = w[3 + i]
      BY <2>3
    <3> QED
      BY <1>1, <2>1, <3>1, <3>2
  <2>9. Tail(value) = v
    BY <2>1, <2>7, <2>8, SeqEqual DEF Text
  <2> QED
    BY <2>4, <2>5, <2>6, <2>9
<1> QED
  BY <1>3, <1>4 DEF w

\* And sets the field.
LEMMA FieldParsed ==
  ASSUME NEW f \in FieldSet, NEW v \in Text, Accepts(f, v), NEW event
  PROVE  ParseLine(Prompt(f) \o v, event) = With(event, f, v)
<1> DEFINE w == Prompt(f) \o v
<1>1. FieldOf(w) = <<f>> /\ ValueOf(w) = v
  BY FieldRead
<1> HIDE DEF w
<1>2. Len(<<f>>) = 1 /\ <<f>>[1] = f
  OBVIOUS
<1>3. ParseLine(w, event) = With(event, f, v)
  BY <1>1, <1>2, Zenon DEF ParseLine
<1> QED
  BY <1>3 DEF w

\* A line without a name before its colon, and an empty one, say nothing.
LEMMA Nameless ==
  ASSUME NEW event
  PROVE  ParseLine(<<>>, event) = event /\ ParseLine(<<Colon>>, event) = event
<1>1. ASSUME NEW w, Len(w) \in Nat, Find(w, Colon) = 1
      PROVE  ParseLine(w, event) = event
  <2>1. FieldOf(w) = <<>>
    BY <1>1, SubSeqEmpty DEF FieldOf
  <2>2. Len(FieldOf(w)) # 1
    BY <2>1, EmptySeq
  <2> QED
    BY <2>2, Zenon DEF ParseLine
<1>2. Len(<<>>) = 0
  BY EmptySeq
<1>3. Find(<<>>, Colon) = 1
  BY <1>2, FindIs
<1>4. Len(<<Colon>>) = 1 /\ <<Colon>>[1] = Colon
  OBVIOUS
<1>5. Find(<<Colon>>, Colon) = 1
  BY <1>4, FindIs
<1> QED
  BY <1>1, <1>2, <1>3, <1>4, <1>5

\* Texts of two and three tokens.
LEMMA Short ==
  ASSUME NEW x \in Words, NEW y \in Words, NEW z \in Words
  PROVE  <<x>> \o <<y>> = <<x, y>> /\ <<x, y>> \o <<z>> = <<x, y, z>>
<1>1. ASSUME NEW s \in Seq(Words), NEW t \in Seq(Words), NEW e \in Words,
             Len(t) = Len(s) + 1, t[Len(s) + 1] = e, \A i \in 1..Len(s) : t[i] = s[i]
      PROVE  s \o <<e>> = t
  <2>1. Append(s, e) = s \o <<e>>
    BY AppendIsConcat
  <2> DEFINE a == Append(s, e)
  <2>2. /\ a \in Seq(Words) /\ Len(s) \in Nat /\ Len(a) = Len(s) + 1
        /\ \A i \in 1..Len(s) : a[i] = s[i]
        /\ a[Len(s) + 1] = e
    BY AppendProperties, LenProperties
  <2> HIDE DEF a
  <2>3. \A i \in 1..Len(a) : a[i] = t[i]
    BY <1>1, <2>2
  <2>4. a = t
    BY <1>1, <2>2, <2>3, SeqEqual
  <2> QED
    BY <2>1, <2>4 DEF a
<1>2. /\ <<x>> \in Seq(Words) /\ Len(<<x>>) = 1 /\ <<x>>[1] = x
      /\ <<x, y>> \in Seq(Words) /\ Len(<<x, y>>) = 2 /\ <<x, y>>[1] = x /\ <<x, y>>[2] = y
      /\ <<x, y, z>> \in Seq(Words) /\ Len(<<x, y, z>>) = 3
      /\ <<x, y, z>>[1] = x /\ <<x, y, z>>[2] = y /\ <<x, y, z>>[3] = z
  OBVIOUS
<1>3. <<x>> \o <<y>> = <<x, y>>
  <2> DEFINE s == <<x>>
             t == <<x, y>>
  <2>1. /\ s \in Seq(Words) /\ t \in Seq(Words) /\ Len(s) = 1 /\ Len(t) = 2
        /\ s[1] = x /\ t[1] = x /\ t[2] = y
    BY <1>2
  <2> HIDE DEF s, t
  <2>2. /\ \A i \in 1..Len(s) : t[i] = s[i]
        /\ Len(t) = Len(s) + 1 /\ t[Len(s) + 1] = y
    BY <2>1
  <2>3. s \o <<y>> = t
    BY <1>1, <2>1, <2>2, Zenon
  <2> QED
    BY <2>3 DEF s, t
<1>4. <<x, y>> \o <<z>> = <<x, y, z>>
  <2> DEFINE s == <<x, y>>
             t == <<x, y, z>>
  <2>1. /\ s \in Seq(Words) /\ t \in Seq(Words) /\ Len(s) = 2 /\ Len(t) = 3
        /\ s[1] = x /\ s[2] = y /\ t[1] = x /\ t[2] = y /\ t[3] = z
    BY <1>2
  <2> HIDE DEF s, t
  <2>2. /\ \A i \in 1..Len(s) : t[i] = s[i]
        /\ Len(t) = Len(s) + 1 /\ t[Len(s) + 1] = z
    BY <2>1
  <2>3. s \o <<z>> = t
    BY <1>1, <2>1, <2>2, Zenon
  <2> QED
    BY <2>3 DEF s, t
<1> QED
  BY <1>3, <1>4

\* Neither does a comment.
LEMMA CommentParsed ==
  ASSUME NEW event
  PROVE  /\ ParseLines(<<NewLine>>, event) = event
         /\ ParseLines(<<NewLine, NewLine>>, event) = event
         /\ ParseLines(<<Colon, NewLine, NewLine>>, event) = event
<1>1. /\ <<>> \in Text /\ Unbroken(<<>>)
      /\ <<Colon>> \in Text /\ Unbroken(<<Colon>>)
  BY Tokens DEF Text, Unbroken
<1>2. <<NewLine>> \in Text
  BY Tokens DEF Text
<1>3. \A e : ParseLines(<<NewLine>>, e) = e
  <2>1. <<>> \o <<NewLine>> = <<NewLine>>
    BY <1>2, ConcatEmptySeq DEF Text
  <2> QED
    BY <1>1, <2>1, ParseOne, Nameless
<1>4. <<Colon>> \o <<NewLine>> = <<Colon, NewLine>>
  BY Tokens, Short
<1>5. ParseLines(<<Colon, NewLine>>, event) = event
  BY <1>1, <1>4, ParseOne, Nameless
<1>6. /\ <<NewLine>> \o <<NewLine>> = <<NewLine, NewLine>>
      /\ <<Colon, NewLine>> \o <<NewLine>> = <<Colon, NewLine, NewLine>>
  BY Tokens, Short
<1>7. Ended(<<NewLine>>) /\ Ended(<<Colon, NewLine>>) /\ <<Colon, NewLine>> \in Text
  BY Tokens DEF Ended, Text
<1>8. ParseLines(<<NewLine>> \o <<NewLine>>, event) = event
  <2>1. ParseLines(<<NewLine>> \o <<NewLine>>, event) =
          ParseLines(<<NewLine>>, ParseLines(<<NewLine>>, event))
    BY <1>2, <1>7, ParseConcat, Zenon
  <2> QED
    BY <1>3, <2>1
<1>9. ParseLines(<<Colon, NewLine>> \o <<NewLine>>, event) = event
  <2>1. ParseLines(<<Colon, NewLine>> \o <<NewLine>>, event) =
          ParseLines(<<NewLine>>, ParseLines(<<Colon, NewLine>>, event))
    BY <1>2, <1>7, ParseConcat, Zenon
  <2> QED
    BY <1>3, <1>5, <2>1
<1> QED
  BY <1>3, <1>6, <1>8, <1>9

-----------------------------------------------------------------------------
(* A field of several lines.                                               *)

\* Folded goes through the value from its start.
FoldOf(f, x) == IF x = NewLine THEN <<NewLine>> \o Prompt(f) ELSE <<x>>

IsFold(g, f, v) ==
  g[0] = <<>> /\ \A i \in 1..Len(v) : g[i] = g[i - 1] \o FoldOf(f, v[i])

\* Folded is the last value of its recursive function.
LEMMA FoldExists ==
  ASSUME NEW v, Len(v) \in Nat, NEW f
  PROVE  \E g : IsFold(g, f, v) /\ Folded(f, v) = g[Len(v)]
<1> DEFINE Body(g, n) ==
      [i \in 0..n |-> IF i = 0 THEN <<>> ELSE g[i - 1] \o FoldOf(f, v[i])]
    S == {n \in Nat : \E g : g = Body(g, n)}
<1>1. 0 \in S
  <2> DEFINE g == [i \in 0..0 |-> <<>>]
  <2>1. g = Body(g, 0)
    OBVIOUS
  <2> QED
    BY <2>1
<1>2. ASSUME NEW n \in Nat, n \in S PROVE n + 1 \in S
  <2>1. PICK g : g = Body(g, n)
    BY <1>2
  <2> DEFINE h == [i \in 0..(n + 1) |->
                     IF i <= n THEN g[i] ELSE g[i - 1] \o FoldOf(f, v[i])]
  <2>2. \A i \in 0..n : g[i] = Body(g, n)[i]
    BY <2>1
  <2>3. ASSUME NEW i \in 0..(n + 1) PROVE h[i] = Body(h, n + 1)[i]
    <3>1. CASE i = 0
      BY <2>2, <3>1
    <3>2. CASE i \in 1..n
      <4>1. h[i] = g[i] /\ h[i - 1] = g[i - 1]
        BY <3>2
      <4> QED
        BY <2>2, <3>2, <4>1
    <3>3. CASE i = n + 1
      BY <3>3
    <3> QED
      BY <3>1, <3>2, <3>3
  <2>4. h = Body(h, n + 1)
    <3>1. h = [i \in 0..(n + 1) |-> h[i]]
      OBVIOUS
    <3>2. Body(h, n + 1) = [i \in 0..(n + 1) |-> Body(h, n + 1)[i]]
      OBVIOUS
    <3> HIDE DEF h, Body
    <3> QED
      BY <2>3, <3>1, <3>2
  <2> HIDE DEF h, Body
  <2> QED
    BY <2>4
<1>3. Len(v) \in S
  <2> HIDE DEF S
  <2> QED
    BY <1>1, <1>2, Induction
<1> DEFINE g == CHOOSE g : g = Body(g, Len(v))
<1>4. g = Body(g, Len(v))
  BY <1>3
<1>5. Folded(f, v) = g[Len(v)]
  BY DEF Folded, FoldOf
<1> HIDE DEF g
<1>6. IsFold(g, f, v)
  <2>1. \A i \in 0..Len(v) : g[i] = IF i = 0 THEN <<>> ELSE g[i - 1] \o FoldOf(f, v[i])
    BY <1>4
  <2>2. g[0] = <<>>
    BY <2>1
  <2>3. ASSUME NEW i \in 1..Len(v) PROVE g[i] = g[i - 1] \o FoldOf(f, v[i])
    <3>1. i \in 0..Len(v) /\ i # 0
      OBVIOUS
    <3> QED
      BY <2>1, <3>1, Zenon
  <2> QED
    BY <2>2, <2>3, Zenon DEF IsFold
<1> QED
  BY <1>5, <1>6

\* What a value may hold for a field.
Fits(f, v) ==
  /\ v \in Text /\ \A i \in 1..Len(v) : v[i] # Return /\ (f # "data" => v[i] # NewLine)
  /\ f = "retry" => \E n \in Numerals : v = <<n>>

\* Adding a second value of data to one that has been added.
LEMMA WithTwice ==
  ASSUME NEW event, "data" \notin DOMAIN event, NEW d, NEW w
  PROVE  With(With(event, "data", d), "data", w)
           = With(event, "data", d \o <<NewLine>> \o w)
<1> DEFINE e == With(event, "data", d)
<1>1. e = [g \in DOMAIN event \cup {"data"} |-> IF g # "data" THEN event[g] ELSE d]
  BY DEF With
<1>2. /\ DOMAIN e = DOMAIN event \cup {"data"} /\ e["data"] = d
      /\ \A g \in DOMAIN event : e[g] = event[g]
  BY <1>1
<1> HIDE DEF e
<1>3. With(e, "data", w) =
        [g \in DOMAIN event \cup {"data"} |->
           IF g # "data" THEN event[g] ELSE d \o <<NewLine>> \o w]
  <2>1. DOMAIN e \cup {"data"} = DOMAIN event \cup {"data"}
    BY <1>2
  <2>2. With(e, "data", w) =
        [g \in DOMAIN event \cup {"data"} |->
           IF g # "data" THEN e[g] ELSE e["data"] \o <<NewLine>> \o w]
    BY <1>2, <2>1 DEF With
  <2> QED
    BY <1>2, <2>2
<1>4. With(event, "data", d \o <<NewLine>> \o w) =
        [g \in DOMAIN event \cup {"data"} |->
           IF g # "data" THEN event[g] ELSE d \o <<NewLine>> \o w]
  BY DEF With
<1> QED
  BY <1>3, <1>4 DEF e

\* A token that does not end the line makes it longer.
LEMMA UnbrokenMore ==
  ASSUME NEW w \in Text, Unbroken(w), NEW x \in Words, x # NewLine, x # Return
  PROVE  w \o <<x>> \in Text /\ Unbroken(w \o <<x>>)
<1> DEFINE u == w \o <<x>>
           y == <<x>>
<1>1. y \in Text /\ Len(y) = 1 /\ y[1] = x
  BY OneToken
<1>2. u = w \o y
  OBVIOUS
<1> HIDE DEF y, u
<1>3. /\ u \in Text /\ Len(w) \in Nat /\ Len(u) = Len(w) + Len(y)
      /\ \A i \in 1..Len(w) : u[i] = w[i]
      /\ \A i \in 1..Len(y) : u[Len(w) + i] = y[i]
  BY <1>1, <1>2, TextConcat
<1>4. /\ u \in Text /\ Len(w) \in Nat /\ Len(u) = Len(w) + 1
      /\ \A i \in 1..Len(w) : u[i] = w[i]
      /\ u[Len(w) + 1] = x
  BY <1>1, <1>3
<1> QED
  BY <1>4 DEF u, Unbroken

\* The start of a field before it does so too.
LEMMA UnbrokenLine ==
  ASSUME NEW w \in Text, Unbroken(w), NEW f \in FieldSet
  PROVE  Prompt(f) \o w \in Text /\ Unbroken(Prompt(f) \o w) /\ Len(Prompt(f) \o w) > 0
<1>1. PICK p : p = Prompt(f)
  OBVIOUS
<1>2. p \in Text /\ Len(p) = 3 /\ p[1] = f /\ p[2] = Colon /\ p[3] = Space
  BY <1>1, PromptText
<1> DEFINE u == p \o w
<1>3. /\ u \in Text /\ Len(w) \in Nat /\ Len(u) = Len(p) + Len(w)
      /\ \A i \in 1..Len(p) : u[i] = p[i]
      /\ \A i \in 1..Len(w) : u[Len(p) + i] = w[i]
  BY <1>2, TextConcat
<1> HIDE DEF u
<1>4. ASSUME NEW i \in 1..Len(u) PROVE u[i] # NewLine /\ u[i] # Return
  <2>1. CASE i \in 1..3
    <3>1. u[i] = p[i] /\ (i = 1 \/ i = 2 \/ i = 3)
      BY <1>2, <1>3, <2>1
    <3>2. f # NewLine /\ f # Return
      BY Tokens
    <3> QED
      BY <1>2, <3>1, <3>2, Tokens
  <2>2. CASE i \notin 1..3
    <3>1. i - 3 \in 1..Len(w) /\ i = 3 + (i - 3)
      BY <1>2, <1>3, <2>2
    <3>2. u[i] = w[i - 3]
      BY <1>2, <1>3, <3>1
    <3> QED
      BY <3>1, <3>2 DEF Unbroken
  <2> QED
    BY <2>1, <2>2
<1>5. u \in Text /\ Unbroken(u) /\ Len(u) > 0
  BY <1>2, <1>3, <1>4 DEF Unbroken
<1> QED
  BY <1>1, <1>5 DEF u

\* Whole lines, none of them empty.
Lined(s) ==
  /\ Ended(s) /\ (s # <<>> => s[1] # NewLine)
  /\ \A i \in 2..Len(s) : s[i] # NewLine \/ s[i - 1] # NewLine

\* No line at all.
LEMMA LinedEmpty == <<>> \in Text /\ Ended(<<>>) /\ Lined(<<>>)
<1>1. Len(<<>>) = 0 /\ <<>> \in Text
  BY EmptySeq DEF Text
<1>2. \A i \in 2..0 : FALSE
  OBVIOUS
<1> QED
  BY <1>1, <1>2 DEF Lined, Ended

\* A single line.
LEMMA LinedLine ==
  ASSUME NEW s \in Text, Unbroken(s), Len(s) > 0
  PROVE  /\ s \o <<NewLine>> \in Text /\ Lined(s \o <<NewLine>>)
         /\ Len(s \o <<NewLine>>) = Len(s) + 1
<1> DEFINE y == <<NewLine>>
           u == s \o y
<1>1. y \in Text /\ Len(y) = 1 /\ y[1] = NewLine
  BY OneToken, Tokens
<1> HIDE DEF y
<1>2. /\ u \in Text /\ Len(s) \in Nat /\ Len(u) = Len(s) + Len(y)
      /\ \A i \in 1..Len(s) : u[i] = s[i]
      /\ \A i \in 1..Len(y) : u[Len(s) + i] = y[i]
  BY <1>1, TextConcat
<1> HIDE DEF u
<1>3. u[Len(u)] = NewLine /\ Len(u) = Len(s) + 1
  BY <1>1, <1>2
<1>4. u[1] # NewLine
  BY <1>2 DEF Unbroken
<1>5. ASSUME NEW i \in 2..Len(u) PROVE u[i] # NewLine \/ u[i - 1] # NewLine
  <2>1. i - 1 \in 1..Len(s)
    BY <1>2, <1>3
  <2> QED
    BY <1>2, <2>1 DEF Unbroken
<1>6. u \in Text /\ Lined(u) /\ Len(u) = Len(s) + 1
  BY <1>2, <1>3, <1>4, <1>5 DEF Lined, Ended
<1> QED
  BY <1>6 DEF u, y

\* Lines after lines.
LEMMA LinedConcat ==
  ASSUME NEW s \in Text, NEW t \in Text, Lined(s), Lined(t)
  PROVE  Lined(s \o t)
<1> DEFINE u == s \o t
<1>1. /\ u \in Text /\ Len(s) \in Nat /\ Len(t) \in Nat
      /\ Len(u) = Len(s) + Len(t)
      /\ \A i \in 1..Len(s) : u[i] = s[i]
      /\ \A i \in 1..Len(t) : u[Len(s) + i] = t[i]
  BY TextConcat
<1> HIDE DEF u
<1>2. /\ s # <<>> <=> Len(s) > 0
      /\ t # <<>> <=> Len(t) > 0
      /\ u # <<>> <=> Len(u) > 0
  BY <1>1, EmptySeq DEF Text
<1>3. ASSUME u # <<>> PROVE u[Len(u)] = NewLine /\ u[1] # NewLine
  <2>1. u[Len(u)] = NewLine
    <3>1. CASE Len(t) > 0
      BY <1>1, <1>2, <3>1 DEF Lined, Ended
    <3>2. CASE Len(t) = 0
      BY <1>1, <1>2, <1>3, <3>2 DEF Lined, Ended
    <3> QED
      BY <1>1, <3>1, <3>2
  <2>2. u[1] # NewLine
    <3>1. CASE Len(s) > 0
      BY <1>1, <1>2, <3>1 DEF Lined
    <3>2. CASE Len(s) = 0
      <4>1. 1 \in 1..Len(t) /\ Len(s) + 1 = 1
        BY <1>1, <1>2, <1>3, <3>2
      <4> QED
        BY <1>1, <1>2, <4>1 DEF Lined
    <3> QED
      BY <1>1, <3>1, <3>2
  <2> QED
    BY <2>1, <2>2
<1>4. ASSUME NEW i \in 2..Len(u) PROVE u[i] # NewLine \/ u[i - 1] # NewLine
  <2>1. CASE i <= Len(s)
    <3>1. i \in 2..Len(s) /\ i \in 1..Len(s) /\ i - 1 \in 1..Len(s)
      BY <1>1, <2>1
    <3> QED
      BY <1>1, <3>1 DEF Lined
  <2>2. CASE i = Len(s) + 1
    <3>1. 1 \in 1..Len(t)
      BY <1>1, <2>2
    <3> QED
      BY <1>1, <1>2, <2>2, <3>1 DEF Lined
  <2>3. CASE i > Len(s) + 1
    <3>1. PICK k : k = i - Len(s)
      OBVIOUS
    <3>2. k \in 2..Len(t) /\ k \in 1..Len(t) /\ k - 1 \in 1..Len(t)
          /\ i = Len(s) + k /\ i - 1 = Len(s) + (k - 1)
      BY <1>1, <2>3, <3>1
    <3>3. u[i] = t[k] /\ u[i - 1] = t[k - 1]
      BY <1>1, <3>2
    <3> QED
      BY <3>2, <3>3 DEF Lined
  <2> QED
    BY <1>1, <2>1, <2>2, <2>3
<1>5. Lined(u)
  BY <1>3, <1>4 DEF Lined, Ended
<1> QED
  BY <1>5 DEF u

\* The first i tokens of a value have been written as t: whole lines and one
\* that goes on, which together mean those tokens.
Written(t, f, v, i, event) ==
  \E c \in Text, w \in Text :
    /\ t = c \o (Prompt(f) \o w) /\ Lined(c) /\ Unbroken(w)
    /\ \/ ParseLines(c, event) = event /\ w = SubSeq(v, 1, i)
       \/ /\ f = "data"
          /\ \E d \in Text : /\ ParseLines(c, event) = With(event, "data", d)
                             /\ SubSeq(v, 1, i) = d \o <<NewLine>> \o w

\* Texts may be joined in any order.
LEMMA TextAssociative ==
  ASSUME NEW s \in Text, NEW t \in Text, NEW u \in Text
  PROVE  (s \o t) \o u = s \o (t \o u)
BY ConcatAssociative DEF Text

\* The next token of a value goes on with the line, or starts another one.
LEMMA WrittenNext ==
  ASSUME NEW f \in FieldSet, NEW v, Fits(f, v), NEW event, f \notin DOMAIN event,
         NEW i \in 0..(Len(v) - 1), NEW t, Written(t, f, v, i, event)
  PROVE  Written(t \o FoldOf(f, v[i + 1]), f, v, i + 1, event)
<1>1. /\ v \in Text /\ Len(v) \in Nat /\ i + 1 \in 1..Len(v)
      /\ v[i + 1] \in Words /\ v[i + 1] # Return
      /\ f # "data" => v[i + 1] # NewLine
  <2>1. v \in Text
    BY DEF Fits
  <2>2. Len(v) \in Nat
    BY <2>1, LenProperties DEF Text
  <2>3. i + 1 \in 1..Len(v)
    BY <2>2
  <2>4. v[i + 1] \in Words
    BY <2>1, <2>3, ElementOfSeq DEF Text
  <2> QED
    BY <2>1, <2>2, <2>3, <2>4 DEF Fits
<1>2. PICK x \in Words : x = v[i + 1]
  BY <1>1
<1>3. SubSeq(v, 1, i) \in Text /\ SubSeq(v, 1, i + 1) = SubSeq(v, 1, i) \o <<x>>
  <2>1. 1 \in 1..Len(v) /\ i + 1 \in 1..Len(v) /\ i + 1 - 1 = i
    BY <1>1
  <2>2. SubSeq(v, 1, i + 1) = SubSeq(v, 1, i + 1 - 1) \o <<v[i + 1]>>
    BY <1>1, <2>1, SubSeqRecursiveSecond DEF Text
  <2>3. \A j \in 1..i : v[j] \in Words
    BY <1>1, ElementOfSeq DEF Text
  <2>4. SubSeq(v, 1, i) \in Text
    BY <2>3, SubSeqProperties DEF Text
  <2> QED
    BY <1>2, <2>1, <2>2, <2>4
<1>4. PICK c \in Text, w \in Text :
        /\ t = c \o (Prompt(f) \o w) /\ Lined(c) /\ Unbroken(w)
        /\ \/ ParseLines(c, event) = event /\ w = SubSeq(v, 1, i)
           \/ /\ f = "data"
              /\ \E d \in Text : /\ ParseLines(c, event) = With(event, "data", d)
                                 /\ SubSeq(v, 1, i) = d \o <<NewLine>> \o w
  BY Zenon DEF Written
<1>5. /\ Prompt(f) \in Text /\ <<x>> \in Text /\ <<NewLine>> \in Text
      /\ Prompt(f) \o w \in Text /\ Unbroken(Prompt(f) \o w) /\ Len(Prompt(f) \o w) > 0
  BY <1>4, PromptText, OneToken, Tokens, UnbrokenLine
<1>6. CASE x # NewLine
  <2>1. w \o <<x>> \in Text /\ Unbroken(w \o <<x>>)
    BY <1>1, <1>2, <1>4, <1>6, UnbrokenMore
  <2>2. t \o <<x>> = c \o (Prompt(f) \o (w \o <<x>>))
    <3>1. t \o <<x>> = c \o ((Prompt(f) \o w) \o <<x>>)
      <4>1. PICK q \in Text, y \in Text : q = Prompt(f) \o w /\ y = <<x>>
        BY <1>5
      <4>2. (c \o q) \o y = c \o (q \o y)
        BY TextAssociative, ZenonT(40)
      <4> QED
        BY <1>4, <4>1, <4>2, Zenon
    <3>2. (Prompt(f) \o w) \o <<x>> = Prompt(f) \o (w \o <<x>>)
      <4>1. PICK p \in Text, y \in Text : p = Prompt(f) /\ y = <<x>>
        BY <1>5
      <4>2. (p \o w) \o y = p \o (w \o y)
        BY TextAssociative, ZenonT(40)
      <4> QED
        BY <4>1, <4>2, Zenon
    <3> QED
      BY <3>1, <3>2
  <2>3. ParseLines(c, event) = event /\ w = SubSeq(v, 1, i) =>
          ParseLines(c, event) = event /\ w \o <<x>> = SubSeq(v, 1, i + 1)
    BY <1>3, Zenon
  <2>4. ASSUME NEW d \in Text, SubSeq(v, 1, i) = d \o <<NewLine>> \o w
        PROVE  SubSeq(v, 1, i + 1) = d \o <<NewLine>> \o (w \o <<x>>)
    <3>1. d \o <<NewLine>> \in Text
      BY <1>5, TextConcat
    <3>2. (d \o <<NewLine>> \o w) \o <<x>> = d \o <<NewLine>> \o (w \o <<x>>)
      <4>1. PICK s \in Text, y \in Text : s = d \o <<NewLine>> /\ y = <<x>>
        BY <1>5, <3>1
      <4>2. (s \o w) \o y = s \o (w \o y)
        BY TextAssociative, ZenonT(40)
      <4> QED
        BY <4>1, <4>2, Zenon
    <3> QED
      BY <1>3, <2>4, <3>2, Zenon
  <2>5. FoldOf(f, v[i + 1]) = <<x>>
    BY <1>2, <1>6 DEF FoldOf
  <2>6. \/ ParseLines(c, event) = event /\ w \o <<x>> = SubSeq(v, 1, i + 1)
        \/ /\ f = "data"
           /\ \E d \in Text : /\ ParseLines(c, event) = With(event, "data", d)
                              /\ SubSeq(v, 1, i + 1) = d \o <<NewLine>> \o (w \o <<x>>)
    BY <1>4, <2>3, <2>4, Zenon
  <2>7. Written(t \o <<x>>, f, v, i + 1, event)
    BY <1>4, <2>1, <2>2, <2>6, Zenon DEF Written
  <2> QED
    BY <2>5, <2>7
<1>7. CASE x = NewLine
  <2>1. f = "data"
    BY <1>1, <1>2, <1>7
  <2> DEFINE line == Prompt(f) \o w
             c2 == t \o <<NewLine>>
  <2>9. line \o <<NewLine>> \in Text /\ Lined(line \o <<NewLine>>)
    BY <1>5, LinedLine
  <2>10. c2 = c \o (line \o <<NewLine>>)
    <3>1. PICK q \in Text, y \in Text : q = Prompt(f) \o w /\ y = <<NewLine>>
      BY <1>5
    <3>2. (c \o q) \o y = c \o (q \o y)
      BY TextAssociative, ZenonT(40)
    <3> QED
      BY <1>4, <3>1, <3>2, Zenon
  <2>2. t \in Text /\ c2 \in Text /\ Lined(c2)
    <3>1. t \in Text
      BY <1>4, <1>5, TextConcat
    <3> HIDE DEF c2
    <3>2. c2 \in Text
      BY <1>4, <2>9, <2>10, TextConcat
    <3>3. Lined(c2)
      BY <1>4, <2>9, <2>10, LinedConcat
    <3> QED
      BY <3>1, <3>2, <3>3
  <2>3. <<>> \in Text /\ Unbroken(<<>>)
    BY EmptySeq DEF Text, Unbroken
  <2>4. t \o FoldOf(f, v[i + 1]) = c2 \o (Prompt(f) \o <<>>)
    <3>1. FoldOf(f, v[i + 1]) = <<NewLine>> \o Prompt(f)
      BY <1>2, <1>7 DEF FoldOf
    <3>2. t \o (<<NewLine>> \o Prompt(f)) = (t \o <<NewLine>>) \o Prompt(f)
      <4>1. PICK p \in Text, y \in Text : p = Prompt(f) /\ y = <<NewLine>>
        BY <1>5
      <4> HIDE DEF c2, line
      <4>0. t \in Text
        BY <2>2
      <4>2. t \o (y \o p) = (t \o y) \o p
        BY <4>0, TextAssociative, ZenonT(40)
      <4> QED
        BY <4>1, <4>2, Zenon
    <3>3. Prompt(f) \o <<>> = Prompt(f)
      BY <1>5, ConcatEmptySeq DEF Text
    <3> QED
      BY <3>1, <3>2, <3>3
  <2>5. ParseLines(c2, event) = With(ParseLines(c, event), "data", w)
    <3> HIDE DEF c2
    <3>2. ParseLines(c2, event) = ParseLines(line \o <<NewLine>>, ParseLines(c, event))
      BY <1>4, <2>9, <2>10, ParseConcat DEF Lined
    <3>3. ParseLines(line \o <<NewLine>>, ParseLines(c, event))
            = ParseLine(line, ParseLines(c, event))
      BY <1>5, ParseOne
    <3>4. ParseLine(line, ParseLines(c, event)) = With(ParseLines(c, event), f, w)
      <4>1. Accepts(f, w)
        BY <2>1 DEF Accepts
      <4> QED
        BY <1>4, <4>1, FieldParsed
    <3> QED
      BY <2>1, <3>2, <3>3, <3>4
  <2>6. ParseLines(c2, event) = With(event, "data", SubSeq(v, 1, i))
    <3>1. CASE ParseLines(c, event) = event /\ w = SubSeq(v, 1, i)
      BY <2>5, <3>1
    <3>2. CASE \E d \in Text : /\ ParseLines(c, event) = With(event, "data", d)
                               /\ SubSeq(v, 1, i) = d \o <<NewLine>> \o w
      <4>1. PICK d \in Text : /\ ParseLines(c, event) = With(event, "data", d)
                              /\ SubSeq(v, 1, i) = d \o <<NewLine>> \o w
        BY <3>2
      <4>2. With(With(event, "data", d), "data", w)
              = With(event, "data", d \o <<NewLine>> \o w)
        <5>1. "data" \notin DOMAIN event
          BY <2>1
        <5> QED
          BY <5>1, WithTwice
      <4> QED
        BY <2>5, <4>1, <4>2, Zenon
    <3> QED
      BY <1>4, <3>1, <3>2
  <2>7. SubSeq(v, 1, i + 1) = SubSeq(v, 1, i) \o <<NewLine>> \o <<>>
    <3>1. SubSeq(v, 1, i) \o <<NewLine>> \in Text
      BY <1>3, <1>5, TextConcat
    <3> QED
      BY <1>3, <1>7, <3>1, ConcatEmptySeq DEF Text
  <2> HIDE DEF c2
  <2>8. \E d \in Text : /\ ParseLines(c2, event) = With(event, "data", d)
                        /\ SubSeq(v, 1, i + 1) = d \o <<NewLine>> \o <<>>
    BY <1>3, <2>6, <2>7, Zenon
  <2> QED
    BY <2>1, <2>2, <2>3, <2>4, <2>8, Zenon DEF Written
<1> QED
  BY <1>6, <1>7

\* A field is read as it was written, whatever lines its value has.
LEMMA FieldRoundTrip ==
  ASSUME NEW f \in FieldSet, NEW v, Fits(f, v), NEW event, f \notin DOMAIN event
  PROVE  /\ FieldLine(f, Folded(f, v)) \in Text
         /\ Lined(FieldLine(f, Folded(f, v))) /\ Len(FieldLine(f, Folded(f, v))) > 1
         /\ ParseLines(FieldLine(f, Folded(f, v)), event) = With(event, f, v)
<1>1. v \in Text /\ Len(v) \in Nat
  BY LenProperties DEF Fits, Text
<1>2. PICK g : IsFold(g, f, v) /\ Folded(f, v) = g[Len(v)]
  BY <1>1, FoldExists
<1>3. Prompt(f) \in Text /\ <<>> \in Text /\ <<NewLine>> \in Text
  BY PromptText, EmptySeq, OneToken, Tokens DEF Text
<1> DEFINE S == {i \in Nat : i <= Len(v) => /\ g[i] \in Text
                                            /\ Written(Prompt(f) \o g[i], f, v, i, event)}
<1>4. 0 \in S
  <2>1. g[0] = <<>>
    BY <1>2 DEF IsFold
  <2>2. Prompt(f) \o <<>> = Prompt(f) /\ <<>> \o Prompt(f) = Prompt(f)
    BY <1>3, ConcatEmptySeq DEF Text
  <2>3. SubSeq(v, 1, 0) = <<>>
    BY SubSeqEmpty
  <2>4. /\ Prompt(f) \o g[0] = <<>> \o (Prompt(f) \o <<>>)
        /\ Lined(<<>>) /\ Unbroken(<<>>)
        /\ ParseLines(<<>>, event) = event /\ <<>> = SubSeq(v, 1, 0)
    <3>1. Lined(<<>>)
      BY LinedEmpty
    <3>2. Unbroken(<<>>)
      BY EmptySeq DEF Unbroken
    <3> QED
      BY <2>1, <2>2, <2>3, <3>1, <3>2, ParseNothing
  <2>5. Written(Prompt(f) \o g[0], f, v, 0, event)
    BY <1>3, <2>4, Zenon DEF Written
  <2>6. g[0] \in Text
    BY <1>3, <2>1
  <2> QED
    BY <2>5, <2>6
<1>5. ASSUME NEW i \in Nat, i \in S PROVE i + 1 \in S
  <2>1. SUFFICES ASSUME i + 1 <= Len(v)
                 PROVE  g[i + 1] \in Text /\ Written(Prompt(f) \o g[i + 1], f, v, i + 1, event)
    OBVIOUS
  <2>2. i \in 0..(Len(v) - 1) /\ i + 1 \in 1..Len(v) /\ i + 1 - 1 = i
    BY <1>1, <2>1
  <2>3. g[i] \in Text /\ Written(Prompt(f) \o g[i], f, v, i, event)
    BY <1>5, <2>2
  <2>4. g[i + 1] = g[i] \o FoldOf(f, v[i + 1])
    <3>1. PICK k \in 1..Len(v) : k = i + 1
      BY <2>2
    <3>2. g[k] = g[k - 1] \o FoldOf(f, v[k])
      BY <1>2, Zenon DEF IsFold
    <3>3. k - 1 = i
      BY <2>2, <3>1
    <3> QED
      BY <3>1, <3>2, <3>3, Zenon
  <2>5. FoldOf(f, v[i + 1]) \in Text
    <3>1. v[i + 1] \in Words
      BY <1>1, <2>2, ElementOfSeq DEF Text
    <3>2. <<v[i + 1]>> \in Text /\ <<NewLine>> \o Prompt(f) \in Text
      BY <1>3, <3>1, OneToken, TextConcat
    <3> QED
      BY <3>2 DEF FoldOf
  <2>6. g[i + 1] \in Text
    BY <2>3, <2>4, <2>5, TextConcat
  <2>7. Prompt(f) \o g[i + 1] = (Prompt(f) \o g[i]) \o FoldOf(f, v[i + 1])
    <3>1. PICK p \in Text, y \in Text : p = Prompt(f) /\ y = FoldOf(f, v[i + 1])
      BY <1>3, <2>5
    <3>2. p \o (g[i] \o y) = (p \o g[i]) \o y
      BY <2>3, TextAssociative, ZenonT(40)
    <3> QED
      BY <2>4, <3>1, <3>2, Zenon
  <2>8. Written((Prompt(f) \o g[i]) \o FoldOf(f, v[i + 1]), f, v, i + 1, event)
    BY <2>2, <2>3, WrittenNext
  <2> QED
    BY <2>6, <2>7, <2>8
<1> HIDE DEF S
<1>6. Len(v) \in S
  BY <1>1, <1>4, <1>5, Induction
<1> DEFINE t == Prompt(f) \o Folded(f, v)
<1>7. Folded(f, v) \in Text /\ Written(t, f, v, Len(v), event)
  BY <1>1, <1>2, <1>6 DEF S
<1>8. SubSeq(v, 1, Len(v)) = v
  BY <1>1, SubSeqFull DEF Text
<1>9. PICK c \in Text, w \in Text :
        /\ t = c \o (Prompt(f) \o w) /\ Lined(c) /\ Unbroken(w)
        /\ \/ ParseLines(c, event) = event /\ w = v
           \/ /\ f = "data"
              /\ \E d \in Text : /\ ParseLines(c, event) = With(event, "data", d)
                                 /\ v = d \o <<NewLine>> \o w
  BY <1>7, <1>8, Zenon DEF Written
<1>10. FieldLine(f, Folded(f, v)) = t \o <<NewLine>>
  BY DEF FieldLine
<1>11. t \in Text
  BY <1>3, <1>7, TextConcat
<1> HIDE DEF t
<1> DEFINE line == Prompt(f) \o w
<1>12. line \in Text /\ Unbroken(line) /\ Len(line) > 0
       /\ line \o <<NewLine>> \in Text /\ Lined(line \o <<NewLine>>)
       /\ Len(line \o <<NewLine>>) = Len(line) + 1 /\ Len(line) \in Nat
  <2>1. line \in Text /\ Unbroken(line) /\ Len(line) > 0
    BY <1>9, UnbrokenLine
  <2> HIDE DEF line
  <2>2. Len(line) \in Nat
    BY <2>1, LenProperties DEF Text
  <2> QED
    BY <2>1, <2>2, LinedLine
<1>13. t \o <<NewLine>> = c \o (line \o <<NewLine>>)
  <2>1. PICK q \in Text, y \in Text : q = Prompt(f) \o w /\ y = <<NewLine>>
    BY <1>3, <1>12
  <2>2. (c \o q) \o y = c \o (q \o y)
    BY TextAssociative, ZenonT(40)
  <2> QED
    BY <1>9, <2>1, <2>2, Zenon
<1> HIDE DEF line
<1>14. ParseLines(t \o <<NewLine>>, event) = ParseLine(line, ParseLines(c, event))
  <2>1. ParseLines(c \o (line \o <<NewLine>>), event)
          = ParseLines(line \o <<NewLine>>, ParseLines(c, event))
    BY <1>9, <1>12, ParseConcat DEF Lined
  <2>2. ParseLines(line \o <<NewLine>>, ParseLines(c, event))
          = ParseLine(line, ParseLines(c, event))
    BY <1>12, ParseOne
  <2> QED
    BY <1>13, <2>1, <2>2, Zenon
<1>15. ParseLine(line, ParseLines(c, event)) = With(event, f, v)
  <2>1. CASE ParseLines(c, event) = event /\ w = v
    <3>1. Accepts(f, v)
      <4>1. CASE f = "retry"
        <5>1. PICK n \in Numerals : v = <<n>>
          BY <4>1 DEF Fits
        <5>2. v # <<>> /\ Head(v) = n
          BY <5>1
        <5> QED
          BY <5>2 DEF Accepts
      <4> QED
        BY <4>1 DEF Accepts
    <3>2. ParseLine(line, event) = With(event, f, v)
      BY <1>1, <2>1, <3>1, FieldParsed DEF line
    <3> QED
      BY <2>1, <3>2
  <2>2. CASE /\ f = "data"
             /\ \E d \in Text : /\ ParseLines(c, event) = With(event, "data", d)
                                /\ v = d \o <<NewLine>> \o w
    <3>1. PICK d \in Text : /\ ParseLines(c, event) = With(event, "data", d)
                            /\ v = d \o <<NewLine>> \o w
      BY <2>2
    <3>2. Accepts(f, w)
      BY <2>2 DEF Accepts
    <3>3. ParseLine(line, ParseLines(c, event)) = With(With(event, "data", d), "data", w)
      BY <1>9, <2>2, <3>1, <3>2, FieldParsed DEF line
    <3> QED
      BY <2>2, <3>1, <3>3, WithTwice
  <2> QED
    BY <1>9, <2>1, <2>2
<1>16. /\ t \o <<NewLine>> \in Text /\ Lined(t \o <<NewLine>>)
       /\ Len(t \o <<NewLine>>) > 1
  <2>1. PICK l \in Text : l = line \o <<NewLine>>
    BY <1>12
  <2>2. Lined(l) /\ Len(l) > 1
    BY <1>12, <2>1
  <2>3. /\ c \o l \in Text /\ Lined(c \o l) /\ Len(c) \in Nat
        /\ Len(c \o l) = Len(c) + Len(l) /\ Len(l) \in Nat
    BY <1>9, <2>2, LinedConcat, TextConcat
  <2>4. Len(c \o l) > 1
    BY <2>2, <2>3
  <2> QED
    BY <1>13, <2>1, <2>3, <2>4
<1> QED
  BY <1>10, <1>14, <1>15, <1>16

-----------------------------------------------------------------------------
(* An event.                                                               *)

\* The lines of one field of an event, and an event up to some fields.
FieldText(e, f) == IF f \in DOMAIN e THEN FieldLine(f, Folded(f, e[f])) ELSE <<>>
Only(e, S) == [g \in DOMAIN e \cap S |-> e[g]]

\* The lines of a field add that field.
LEMMA FieldAdded ==
  ASSUME NEW e, WellFormed(e), NEW f \in FieldSet, NEW S, f \notin S
  PROVE  /\ FieldText(e, f) \in Text /\ Lined(FieldText(e, f))
         /\ f \in DOMAIN e => Len(FieldText(e, f)) > 1
         /\ ParseLines(FieldText(e, f), Only(e, S)) = Only(e, S \cup {f})
<1>1. CASE f \notin DOMAIN e
  <2>1. FieldText(e, f) = <<>>
    BY <1>1 DEF FieldText
  <2>2. DOMAIN e \cap S = DOMAIN e \cap (S \cup {f})
    BY <1>1
  <2>3. Only(e, S) = Only(e, S \cup {f})
    BY <2>2, Zenon DEF Only
  <2> QED
    BY <1>1, <2>1, <2>3, LinedEmpty, ParseNothing
<1>2. CASE f \in DOMAIN e
  <2>1. Fits(f, e[f])
    <3>1. e[f] \in Text
      BY <1>2 DEF WellFormed, Text
    <3>2. \A i \in 1..Len(e[f]) : e[f][i] # Return /\ (f # "data" => e[f][i] # NewLine)
      BY <1>2 DEF WellFormed
    <3>3. f = "retry" => \E n \in Numerals : e[f] = <<n>>
      BY <1>2 DEF WellFormed
    <3> QED
      BY <3>1, <3>2, <3>3 DEF Fits
  <2>2. f \notin DOMAIN Only(e, S)
    BY DEF Only
  <2>3. /\ FieldText(e, f) \in Text /\ Lined(FieldText(e, f)) /\ Len(FieldText(e, f)) > 1
        /\ ParseLines(FieldText(e, f), Only(e, S)) = With(Only(e, S), f, e[f])
    BY <1>2, <2>1, <2>2, FieldRoundTrip DEF FieldText
  <2>4. f = "retry" => <<Head(e[f])>> = e[f]
    <3>1. ASSUME f = "retry" PROVE <<Head(e[f])>> = e[f]
      <4>1. PICK n \in Numerals : e[f] = <<n>>
        BY <2>1, <3>1 DEF Fits
      <4> QED
        BY <4>1
    <3> QED
      BY <3>1
  <2>5. With(Only(e, S), f, e[f]) = Only(e, S \cup {f})
    <3>1. With(Only(e, S), f, e[f]) =
            [g \in DOMAIN Only(e, S) \cup {f} |-> IF g # f THEN Only(e, S)[g] ELSE e[f]]
      BY <2>2, <2>4, Zenon DEF With
    <3>2. DOMAIN Only(e, S) \cup {f} = DOMAIN e \cap (S \cup {f})
      BY <1>2 DEF Only
    <3> QED
      BY <3>1, <3>2 DEF Only
  <2> QED
    BY <2>3, <2>5
<1> QED
  BY <1>1, <1>2

\* All fields of an event, one after the other.
LEMMA FieldsRead ==
  ASSUME NEW s \in Text, NEW t \in Text, Lined(s), Lined(t),
         NEW d, NEW e, NEW g, ParseLines(s, d) = e, ParseLines(t, e) = g
  PROVE  /\ s \o t \in Text /\ Lined(s \o t) /\ ParseLines(s \o t, d) = g
         /\ Len(s) > 1 \/ Len(t) > 1 => Len(s \o t) > 1
<1>1. Lined(s \o t) /\ ParseLines(s \o t, d) = g
  BY LinedConcat, ParseConcat DEF Lined
<1>2. /\ s \o t \in Text /\ Len(s) \in Nat /\ Len(t) \in Nat
      /\ Len(s \o t) = Len(s) + Len(t)
  BY TextConcat
<1> QED
  BY <1>1, <1>2

\* All fields of an event make up the event.
LEMMA EventRead ==
  ASSUME NEW e, WellFormed(e)
  PROVE  LET t == InOrder([f \in FieldSet |-> FieldText(e, f)])
         IN  /\ t \in Text /\ Lined(t) /\ ParseLines(t, NoField) = e
             /\ Valid(e) => Len(t) > 1
<1> DEFINE T == [f \in FieldSet |-> FieldText(e, f)]
<1>1. PICK s1, s2, s3, s4 :
        /\ s1 = FieldText(e, "event") /\ s2 = FieldText(e, "id")
        /\ s3 = FieldText(e, "data") /\ s4 = FieldText(e, "retry")
  OBVIOUS
<1>2. T["event"] = s1 /\ T["id"] = s2 /\ T["data"] = s3 /\ T["retry"] = s4
  BY <1>1 DEF FieldSet
<1>3. InOrder(T) = s1 \o s2 \o s3 \o s4
  BY <1>2, Zenon DEF InOrder
<1> HIDE DEF T
<1>4. /\ s1 \in Text /\ Lined(s1) /\ ParseLines(s1, NoField) = Only(e, {"event"})
      /\ "event" \in DOMAIN e => Len(s1) > 1
  <2>1. PICK S, R : S = {} /\ R = {"event"}
    OBVIOUS
  <2>2. "event" \in FieldSet /\ "event" \notin S /\ S \cup {"event"} = R
    BY <2>1 DEF FieldSet
  <2>3. Only(e, S) = NoField
    BY <2>1 DEF Only, NoField
  <2>4. /\ s1 \in Text /\ Lined(s1) /\ ParseLines(s1, Only(e, S)) = Only(e, S \cup {"event"})
        /\ "event" \in DOMAIN e => Len(s1) > 1
    BY <1>1, <2>2, FieldAdded
  <2> QED
    BY <2>1, <2>2, <2>3, <2>4
<1>5. /\ s2 \in Text /\ Lined(s2)
      /\ ParseLines(s2, Only(e, {"event"})) = Only(e, {"event", "id"})
      /\ "id" \in DOMAIN e => Len(s2) > 1
  <2>1. PICK S, R : S = {"event"} /\ R = {"event", "id"}
    OBVIOUS
  <2>2. "id" \in FieldSet /\ "id" \notin S /\ S \cup {"id"} = R
    BY <2>1 DEF FieldSet
  <2>3. s2 = FieldText(e, "id")
    BY <1>1
  <2>4. /\ s2 \in Text /\ Lined(s2) /\ ParseLines(s2, Only(e, S)) = Only(e, S \cup {"id"})
        /\ "id" \in DOMAIN e => Len(s2) > 1
    BY <2>2, <2>3, FieldAdded
  <2> QED
    BY <2>1, <2>2, <2>4, Zenon
<1>6. /\ s3 \in Text /\ Lined(s3)
      /\ ParseLines(s3, Only(e, {"event", "id"})) = Only(e, {"event", "id", "data"})
      /\ "data" \in DOMAIN e => Len(s3) > 1
  <2>1. PICK S, R : S = {"event", "id"} /\ R = {"event", "id", "data"}
    OBVIOUS
  <2>2. "data" \in FieldSet /\ "data" \notin S /\ S \cup {"data"} = R
    BY <2>1 DEF FieldSet
  <2>3. s3 = FieldText(e, "data")
    BY <1>1
  <2>4. /\ s3 \in Text /\ Lined(s3) /\ ParseLines(s3, Only(e, S)) = Only(e, S \cup {"data"})
        /\ "data" \in DOMAIN e => Len(s3) > 1
    BY <2>2, <2>3, FieldAdded
  <2> QED
    BY <2>1, <2>2, <2>4, Zenon
<1>7. /\ s4 \in Text /\ Lined(s4)
      /\ ParseLines(s4, Only(e, {"event", "id", "data"})) = Only(e, FieldSet)
      /\ "retry" \in DOMAIN e => Len(s4) > 1
  <2>1. PICK S, R : S = {"event", "id", "data"} /\ R = FieldSet
    OBVIOUS
  <2>2. "retry" \in FieldSet /\ "retry" \notin S /\ S \cup {"retry"} = R
    BY <2>1 DEF FieldSet
  <2>3. s4 = FieldText(e, "retry")
    BY <1>1
  <2>4. /\ s4 \in Text /\ Lined(s4) /\ ParseLines(s4, Only(e, S)) = Only(e, S \cup {"retry"})
        /\ "retry" \in DOMAIN e => Len(s4) > 1
    BY <2>2, <2>3, FieldAdded
  <2> QED
    BY <2>1, <2>2, <2>4, Zenon
<1>8. /\ s1 \o s2 \in Text /\ Lined(s1 \o s2)
      /\ ParseLines(s1 \o s2, NoField) = Only(e, {"event", "id"})
      /\ Len(s1) > 1 \/ Len(s2) > 1 => Len(s1 \o s2) > 1
  BY <1>4, <1>5, FieldsRead
<1>9. PICK s12 \in Text : s12 = s1 \o s2
  BY <1>8
<1>10. /\ s12 \o s3 \in Text /\ Lined(s12 \o s3)
       /\ ParseLines(s12 \o s3, NoField) = Only(e, {"event", "id", "data"})
       /\ Len(s12) > 1 \/ Len(s3) > 1 => Len(s12 \o s3) > 1
  BY <1>6, <1>8, <1>9, FieldsRead
<1>11. PICK s123 \in Text : s123 = s12 \o s3
  BY <1>10
<1>12. /\ s123 \o s4 \in Text /\ Lined(s123 \o s4)
       /\ ParseLines(s123 \o s4, NoField) = Only(e, FieldSet)
       /\ Len(s123) > 1 \/ Len(s4) > 1 => Len(s123 \o s4) > 1
  BY <1>7, <1>10, <1>11, FieldsRead
<1>13. InOrder(T) = s123 \o s4
  BY <1>3, <1>9, <1>11, Zenon
<1>14. PICK fields \in SUBSET FieldSet : e \in [fields -> Seq(Words)]
  BY DEF WellFormed
<1>15. Only(e, FieldSet) = e
  <2>1. e = [g \in DOMAIN e |-> e[g]]
    BY <1>14
  <2>2. DOMAIN e \cap FieldSet = DOMAIN e
    BY <1>14
  <2> QED
    BY <2>1, <2>2, Zenon DEF Only
<1>17. ASSUME Valid(e) PROVE Len(InOrder(T)) > 1
  <2>1. \/ "event" \in DOMAIN e \/ "id" \in DOMAIN e
        \/ "data" \in DOMAIN e \/ "retry" \in DOMAIN e
    BY <1>14, <1>17 DEF Valid, FieldSet
  <2>2. Len(s1) > 1 \/ Len(s2) > 1 \/ Len(s3) > 1 \/ Len(s4) > 1
    BY <1>4, <1>5, <1>6, <1>7, <2>1
  <2>3. Len(s123 \o s4) > 1
    BY <1>8, <1>9, <1>10, <1>11, <1>12, <2>2
  <2> QED
    BY <1>13, <2>3
<1>18. /\ InOrder(T) \in Text /\ Lined(InOrder(T)) /\ ParseLines(InOrder(T), NoField) = e
       /\ Valid(e) => Len(InOrder(T)) > 1
  BY <1>12, <1>13, <1>15, <1>17
<1> QED
  BY <1>18 DEF T

\* The text of one event: its only empty line is at its end.
OneEvent(t) ==
  /\ t \in Text /\ Len(t) > 2 /\ t[1] # NewLine
  /\ t[Len(t) - 1] = NewLine /\ t[Len(t)] = NewLine
  /\ \A i \in 2..(Len(t) - 1) : t[i] # NewLine \/ t[i - 1] # NewLine

\* The lines of an event are one event, and mean that event.
LEMMA EventLines ==
  ASSUME NEW e, WellFormed(e)
  PROVE  OneEvent(ToLines(e)) /\ ParseLines(ToLines(e), NoField) = e
<1>1. CASE ~Valid(e)
  <2>1. ToLines(e) = <<Colon, NewLine, NewLine>>
    BY <1>1, Zenon DEF ToLines
  <2>2. e = NoField
    <3>1. PICK fields \in SUBSET FieldSet : e \in [fields -> Seq(Words)]
      BY DEF WellFormed
    <3>2. fields = {}
      BY <1>1, <3>1 DEF Valid
    <3> QED
      BY <3>1, <3>2 DEF NoField
  <2>3. PICK t : t = <<Colon, NewLine, NewLine>>
    OBVIOUS
  <2>4. t \in Text /\ Len(t) = 3 /\ t[1] = Colon /\ t[2] = NewLine /\ t[3] = NewLine
    BY <2>3, Tokens DEF Text
  <2>5. OneEvent(t)
    BY <2>4, Tokens DEF OneEvent
  <2>6. ParseLines(t, NoField) = NoField
    BY <2>3, CommentParsed
  <2> QED
    BY <2>1, <2>2, <2>3, <2>5, <2>6
<1>2. CASE Valid(e)
  <2> DEFINE s == InOrder([f \in FieldSet |-> FieldText(e, f)])
  <2>1. s \in Text /\ Lined(s) /\ ParseLines(s, NoField) = e /\ Len(s) > 1
    BY <1>2, EventRead
  <2>2. ToLines(e) = s \o <<NewLine>>
    BY <1>2, Zenon DEF ToLines, FieldText
  <2> HIDE DEF s
  <2> DEFINE y == <<NewLine>>
             t == s \o y
  <2>3. y \in Text /\ Len(y) = 1 /\ y[1] = NewLine /\ \A d : ParseLines(y, d) = d
    BY OneToken, Tokens, CommentParsed
  <2> HIDE DEF y
  <2>4. /\ t \in Text /\ Len(s) \in Nat /\ Len(y) \in Nat
        /\ Len(t) = Len(s) + Len(y)
        /\ \A i \in 1..Len(s) : t[i] = s[i]
        /\ \A i \in 1..Len(y) : t[Len(s) + i] = y[i]
    BY <2>1, <2>3, TextConcat
  <2>5. ParseLines(t, NoField) = e
    BY <2>1, <2>3, ParseConcat DEF Lined
  <2> HIDE DEF t
  <2>6. s # <<>>
    BY <2>1, EmptySeq
  <2>7. s[1] # NewLine /\ s[Len(s)] = NewLine
    BY <2>1, <2>6 DEF Lined, Ended
  <2>8. Len(t) = Len(s) + 1 /\ t[Len(s) + 1] = NewLine
    BY <2>3, <2>4
  <2>9. ASSUME NEW i \in 2..(Len(t) - 1) PROVE t[i] # NewLine \/ t[i - 1] # NewLine
    <3>1. i \in 2..Len(s) /\ i \in 1..Len(s) /\ i - 1 \in 1..Len(s)
      BY <2>4, <2>8
    <3> QED
      BY <2>1, <2>4, <3>1 DEF Lined
  <2>11. /\ 1 \in 1..Len(s) /\ Len(s) \in 1..Len(s)
         /\ Len(t) - 1 = Len(s) /\ Len(t) > 2
    BY <2>1, <2>4, <2>8
  <2>12. t[1] # NewLine /\ t[Len(t) - 1] = NewLine /\ t[Len(t)] = NewLine
    BY <2>4, <2>7, <2>8, <2>11
  <2>10. OneEvent(t)
    BY <2>4, <2>9, <2>11, <2>12 DEF OneEvent
  <2> QED
    BY <2>2, <2>5, <2>10 DEF t, y
<1> QED
  BY <1>1, <1>2

\* Whatever fields and lines an event has, what a server writes for it is read
\* as that event (message.hpp:44-61 and client/response.hpp:248-304).
THEOREM LinesRoundTrip ==
  ASSUME NEW e, WellFormed(e)
  PROVE  ParseBlock(ToLines(e)) = e /\ EndsEvent(ToLines(e))
<1>1. PICK t : t = ToLines(e)
  OBVIOUS
<1>2. OneEvent(t) /\ ParseLines(t, NoField) = e
  BY <1>1, EventLines
<1>3. t[Len(t)] = NewLine /\ EndsEvent(t)
  <2>1. t \in Text /\ Len(t) > 2 /\ t[Len(t) - 1] = NewLine /\ t[Len(t)] = NewLine
    BY <1>2, Zenon DEF OneEvent
  <2>2. Len(t) \in Nat
    BY <2>1, LenProperties DEF Text
  <2> QED
    BY <2>1, <2>2 DEF EndsEvent
<1>4. ParseBlock(t) = e
  BY <1>2, <1>3, Zenon DEF ParseBlock
<1> QED
  BY <1>1, <1>3, <1>4

\* A value of one line is written as it is.
LEMMA FoldedPlain ==
  ASSUME NEW f, NEW v \in Text, \A i \in 1..Len(v) : v[i] # NewLine
  PROVE  Folded(f, v) = v
<1>1. Len(v) \in Nat /\ \A i \in 1..Len(v) : v[i] \in Words
  BY LenProperties, ElementOfSeq DEF Text
<1>2. PICK g : IsFold(g, f, v) /\ Folded(f, v) = g[Len(v)]
  BY <1>1, FoldExists
<1>3. \A i \in 1..Len(v) : g[i] = g[i - 1] \o <<v[i]>>
  BY <1>2, Zenon DEF IsFold, FoldOf
<1> DEFINE Same(i) == /\ g[i] \in Text /\ Len(g[i]) = i
                      /\ \A j \in 1..i : g[i][j] = v[j]
           I == {i \in Nat : i <= Len(v) => Same(i)}
<1>4. 0 \in I
  <2>1. g[0] = <<>>
    BY <1>2 DEF IsFold
  <2>2. Same(0)
    BY <2>1, LinedEmpty, EmptySeq
  <2> QED
    BY <2>2
<1>5. ASSUME NEW i \in Nat, i \in I PROVE i + 1 \in I
  <2>1. SUFFICES ASSUME i + 1 <= Len(v) PROVE Same(i + 1)
    OBVIOUS
  <2>2. PICK k : k = i + 1
    OBVIOUS
  <2>3. k \in 1..Len(v) /\ k - 1 = i /\ Same(i)
    BY <1>1, <1>5, <2>1, <2>2
  <2>4. PICK s, y, t : s = g[i] /\ y = <<v[k]>> /\ t = g[k]
    OBVIOUS
  <2>5. y \in Text /\ Len(y) = 1 /\ y[1] = v[k]
    BY <1>1, <2>3, <2>4, OneToken
  <2>6. t = s \o y
    BY <1>3, <2>3, <2>4, Zenon
  <2>7. s \in Text /\ Len(s) = i /\ \A j \in 1..i : s[j] = v[j]
    BY <2>3, <2>4
  <2>8. /\ t \in Text /\ Len(t) = Len(s) + Len(y)
        /\ \A j \in 1..Len(s) : t[j] = s[j]
        /\ \A j \in 1..Len(y) : t[Len(s) + j] = y[j]
    <3>1. s \in Text /\ y \in Text
      BY <2>5, <2>7
    <3>2. /\ s \o y \in Text /\ Len(s \o y) = Len(s) + Len(y)
          /\ \A j \in 1..Len(s) : (s \o y)[j] = s[j]
          /\ \A j \in 1..Len(y) : (s \o y)[Len(s) + j] = y[j]
      BY <3>1, TextConcat
    <3> QED
      BY <2>6, <3>2, Zenon
  <2>9. Len(t) = k /\ t[k] = v[k]
    BY <2>2, <2>5, <2>7, <2>8
  <2>10. ASSUME NEW j \in 1..k PROVE t[j] = v[j]
    <3>1. j \in 1..i \/ j = k
      BY <1>5, <2>2
    <3> QED
      BY <2>7, <2>8, <2>9, <3>1
  <2> QED
    BY <2>2, <2>4, <2>8, <2>9, <2>10
<1>6. Len(v) \in I
  <2> HIDE DEF I
  <2> QED
    BY <1>1, <1>4, <1>5, Induction
<1>7. PICK t : t = g[Len(v)]
  OBVIOUS
<1>8. t \in Text /\ Len(t) = Len(v) /\ \A j \in 1..Len(v) : t[j] = v[j]
  BY <1>1, <1>6, <1>7
<1>9. t = v
  BY <1>8, SeqEqual DEF Text
<1> QED
  BY <1>2, <1>7, <1>9

\* What the library writes for an event without a newline in a value means
\* that event as well, but has no empty line.
THEOREM ChunkRoundTrip ==
  ASSUME NEW e, WellFormed(e),
         \A f \in DOMAIN e : \A i \in 1..Len(e[f]) : e[f][i] # NewLine
  PROVE  ParseBlock(ToHttpChunk(e)) = e /\ ~EndsEvent(ToHttpChunk(e))
<1>1. PICK fields \in SUBSET FieldSet : e \in [fields -> Seq(Words)]
  BY DEF WellFormed
<1>2. ASSUME NEW f \in FieldSet
      PROVE  FieldText(e, f) = IF f \in DOMAIN e THEN FieldLine(f, e[f]) ELSE <<>>
  <2>1. CASE f \in DOMAIN e
    <3>1. e[f] \in Text /\ \A i \in 1..Len(e[f]) : e[f][i] # NewLine
      BY <1>1, <2>1 DEF Text
    <3>2. Folded(f, e[f]) = e[f]
      BY <3>1, FoldedPlain
    <3> QED
      BY <2>1, <3>2, Zenon DEF FieldText
  <2>2. CASE f \notin DOMAIN e
    BY <2>2, Zenon DEF FieldText
  <2> QED
    BY <2>1, <2>2
<1>3. PICK t : t = InOrder([f \in FieldSet |-> FieldText(e, f)])
  OBVIOUS
<1>4. ToHttpChunk(e) = t
  <2>1. [f \in FieldSet |-> IF f \in DOMAIN e THEN FieldLine(f, e[f]) ELSE <<>>]
          = [f \in FieldSet |-> FieldText(e, f)]
    BY <1>2
  <2> QED
    BY <1>3, <2>1, Zenon DEF ToHttpChunk
<1>5. t \in Text /\ Lined(t) /\ ParseLines(t, NoField) = e
  BY <1>3, EventRead
<1>6. t # <<>> => t[Len(t)] = NewLine
  BY <1>5, Zenon DEF Lined, Ended
<1>7. ParseBlock(t) = e
  BY <1>5, <1>6, Zenon DEF ParseBlock
<1>8. ~EndsEvent(t)
  <2>1. Len(t) \in Nat /\ \A i \in 2..Len(t) : t[i] # NewLine \/ t[i - 1] # NewLine
    BY <1>5, LenProperties DEF Lined, Text
  <2>2. ASSUME Len(t) >= 2 PROVE t[Len(t)] # NewLine \/ t[Len(t) - 1] # NewLine
    <3>1. Len(t) \in 2..Len(t)
      BY <2>1, <2>2
    <3> QED
      BY <2>1, <3>1
  <2> QED
    BY <2>2 DEF EndsEvent
<1> QED
  BY <1>4, <1>7, <1>8, Zenon

-----------------------------------------------------------------------------
(* The events that have a field.                                           *)

\* WithField goes through the events from the first.
IsWith(g, s) ==
  /\ g[0] = <<>>
  /\ \A i \in 1..Len(s) : g[i] = IF Valid(s[i]) THEN Append(g[i - 1], s[i]) ELSE g[i - 1]

\* WithField is the last value of its recursive function.
LEMMA WithExists ==
  ASSUME NEW s, Len(s) \in Nat
  PROVE  \E g : IsWith(g, s) /\ WithField(s) = g[Len(s)]
<1> DEFINE Body(g, n) ==
      [i \in 0..n |-> IF i = 0 THEN <<>>
                      ELSE IF Valid(s[i]) THEN Append(g[i - 1], s[i]) ELSE g[i - 1]]
    S == {n \in Nat : \E g : g = Body(g, n)}
<1>1. 0 \in S
  <2> DEFINE g == [i \in 0..0 |-> <<>>]
  <2>1. g = Body(g, 0)
    OBVIOUS
  <2> QED
    BY <2>1
<1>2. ASSUME NEW n \in Nat, n \in S PROVE n + 1 \in S
  <2>1. PICK g : g = Body(g, n)
    BY <1>2
  <2> DEFINE h == [i \in 0..(n + 1) |->
                     IF i <= n THEN g[i]
                     ELSE IF Valid(s[i]) THEN Append(g[i - 1], s[i]) ELSE g[i - 1]]
  <2>2. \A i \in 0..n : g[i] = Body(g, n)[i]
    BY <2>1
  <2>3. ASSUME NEW i \in 0..(n + 1) PROVE h[i] = Body(h, n + 1)[i]
    <3>1. CASE i = 0
      BY <2>2, <3>1
    <3>2. CASE i \in 1..n
      <4>1. h[i] = g[i] /\ h[i - 1] = g[i - 1]
        BY <3>2
      <4> QED
        BY <2>2, <3>2, <4>1
    <3>3. CASE i = n + 1
      BY <3>3
    <3> QED
      BY <3>1, <3>2, <3>3
  <2>4. h = Body(h, n + 1)
    <3>1. h = [i \in 0..(n + 1) |-> h[i]]
      OBVIOUS
    <3>2. Body(h, n + 1) = [i \in 0..(n + 1) |-> Body(h, n + 1)[i]]
      OBVIOUS
    <3> HIDE DEF h, Body
    <3> QED
      BY <2>3, <3>1, <3>2
  <2> HIDE DEF h, Body
  <2> QED
    BY <2>4
<1>3. Len(s) \in S
  <2> HIDE DEF S
  <2> QED
    BY <1>1, <1>2, Induction
<1> DEFINE g == CHOOSE g : g = Body(g, Len(s))
<1>4. g = Body(g, Len(s))
  BY <1>3
<1>5. WithField(s) = g[Len(s)]
  BY DEF WithField
<1> HIDE DEF g
<1>6. IsWith(g, s)
  <2>1. \A i \in 0..Len(s) :
          g[i] = IF i = 0 THEN <<>>
                 ELSE IF Valid(s[i]) THEN Append(g[i - 1], s[i]) ELSE g[i - 1]
    BY <1>4
  <2>2. g[0] = <<>>
    BY <2>1
  <2>3. ASSUME NEW i \in 1..Len(s)
        PROVE  g[i] = IF Valid(s[i]) THEN Append(g[i - 1], s[i]) ELSE g[i - 1]
    <3>1. i \in 0..Len(s) /\ i # 0
      OBVIOUS
    <3> QED
      BY <2>1, <3>1, Zenon
  <2> QED
    BY <2>2, <2>3, Zenon DEF IsWith
<1> QED
  BY <1>5, <1>6

\* The events with a field among the first n.
LEMMA WithPrefix ==
  ASSUME NEW S, NEW s \in Seq(S)
  PROVE  \E g : /\ IsWith(g, s)
                /\ \A n \in 0..Len(s) : WithField(SubSeq(s, 1, n)) = g[n] /\ g[n] \in Seq(S)
<1>1. Len(s) \in Nat /\ \A i \in 1..Len(s) : s[i] \in S
  BY LenProperties, ElementOfSeq
<1>2. PICK g : IsWith(g, s)
  BY <1>1, WithExists
<1>3. ASSUME NEW n \in 0..Len(s) PROVE WithField(SubSeq(s, 1, n)) = g[n]
  <2>1. PICK t : t = SubSeq(s, 1, n)
    OBVIOUS
  <2>2. Len(t) = n /\ \A i \in 1..n : t[i] = s[i]
    <3>1. \A i \in 1..n : s[i] \in S
      BY <1>1
    <3>2. /\ Len(SubSeq(s, 1, n)) = IF 1 <= n THEN n - 1 + 1 ELSE 0
          /\ \A i \in 1..(n - 1 + 1) : SubSeq(s, 1, n)[i] = s[1 + i - 1]
      BY <3>1, SubSeqProperties
    <3> QED
      BY <2>1, <3>2
  <2>3. PICK h : IsWith(h, t) /\ WithField(t) = h[n]
    BY <2>2, WithExists
  <2> DEFINE I == {i \in Nat : i <= n => h[i] = g[i]}
  <2>4. 0 \in I
    BY <1>2, <2>3 DEF IsWith
  <2>5. ASSUME NEW i \in Nat, i \in I PROVE i + 1 \in I
    <3>1. SUFFICES ASSUME i + 1 <= n PROVE h[i + 1] = g[i + 1]
      OBVIOUS
    <3>2. PICK k : k = i + 1
      OBVIOUS
    <3>3. k \in 1..n /\ k \in 1..Len(s) /\ k - 1 = i /\ h[i] = g[i]
      BY <2>5, <3>1, <3>2
    <3>4. /\ h[k] = IF Valid(t[k]) THEN Append(h[k - 1], t[k]) ELSE h[k - 1]
          /\ g[k] = IF Valid(s[k]) THEN Append(g[k - 1], s[k]) ELSE g[k - 1]
      BY <1>2, <2>2, <2>3, <3>3 DEF IsWith
    <3>5. t[k] = s[k] /\ h[k - 1] = g[k - 1]
      BY <2>2, <3>3
    <3> QED
      BY <3>2, <3>4, <3>5, Zenon
  <2> HIDE DEF I
  <2>6. n \in I
    BY <2>4, <2>5, Induction
  <2> QED
    BY <2>1, <2>3, <2>6 DEF I
<1>4. \A n \in Nat : n <= Len(s) => g[n] \in Seq(S)
  <2> DEFINE I == {i \in Nat : i <= Len(s) => g[i] \in Seq(S)}
  <2>1. 0 \in I
    BY <1>2, EmptySeq DEF IsWith
  <2>2. ASSUME NEW i \in Nat, i \in I PROVE i + 1 \in I
    <3>1. SUFFICES ASSUME i + 1 <= Len(s) PROVE g[i + 1] \in Seq(S)
      OBVIOUS
    <3>2. PICK k : k = i + 1
      OBVIOUS
    <3>3. k \in 1..Len(s) /\ k - 1 = i /\ g[k - 1] \in Seq(S) /\ s[k] \in S
      BY <1>1, <2>2, <3>1, <3>2
    <3>4. g[k] = IF Valid(s[k]) THEN Append(g[k - 1], s[k]) ELSE g[k - 1]
      BY <1>2, <3>3 DEF IsWith
    <3>5. Append(g[k - 1], s[k]) \in Seq(S)
      BY <3>3, AppendProperties
    <3> QED
      BY <3>2, <3>3, <3>4, <3>5
  <2> HIDE DEF I
  <2>3. \A n \in Nat : n \in I
    BY <2>1, <2>2, Induction
  <2> QED
    BY <2>3 DEF I
<1> QED
  BY <1>1, <1>2, <1>3, <1>4

\* A prefix, position by position.
Starts(s, t) == Len(s) <= Len(t) /\ \A i \in 1..Len(s) : t[i] = s[i]

\* It is the prefix of SequencesExt.
LEMMA StartsIsPrefix ==
  ASSUME NEW S, NEW s \in Seq(S), NEW t \in Seq(S), Starts(s, t)
  PROVE  IsPrefix(s, t)
<1>1. Len(s) \in Nat /\ Len(t) \in Nat
  BY LenProperties
<1>2. \A i \in 1..Len(s) : t[i] \in S /\ s[i] \in S
  BY <1>1, ElementOfSeq DEF Starts
<1>3. PICK n \in Nat : n = Len(s)
  BY <1>1
<1>4. /\ SubSeq(s, 1, n) \in Seq(S) /\ Len(SubSeq(s, 1, n)) = n
      /\ \A i \in 1..n : SubSeq(s, 1, n)[i] = s[i]
  <2>1. /\ SubSeq(s, 1, n) \in Seq(S)
        /\ Len(SubSeq(s, 1, n)) = IF 1 <= n THEN n - 1 + 1 ELSE 0
        /\ \A i \in 1..(n - 1 + 1) : SubSeq(s, 1, n)[i] = s[1 + i - 1]
    BY <1>2, <1>3, SubSeqProperties
  <2> QED
    BY <2>1
<1>5. /\ SubSeq(t, 1, n) \in Seq(S) /\ Len(SubSeq(t, 1, n)) = n
      /\ \A i \in 1..n : SubSeq(t, 1, n)[i] = t[i]
  <2>1. /\ SubSeq(t, 1, n) \in Seq(S)
        /\ Len(SubSeq(t, 1, n)) = IF 1 <= n THEN n - 1 + 1 ELSE 0
        /\ \A i \in 1..(n - 1 + 1) : SubSeq(t, 1, n)[i] = t[1 + i - 1]
    BY <1>2, <1>3, SubSeqProperties
  <2> QED
    BY <2>1
<1>6. SubSeq(s, 1, n) = SubSeq(t, 1, n)
  <2>1. PICK a, b : a = SubSeq(s, 1, n) /\ b = SubSeq(t, 1, n)
    OBVIOUS
  <2>2. a \in Seq(S) /\ b \in Seq(S) /\ Len(a) = Len(b) /\ \A i \in 1..Len(a) : a[i] = b[i]
    BY <1>3, <1>4, <1>5, <2>1 DEF Starts
  <2> QED
    BY <2>1, <2>2, SeqEqual
<1> QED
  BY <1>3, <1>6 DEF Starts, IsPrefix

\* Those of the first n events come first.
LEMMA WithStarts ==
  ASSUME NEW S, NEW s \in Seq(S), NEW n \in 0..Len(s)
  PROVE  /\ WithField(SubSeq(s, 1, n)) \in Seq(S) /\ WithField(s) \in Seq(S)
         /\ Starts(WithField(SubSeq(s, 1, n)), WithField(s))
<1>1. Len(s) \in Nat
  BY LenProperties
<1>2. PICK g : /\ IsWith(g, s)
               /\ \A i \in 0..Len(s) : WithField(SubSeq(s, 1, i)) = g[i] /\ g[i] \in Seq(S)
  BY WithPrefix
<1> DEFINE I == {i \in Nat : i >= n /\ i <= Len(s) => Starts(g[n], g[i])}
<1>3. 0 \in I
  <2>1. PICK a : a = g[n]
    OBVIOUS
  <2>2. Len(a) \in Nat
    BY <1>1, <1>2, <2>1, LenProperties
  <2>3. n = 0 => Starts(g[n], g[0])
    BY <2>1, <2>2 DEF Starts
  <2> QED
    BY <2>3
<1>4. ASSUME NEW i \in Nat, i \in I PROVE i + 1 \in I
  <2>1. SUFFICES ASSUME i + 1 >= n, i + 1 <= Len(s) PROVE Starts(g[n], g[i + 1])
    OBVIOUS
  <2>2. CASE i + 1 = n
    BY <1>2, <2>2, LenProperties DEF Starts
  <2>3. CASE i + 1 # n
    <3>1. PICK k : k = i + 1
      OBVIOUS
    <3>2. k \in 1..Len(s) /\ k - 1 = i /\ i \in 0..Len(s) /\ Starts(g[n], g[i])
      BY <1>1, <1>4, <2>1, <2>3, <3>1
    <3>3. g[k] = IF Valid(s[k]) THEN Append(g[i], s[k]) ELSE g[i]
      BY <1>2, <3>2 DEF IsWith
    <3>4. g[i] \in Seq(S) /\ s[k] \in S /\ Len(g[n]) \in Nat
      BY <1>2, <3>2, ElementOfSeq, LenProperties
    <3>5. PICK a, x : a = g[i] /\ x = s[k]
      OBVIOUS
    <3>6. /\ Len(Append(a, x)) = Len(a) + 1 /\ Len(a) \in Nat
          /\ \A j \in 1..Len(a) : Append(a, x)[j] = a[j]
      BY <3>4, <3>5, AppendProperties, LenProperties
    <3>7. Starts(g[n], Append(a, x))
      BY <3>2, <3>4, <3>5, <3>6 DEF Starts
    <3> QED
      BY <3>1, <3>2, <3>3, <3>5, <3>7
  <2> QED
    BY <2>2, <2>3
<1> HIDE DEF I
<1>5. Len(s) \in I
  BY <1>1, <1>3, <1>4, Induction
<1>6. SubSeq(s, 1, Len(s)) = s
  BY SubSeqFull
<1>7. g[Len(s)] = WithField(s) /\ g[Len(s)] \in Seq(S)
  <2>1. PICK l \in 0..Len(s) : l = Len(s)
    BY <1>1
  <2>2. WithField(SubSeq(s, 1, l)) = g[l] /\ g[l] \in Seq(S)
    BY <1>2
  <2> QED
    BY <1>6, <2>1, <2>2
<1>8. Starts(g[n], g[Len(s)])
  BY <1>1, <1>5 DEF I
<1> QED
  BY <1>2, <1>7, <1>8

\* If the first m events all have a field, they come first.
LEMMA AllWithField ==
  ASSUME NEW S, NEW s \in Seq(S), NEW m \in 0..Len(s), \A i \in 1..m : Valid(s[i])
  PROVE  /\ WithField(s) \in Seq(S) /\ Len(WithField(s)) \in Nat
         /\ Len(WithField(s)) >= m /\ \A i \in 1..m : WithField(s)[i] = s[i]
         /\ m = Len(s) => Len(WithField(s)) = m
<1>1. Len(s) \in Nat
  BY LenProperties
<1>2. PICK g : /\ IsWith(g, s)
               /\ \A i \in 0..Len(s) : WithField(SubSeq(s, 1, i)) = g[i] /\ g[i] \in Seq(S)
  BY WithPrefix
<1> DEFINE I == {i \in Nat : i <= m => Len(g[i]) = i /\ \A j \in 1..i : g[i][j] = s[j]}
<1>3. 0 \in I
  <2>1. Len(g[0]) = 0
    BY <1>2, EmptySeq DEF IsWith
  <2> QED
    BY <2>1
<1>4. ASSUME NEW i \in Nat, i \in I PROVE i + 1 \in I
  <2>1. SUFFICES ASSUME i + 1 <= m
                 PROVE  Len(g[i + 1]) = i + 1 /\ \A j \in 1..(i + 1) : g[i + 1][j] = s[j]
    OBVIOUS
  <2>2. PICK k : k = i + 1
    OBVIOUS
  <2>3. /\ k \in 1..Len(s) /\ k \in 1..m /\ k - 1 = i /\ i \in 0..Len(s)
        /\ Len(g[i]) = i /\ \A j \in 1..i : g[i][j] = s[j]
    BY <1>1, <1>4, <2>1, <2>2
  <2>4. g[k] = Append(g[i], s[k])
    BY <1>2, <2>3 DEF IsWith
  <2>5. g[i] \in Seq(S) /\ s[k] \in S
    BY <1>2, <2>3, ElementOfSeq
  <2>6. PICK a, x : a = g[i] /\ x = s[k]
    OBVIOUS
  <2>7. /\ Len(Append(a, x)) = Len(a) + 1 /\ Append(a, x)[Len(a) + 1] = x
        /\ \A j \in 1..Len(a) : Append(a, x)[j] = a[j]
    BY <2>5, <2>6, AppendProperties
  <2>8. Len(g[k]) = k /\ \A j \in 1..k : g[k][j] = s[j]
    BY <2>2, <2>3, <2>4, <2>6, <2>7
  <2> QED
    BY <2>2, <2>8
<1> HIDE DEF I
<1>5. m \in I
  BY <1>3, <1>4, Induction
<1>6. Len(g[m]) = m /\ \A j \in 1..m : g[m][j] = s[j]
  BY <1>5 DEF I
<1>7. /\ WithField(s) \in Seq(S) /\ Starts(WithField(SubSeq(s, 1, m)), WithField(s))
  BY WithStarts
<1>8. Starts(g[m], WithField(s)) /\ Len(WithField(s)) \in Nat
  BY <1>2, <1>7, LenProperties
<1>9. m = Len(s) => WithField(s) = g[m]
  BY <1>1, <1>2, SubSeqFull
<1> QED
  BY <1>6, <1>7, <1>8, <1>9 DEF Starts

\* What lies between two positions of a text.
LEMMA Piece ==
  ASSUME NEW t \in Text, NEW a \in Nat, NEW b \in 0..Len(t)
  PROVE  /\ SubSeq(t, a + 1, b) \in Text
         /\ Len(SubSeq(t, a + 1, b)) = IF a <= b THEN b - a ELSE 0
         /\ \A i \in 1..(b - a) : SubSeq(t, a + 1, b)[i] = t[a + i]
<1>1. Len(t) \in Nat
  BY LenProperties DEF Text
<1>2. \A i \in (a + 1)..b : t[i] \in Words
  BY <1>1, ElementOfSeq DEF Text
<1>3. PICK m \in Int : m = a + 1
  OBVIOUS
<1>4. /\ SubSeq(t, m, b) \in Seq(Words)
      /\ Len(SubSeq(t, m, b)) = IF m <= b THEN b - m + 1 ELSE 0
      /\ \A i \in 1..(b - m + 1) : SubSeq(t, m, b)[i] = t[m + i - 1]
  BY <1>1, <1>2, <1>3, SubSeqProperties
<1>5. Len(SubSeq(t, m, b)) = IF a <= b THEN b - a ELSE 0
  BY <1>1, <1>3, <1>4
<1>6. \A i \in 1..(b - a) : SubSeq(t, m, b)[i] = t[a + i]
  <2>1. b - m + 1 = b - a /\ \A i \in Int : m + i - 1 = a + i
    BY <1>1, <1>3
  <2> QED
    BY <1>4, <2>1
<1> QED
  BY <1>3, <1>4, <1>5, <1>6 DEF Text

\* A piece of the first of two texts.
LEMMA PieceOfFirst ==
  ASSUME NEW s \in Text, NEW t \in Text, NEW a \in Nat, NEW b \in 0..Len(s)
  PROVE  SubSeq(s \o t, a + 1, b) = SubSeq(s, a + 1, b)
<1>1. Len(s) \in Nat
  BY LenProperties DEF Text
<1>2. PICK m \in Int : m = a + 1
  OBVIOUS
<1>3. CASE m <= b
  <2>1. m \in 1..Len(s) /\ b \in 1..Len(s)
    BY <1>1, <1>2, <1>3
  <2> QED
    BY <1>2, <2>1, SubSeqOfConcat1 DEF Text
<1>4. CASE b < m
  <2>1. SubSeq(s \o t, m, b) = <<>> /\ SubSeq(s, m, b) = <<>>
    BY <1>1, <1>4, SubSeqEmpty
  <2> QED
    BY <1>2, <2>1
<1> QED
  BY <1>1, <1>2, <1>3, <1>4

\* The second of two texts.
LEMMA PieceSecond ==
  ASSUME NEW s \in Text, NEW t \in Text
  PROVE  SubSeq(s \o t, Len(s) + 1, Len(s) + Len(t)) = t
<1> DEFINE u == s \o t
<1>1. /\ u \in Text /\ Len(s) \in Nat /\ Len(t) \in Nat
      /\ Len(u) = Len(s) + Len(t)
      /\ \A i \in 1..Len(t) : u[Len(s) + i] = t[i]
  BY TextConcat
<1> HIDE DEF u
<1>2. PICK n \in Nat, k \in Nat : n = Len(s) /\ k = n + Len(t)
  BY <1>1
<1>3. /\ SubSeq(u, n + 1, k) \in Text
      /\ Len(SubSeq(u, n + 1, k)) = IF n <= k THEN k - n ELSE 0
      /\ \A i \in 1..(k - n) : SubSeq(u, n + 1, k)[i] = u[n + i]
  BY <1>1, <1>2, Piece
<1>4. PICK v : v = SubSeq(u, n + 1, k)
  OBVIOUS
<1>5. /\ v \in Text /\ Len(v) = Len(t)
      /\ \A i \in 1..Len(v) : v[i] = t[i]
  BY <1>1, <1>2, <1>3, <1>4
<1>6. v = t
  BY <1>5, SeqEqual DEF Text
<1> QED
  BY <1>2, <1>4, <1>6 DEF u

\* A piece is cut in two.
LEMMA PieceSplit ==
  ASSUME NEW t \in Text, NEW a \in Nat, NEW b \in a..Len(t), NEW c \in b..Len(t)
  PROVE  SubSeq(t, a + 1, c) = SubSeq(t, a + 1, b) \o SubSeq(t, b + 1, c)
<1>1. Len(t) \in Nat
  BY LenProperties DEF Text
<1>2. PICK m \in Int : m = a + 1
  OBVIOUS
<1>3. m \in 1..(Len(t) + 1) /\ b \in (m - 1)..Len(t)
  BY <1>1, <1>2
<1> QED
  BY <1>2, <1>3, ConcatAdjacentSubSeq DEF Text

-----------------------------------------------------------------------------
(* Two events that are read as one.                                        *)

\* Anything a reader may take for an event.
AnyEvent == UNION {[S -> Text] : S \in SUBSET FieldSet}

\* It has some of the fields, with texts as their values.
LEMMA EventDomain ==
  ASSUME NEW e \in AnyEvent
  PROVE  /\ DOMAIN e \in SUBSET FieldSet /\ \A f \in DOMAIN e : e[f] \in Text
         /\ e = [f \in DOMAIN e |-> e[f]]
<1>1. PICK S \in SUBSET FieldSet : e \in [S -> Text]
  BY DEF AnyEvent
<1> QED
  BY <1>1

\* Whatever has that is one.
LEMMA EventWhole ==
  ASSUME NEW S \in SUBSET FieldSet, NEW e, e = [f \in S |-> e[f]], \A f \in S : e[f] \in Text
  PROVE  e \in AnyEvent
<1>1. e \in [S -> Text]
  OBVIOUS
<1> QED
  BY <1>1 DEF AnyEvent

\* No field is one.
LEMMA NoFieldEvent == NoField \in AnyEvent
<1>1. DOMAIN NoField = {} /\ NoField = [f \in {} |-> NoField[f]]
  BY DEF NoField
<1> QED
  BY <1>1, EventWhole

\* Two events joined are one, and no field joined to an event leaves it.
LEMMA JoinedEvent ==
  ASSUME NEW a \in AnyEvent, NEW b \in AnyEvent
  PROVE  /\ Joined(a, b) \in AnyEvent
         /\ Joined(a, NoField) = a /\ Joined(NoField, a) = a
<1>1. /\ DOMAIN a \in SUBSET FieldSet /\ \A f \in DOMAIN a : a[f] \in Text
      /\ DOMAIN b \in SUBSET FieldSet /\ \A f \in DOMAIN b : b[f] \in Text
      /\ a = [f \in DOMAIN a |-> a[f]]
  BY EventDomain
<1>2. Joined(a, b) \in AnyEvent
  <2>1. PICK S : S = DOMAIN a \cup DOMAIN b
    OBVIOUS
  <2> DEFINE At(f) == IF f \notin DOMAIN b THEN a[f]
                      ELSE IF f = "data" /\ f \in DOMAIN a THEN a[f] \o <<NewLine>> \o b[f]
                      ELSE b[f]
  <2>2. Joined(a, b) = [f \in S |-> At(f)]
    BY <2>1, Zenon DEF Joined
  <2>3. ASSUME NEW f \in S PROVE At(f) \in Text
    <3>1. CASE f \notin DOMAIN b
      BY <1>1, <2>1, <3>1
    <3>2. CASE f \in DOMAIN b /\ f = "data" /\ f \in DOMAIN a
      <4>1. a[f] \in Text /\ b[f] \in Text /\ <<NewLine>> \in Text
        BY <1>1, <3>2, OneToken, Tokens
      <4>2. a[f] \o <<NewLine>> \in Text
        BY <4>1, TextConcat
      <4>3. (a[f] \o <<NewLine>>) \o b[f] \in Text
        BY <4>1, <4>2, TextConcat
      <4> QED
        BY <3>2, <4>3, Zenon
    <3>3. CASE f \in DOMAIN b /\ ~(f = "data" /\ f \in DOMAIN a)
      <4>1. At(f) = b[f]
        BY <3>3, Zenon
      <4> QED
        BY <1>1, <3>3, <4>1
    <3> QED
      BY <3>1, <3>2, <3>3, Zenon
  <2> HIDE DEF At
  <2>4. S \in SUBSET FieldSet
    BY <1>1, <2>1
  <2>5. PICK e : e = [f \in S |-> At(f)]
    OBVIOUS
  <2>6. e = [f \in S |-> e[f]] /\ \A f \in S : e[f] \in Text
    BY <2>3, <2>5
  <2>7. e \in AnyEvent
    BY <2>4, <2>6, EventWhole
  <2> QED
    BY <2>2, <2>5, <2>7
<1>3. DOMAIN NoField = {}
  BY DEF NoField
<1>5. Joined(a, NoField) = a
  <2>1. DOMAIN a \cup DOMAIN NoField = DOMAIN a
    BY <1>3
  <2>2. Joined(a, NoField) = [f \in DOMAIN a |-> a[f]]
    BY <1>3, <2>1 DEF Joined
  <2> QED
    BY <1>1, <2>2, Zenon
<1>6. Joined(NoField, a) = a
  <2>1. DOMAIN NoField \cup DOMAIN a = DOMAIN a
    BY <1>3
  <2>2. Joined(NoField, a) = [f \in DOMAIN a |-> a[f]]
    BY <1>3, <2>1 DEF Joined
  <2> QED
    BY <1>1, <2>2, Zenon
<1> QED
  BY <1>2, <1>5, <1>6

\* A field that is added to two joined events is added to the second.
LEMMA JoinedWith ==
  ASSUME NEW a \in AnyEvent, NEW e \in AnyEvent, NEW f \in FieldSet, NEW v \in Text,
         Accepts(f, v)
  PROVE  /\ With(e, f, v) \in AnyEvent
         /\ With(Joined(a, e), f, v) = Joined(a, With(e, f, v))
<1>1. /\ DOMAIN a \in SUBSET FieldSet /\ \A g \in DOMAIN a : a[g] \in Text
      /\ DOMAIN e \in SUBSET FieldSet /\ \A g \in DOMAIN e : e[g] \in Text
  BY EventDomain
<1>2. PICK A, E : A = DOMAIN a /\ E = DOMAIN e
  OBVIOUS
<1>3. PICK h : h = IF f = "retry" THEN <<Head(v)>> ELSE v
  OBVIOUS
<1>4. h \in Text /\ (f = "data" => h = v)
  <2>1. CASE f = "retry"
    <3>1. v # <<>>
      BY <2>1 DEF Accepts
    <3>2. Head(v) \in Words
      BY <3>1, HeadTailProperties DEF Text
    <3> QED
      BY <1>3, <2>1, <3>2, OneToken
  <2> QED
    BY <1>3, <2>1
<1> DEFINE L == <<NewLine>>
<1>5. L \in Text
  BY OneToken, Tokens
<1> HIDE DEF L
<1>6. \A ev : With(ev, f, v) =
        [g \in DOMAIN ev \cup {f} |->
           IF g # f THEN ev[g]
           ELSE IF f = "data" /\ f \in DOMAIN ev THEN ev[f] \o L \o v
           ELSE h]
  <2>1. SUFFICES ASSUME NEW ev PROVE With(ev, f, v) =
        [g \in DOMAIN ev \cup {f} |->
           IF g # f THEN ev[g]
           ELSE IF f = "data" /\ f \in DOMAIN ev THEN ev[f] \o L \o v
           ELSE h]
    OBVIOUS
  <2> QED
    BY <1>3 DEF With, L
<1>7. PICK w : w = With(e, f, v)
  OBVIOUS
<1>8. /\ DOMAIN w = E \cup {f} /\ w = [g \in E \cup {f} |-> w[g]]
      /\ \A g \in E : g # f => w[g] = e[g]
      /\ w[f] = IF f = "data" /\ f \in E THEN e[f] \o L \o v ELSE h
  <2>1. w = [g \in E \cup {f} |->
               IF g # f THEN e[g] ELSE IF f = "data" /\ f \in E THEN e[f] \o L \o v ELSE h]
    BY <1>2, <1>6, <1>7, Zenon
  <2> QED
    BY <2>1
<1>9. \A x, y \in Text : x \o L \o y \in Text
  BY <1>5, TextConcat
<1>10. w \in AnyEvent
  <2>1. \A g \in E \cup {f} : w[g] \in Text
    <3>1. w[f] \in Text
      BY <1>1, <1>2, <1>4, <1>8, <1>9
    <3> QED
      BY <1>1, <1>2, <1>8, <3>1
  <2>2. E \cup {f} \in SUBSET FieldSet
    BY <1>1, <1>2
  <2> QED
    BY <1>8, <2>1, <2>2, EventWhole
<1>11. PICK j : j = Joined(a, e)
  OBVIOUS
<1>12. /\ DOMAIN j = A \cup E
       /\ \A g \in A \cup E :
            j[g] = IF g \notin E THEN a[g]
                   ELSE IF g = "data" /\ g \in A THEN a[g] \o L \o e[g]
                   ELSE e[g]
  BY <1>2, <1>11 DEF Joined, L
<1>13. PICK l, r : l = With(j, f, v) /\ r = Joined(a, w)
  OBVIOUS
<1>14. /\ l = [g \in A \cup E \cup {f} |-> l[g]]
       /\ \A g \in A \cup E \cup {f} :
            l[g] = IF g # f THEN j[g]
                   ELSE IF f = "data" /\ f \in A \cup E THEN j[f] \o L \o v
                   ELSE h
  <2>1. DOMAIN j = A \cup E
    BY <1>12
  <2>2. l = [g \in A \cup E \cup {f} |->
               IF g # f THEN j[g]
               ELSE IF f = "data" /\ f \in A \cup E THEN j[f] \o L \o v ELSE h]
    BY <1>6, <1>13, <2>1, Zenon
  <2> QED
    BY <2>2
<1>15. /\ r = [g \in A \cup (E \cup {f}) |-> r[g]]
       /\ \A g \in A \cup (E \cup {f}) :
            r[g] = IF g \notin E \cup {f} THEN a[g]
                   ELSE IF g = "data" /\ g \in A THEN a[g] \o L \o w[g]
                   ELSE w[g]
  BY <1>2, <1>8, <1>13 DEF Joined, L
<1>16. A \cup (E \cup {f}) = A \cup E \cup {f}
  OBVIOUS
<1>17. ASSUME NEW g \in A \cup E \cup {f}, g # f PROVE l[g] = r[g]
  <2>1. l[g] = j[g] /\ g \in A \cup E
    BY <1>14, <1>17
  <2>2. CASE g \notin E
    BY <1>12, <1>15, <1>16, <1>17, <2>1, <2>2
  <2>3. CASE g \in E
    <3>1. w[g] = e[g]
      BY <1>8, <1>17, <2>3
    <3>2. r[g] = IF g = "data" /\ g \in A THEN a[g] \o L \o e[g] ELSE e[g]
      BY <1>15, <1>16, <2>3, <3>1
    <3>3. j[g] = IF g = "data" /\ g \in A THEN a[g] \o L \o e[g] ELSE e[g]
      BY <1>12, <2>1, <2>3
    <3> QED
      BY <2>1, <3>2, <3>3
  <2> QED
    BY <2>2, <2>3
<1>18. l[f] = r[f]
  <2>1. /\ l[f] = IF f = "data" /\ f \in A \cup E THEN j[f] \o L \o v ELSE h
        /\ r[f] = IF f = "data" /\ f \in A THEN a[f] \o L \o w[f] ELSE w[f]
    BY <1>14, <1>15, <1>16
  <2>2. CASE f # "data"
    BY <1>8, <2>1, <2>2
  <2>3. CASE f = "data" /\ f \in E /\ f \in A
    <3>1. l[f] = j[f] \o L \o v /\ r[f] = a[f] \o L \o w[f]
      BY <2>1, <2>3
    <3>2. j[f] = a[f] \o L \o e[f] /\ w[f] = e[f] \o L \o v
      BY <1>8, <1>12, <2>3
    <3>3. PICK x, y : x = a[f] \o L /\ y = e[f]
      OBVIOUS
    <3>4. x \in Text /\ y \in Text
      BY <1>1, <1>2, <1>5, <2>3, <3>3, TextConcat
    <3>5. ((x \o y) \o L) \o v = (x \o y) \o (L \o v)
      <4>1. x \o y \in Text
        BY <3>4, TextConcat
      <4> QED
        BY <1>5, <4>1, TextAssociative
    <3>6. (x \o y) \o (L \o v) = x \o (y \o (L \o v))
      <4>1. L \o v \in Text
        BY <1>5, TextConcat
      <4> QED
        BY <3>4, <4>1, TextAssociative
    <3>7. y \o (L \o v) = (y \o L) \o v
      BY <1>5, <3>4, TextAssociative
    <3> QED
      BY <3>1, <3>2, <3>3, <3>5, <3>6, <3>7, Zenon
  <2>4. CASE f = "data" /\ f \in E /\ f \notin A
    <3>1. l[f] = j[f] \o L \o v /\ r[f] = w[f]
      BY <2>1, <2>4
    <3>2. j[f] = e[f] /\ w[f] = e[f] \o L \o v
      BY <1>8, <1>12, <2>4
    <3> QED
      BY <3>1, <3>2, Zenon
  <2>5. CASE f = "data" /\ f \notin E /\ f \in A
    <3>1. l[f] = j[f] \o L \o v /\ r[f] = a[f] \o L \o w[f]
      BY <2>1, <2>5
    <3>2. j[f] = a[f] /\ w[f] = v
      BY <1>4, <1>8, <1>12, <2>5
    <3> QED
      BY <3>1, <3>2, Zenon
  <2>6. CASE f = "data" /\ f \notin E /\ f \notin A
    BY <1>4, <1>8, <2>1, <2>6
  <2> QED
    BY <2>2, <2>3, <2>4, <2>5, <2>6
<1>19. l = r
  <2>1. \A g \in A \cup E \cup {f} : l[g] = r[g]
    BY <1>17, <1>18
  <2>2. PICK D : D = A \cup E \cup {f}
    OBVIOUS
  <2>3. l = [g \in D |-> l[g]] /\ r = [g \in D |-> r[g]] /\ \A g \in D : l[g] = r[g]
    BY <1>14, <1>15, <1>16, <2>1, <2>2, Zenon
  <2> QED
    BY <2>3
<1> QED
  BY <1>7, <1>10, <1>11, <1>13, <1>19, Zenon

\* A line of a text is a text.
LEMMA LineText ==
  ASSUME NEW t \in Text, NEW i \in 1..Len(t)
  PROVE  LineBefore(t, i) \in Text
<1>1. Len(t) \in Nat
  BY LenProperties DEF Text
<1>2. i \in Nat \ {0}
  BY <1>1
<1>3. PICK b : IsStart(t, b, i)
  BY <1>2, StartExists
<1>4. PICK k : k = IF b + 1 < i /\ t[i - 1] = Return THEN i - 2 ELSE i - 1
  OBVIOUS
<1>5. LineBefore(t, i) = SubSeq(t, b + 1, k)
  BY <1>2, <1>3, <1>4, LineIs, Zenon
<1>6. b \in Nat /\ b < i
  BY <1>2, <1>3 DEF IsStart
<1>7. k \in 0..Len(t)
  BY <1>1, <1>4, <1>6
<1> QED
  BY <1>5, <1>6, <1>7, Piece

\* What a line of an event read so far adds, it adds also to two joined ones.
LEMMA ParseLineFrom ==
  ASSUME NEW a \in AnyEvent, NEW e \in AnyEvent, NEW line \in Text
  PROVE  /\ ParseLine(line, e) \in AnyEvent
         /\ ParseLine(line, Joined(a, e)) = Joined(a, ParseLine(line, e))
<1>1. PICK name, value : name = FieldOf(line) /\ value = ValueOf(line)
  OBVIOUS
<1> DEFINE Known == Len(name) = 1 /\ name[1] \in FieldSet /\ Accepts(name[1], value)
<1>2. \A ev : ParseLine(line, ev) = IF Known THEN With(ev, name[1], value) ELSE ev
  <2>1. SUFFICES ASSUME NEW ev
                 PROVE  ParseLine(line, ev) = IF Known THEN With(ev, name[1], value) ELSE ev
    OBVIOUS
  <2> QED
    BY <1>1, Zenon DEF ParseLine
<1>3. CASE Known
  <2>1. Len(name) + 2 = 3
    BY <1>3
  <2>2. Len(line) \in Nat
    BY LenProperties DEF Text
  <2>3. PICK v : v = SubSeq(line, 3, Len(line))
    OBVIOUS
  <2>4. v \in Text
    <3>1. Len(line) \in 0..Len(line) /\ 2 \in Nat
      BY <2>2
    <3>2. SubSeq(line, 2 + 1, Len(line)) \in Text
      BY <3>1, Piece
    <3>3. 2 + 1 = 3
      OBVIOUS
    <3> QED
      BY <2>3, <3>2, <3>3
  <2>5. value = IF v # <<>> /\ Head(v) = Space THEN Tail(v) ELSE v
    <3>1. SubSeq(line, Len(FieldOf(line)) + 2, Len(line)) = v
      BY <1>1, <2>1, <2>3
    <3> QED
      BY <1>1, <3>1, Zenon DEF ValueOf
  <2>6. value \in Text
    <3>1. v # <<>> => Tail(v) \in Text
      BY <2>4, HeadTailProperties DEF Text
    <3> QED
      BY <2>4, <2>5, <3>1
  <2>7. /\ With(e, name[1], value) \in AnyEvent
        /\ With(Joined(a, e), name[1], value) = Joined(a, With(e, name[1], value))
    BY <1>3, <2>6, JoinedWith
  <2> QED
    BY <1>2, <1>3, <2>7
<1>4. CASE ~Known
  <2>1. \A ev : ParseLine(line, ev) = ev
    BY <1>2, <1>4
  <2> QED
    BY <2>1
<1> QED
  BY <1>3, <1>4

\* Lines read after an event are joined to it.
LEMMA ParseFrom ==
  ASSUME NEW a \in AnyEvent, NEW t \in Text
  PROVE  /\ ParseLines(t, NoField) \in AnyEvent
         /\ ParseLines(t, a) = Joined(a, ParseLines(t, NoField))
<1>1. Len(t) \in Nat
  BY LenProperties DEF Text
<1>2. PICK n \in Nat : n = Len(t)
  BY <1>1
<1>3. PICK f : IsParse(f, t, a) /\ ParseLines(t, a) = f[n]
  BY <1>1, <1>2, ParseExists
<1>4. PICK g : IsParse(g, t, NoField) /\ ParseLines(t, NoField) = g[n]
  BY <1>1, <1>2, ParseExists
<1> DEFINE S == {i \in Nat : i <= n => g[i] \in AnyEvent /\ f[i] = Joined(a, g[i])}
<1>5. 0 \in S
  <2>1. f[0] = a /\ g[0] = NoField
    BY <1>3, <1>4 DEF IsParse
  <2> QED
    BY <2>1, JoinedEvent, NoFieldEvent
<1>6. ASSUME NEW i \in Nat, i \in S PROVE i + 1 \in S
  <2>1. SUFFICES ASSUME i + 1 <= n
                 PROVE  g[i + 1] \in AnyEvent /\ f[i + 1] = Joined(a, g[i + 1])
    OBVIOUS
  <2>2. PICK k : k = i + 1
    OBVIOUS
  <2>3. k \in 1..Len(t) /\ k - 1 = i /\ g[i] \in AnyEvent /\ f[i] = Joined(a, g[i])
    BY <1>2, <1>6, <2>1, <2>2
  <2>4. /\ f[k] = IF t[k] = NewLine THEN ParseLine(LineBefore(t, k), f[i]) ELSE f[i]
        /\ g[k] = IF t[k] = NewLine THEN ParseLine(LineBefore(t, k), g[i]) ELSE g[i]
    BY <1>3, <1>4, <2>3 DEF IsParse
  <2>5. LineBefore(t, k) \in Text
    BY <2>3, LineText
  <2>6. /\ ParseLine(LineBefore(t, k), g[i]) \in AnyEvent
        /\ ParseLine(LineBefore(t, k), f[i]) = Joined(a, ParseLine(LineBefore(t, k), g[i]))
    BY <2>3, <2>5, ParseLineFrom
  <2> QED
    BY <2>2, <2>3, <2>4, <2>6
<1> HIDE DEF S
<1>7. n \in S
  BY <1>5, <1>6, Induction
<1> QED
  BY <1>3, <1>4, <1>7 DEF S

\* What a server writes for an event is joined to what was read before.
LEMMA LinesFrom ==
  ASSUME NEW a \in AnyEvent, NEW e, WellFormed(e)
  PROVE  e \in AnyEvent /\ ParseLines(ToLines(e), a) = Joined(a, e)
<1>1. ToLines(e) \in Text /\ ParseLines(ToLines(e), NoField) = e
  BY EventLines DEF OneEvent
<1> QED
  BY <1>1, ParseFrom

\* Blocks goes through the events from the first; this is its function up to
\* the nth of them.
BlocksTo(g, s, p, n) ==
  /\ g[0] = [made |-> <<>>, kept |-> NoField]
  /\ \A i \in 1..n :
       LET kept == Joined(g[i - 1].kept, s[i])
       IN  g[i] = IF i \in p \/ ~Valid(kept) THEN [made |-> g[i - 1].made, kept |-> kept]
                  ELSE [made |-> Append(g[i - 1].made, kept), kept |-> NoField]

\* Blocks is the last value of its recursive function.
LEMMA BlocksExist ==
  ASSUME Len(sent) \in Nat
  PROVE  \E g : BlocksTo(g, sent, passed, Len(sent)) /\ Blocks = g[Len(sent)].made
<1> DEFINE After(b, i) ==
      LET kept == Joined(b.kept, sent[i])
      IN  IF i \in passed \/ ~Valid(kept) THEN [made |-> b.made, kept |-> kept]
          ELSE [made |-> Append(b.made, kept), kept |-> NoField]
    None == [made |-> <<>>, kept |-> NoField]
    Body(g, n) == [i \in 0..n |-> IF i = 0 THEN None ELSE After(g[i - 1], i)]
    S == {n \in Nat : \E g : g = Body(g, n)}
<1>1. Blocks = (CHOOSE g : g = Body(g, Len(sent)))[Len(sent)].made
  BY DEF Blocks
<1>2. \A g, n : BlocksTo(g, sent, passed, n) <=>
                   g[0] = None /\ \A i \in 1..n : g[i] = After(g[i - 1], i)
  BY DEF BlocksTo
<1> HIDE DEF After, None
<1>3. 0 \in S
  <2> DEFINE g == [i \in 0..0 |-> None]
  <2>1. g = Body(g, 0)
    OBVIOUS
  <2> QED
    BY <2>1
<1>4. ASSUME NEW n \in Nat, n \in S PROVE n + 1 \in S
  <2>1. PICK g : g = Body(g, n)
    BY <1>4
  <2> DEFINE h == [i \in 0..(n + 1) |-> IF i <= n THEN g[i] ELSE After(g[i - 1], i)]
  <2>2. \A i \in 0..n : g[i] = Body(g, n)[i]
    BY <2>1
  <2>3. ASSUME NEW i \in 0..(n + 1) PROVE h[i] = Body(h, n + 1)[i]
    <3>1. CASE i = 0
      BY <2>2, <3>1
    <3>2. CASE i \in 1..n
      <4>1. h[i] = g[i] /\ h[i - 1] = g[i - 1]
        BY <3>2
      <4> QED
        BY <2>2, <3>2, <4>1
    <3>3. CASE i = n + 1
      BY <3>3
    <3> QED
      BY <3>1, <3>2, <3>3
  <2>4. h = Body(h, n + 1)
    <3>1. h = [i \in 0..(n + 1) |-> h[i]]
      OBVIOUS
    <3>2. Body(h, n + 1) = [i \in 0..(n + 1) |-> Body(h, n + 1)[i]]
      OBVIOUS
    <3> HIDE DEF h, Body
    <3> QED
      BY <2>3, <3>1, <3>2
  <2> HIDE DEF h, Body
  <2> QED
    BY <2>4
<1>5. Len(sent) \in S
  <2> HIDE DEF S
  <2> QED
    BY <1>3, <1>4, Induction
<1> DEFINE g == CHOOSE g : g = Body(g, Len(sent))
<1>6. g = Body(g, Len(sent))
  BY <1>5
<1>7. Blocks = g[Len(sent)].made
  BY <1>1
<1> HIDE DEF g
<1>8. g[0] = None /\ \A i \in 1..Len(sent) : g[i] = After(g[i - 1], i)
  <2>1. \A i \in 0..Len(sent) : g[i] = IF i = 0 THEN None ELSE After(g[i - 1], i)
    BY <1>6
  <2>2. \A i \in 1..Len(sent) : i \in 0..Len(sent) /\ i # 0
    OBVIOUS
  <2>3. 0 \in 0..Len(sent)
    OBVIOUS
  <2> QED
    BY <2>1, <2>2, <2>3, Zenon
<1> QED
  BY <1>2, <1>7, <1>8, Zenon

\* What it makes of the first events depends on nothing else.
LEMMA BlocksSame ==
  ASSUME NEW g, NEW s, NEW p, NEW n \in Nat, BlocksTo(g, s, p, n),
         NEW t, NEW q, NEW m \in 0..n, \A i \in 1..m : t[i] = s[i] /\ (i \in q <=> i \in p)
  PROVE  BlocksTo(g, t, q, m)
<1> DEFINE After(b, x, over) ==
      LET kept == Joined(b.kept, x)
      IN  IF over \/ ~Valid(kept) THEN [made |-> b.made, kept |-> kept]
          ELSE [made |-> Append(b.made, kept), kept |-> NoField]
<1>1. /\ g[0] = [made |-> <<>>, kept |-> NoField]
      /\ \A i \in 1..n : g[i] = After(g[i - 1], s[i], i \in p)
  BY Zenon DEF BlocksTo
<1>2. ASSUME NEW i \in 1..m PROVE g[i] = After(g[i - 1], t[i], i \in q)
  <2>1. i \in 1..n /\ t[i] = s[i] /\ (i \in q <=> i \in p)
    OBVIOUS
  <2>2. CASE i \in p
    BY <1>1, <2>1, <2>2, Zenon
  <2>3. CASE i \notin p
    BY <1>1, <2>1, <2>3, Zenon
  <2> QED
    BY <2>2, <2>3
<1> QED
  BY <1>1, <1>2, Zenon DEF BlocksTo

\* One more event.
LEMMA BlocksNext ==
  ASSUME NEW g, NEW s, NEW p, NEW n \in Nat, BlocksTo(g, s, p, n), NEW i \in 1..n
  PROVE  /\ i \in p \/ ~Valid(Joined(g[i - 1].kept, s[i])) =>
              /\ g[i].made = g[i - 1].made
              /\ g[i].kept = Joined(g[i - 1].kept, s[i])
         /\ ~(i \in p \/ ~Valid(Joined(g[i - 1].kept, s[i]))) =>
              /\ g[i].made = Append(g[i - 1].made, Joined(g[i - 1].kept, s[i]))
              /\ g[i].kept = NoField
<1>1. PICK b, kept : b = g[i - 1] /\ kept = Joined(b.kept, s[i])
  OBVIOUS
<1>2. g[i] = IF i \in p \/ ~Valid(kept) THEN [made |-> b.made, kept |-> kept]
             ELSE [made |-> Append(b.made, kept), kept |-> NoField]
  BY <1>1, Zenon DEF BlocksTo
<1>3. i \in p \/ ~Valid(kept) => g[i].made = b.made /\ g[i].kept = kept
  BY <1>2
<1>4. ~(i \in p \/ ~Valid(kept)) => g[i].made = Append(b.made, kept) /\ g[i].kept = NoField
  BY <1>2
<1> QED
  BY <1>1, <1>3, <1>4, Zenon

\* What is made and kept are events.
LEMMA BlocksTyped ==
  ASSUME NEW g, NEW s, NEW p, NEW n \in Nat, BlocksTo(g, s, p, n),
         \A i \in 1..n : s[i] \in AnyEvent
  PROVE  \A i \in 0..n : g[i].made \in Seq(AnyEvent) /\ g[i].kept \in AnyEvent
<1> DEFINE I == {i \in Nat : i <= n => g[i].made \in Seq(AnyEvent) /\ g[i].kept \in AnyEvent}
<1>1. 0 \in I
  <2>1. g[0] = [made |-> <<>>, kept |-> NoField]
    BY Zenon DEF BlocksTo
  <2>2. g[0].made = <<>> /\ g[0].kept = NoField
    BY <2>1
  <2>3. <<>> \in Seq(AnyEvent)
    BY EmptySeq
  <2> QED
    BY <2>2, <2>3, NoFieldEvent
<1>2. ASSUME NEW i \in Nat, i \in I PROVE i + 1 \in I
  <2>1. SUFFICES ASSUME i + 1 <= n
                 PROVE  g[i + 1].made \in Seq(AnyEvent) /\ g[i + 1].kept \in AnyEvent
    OBVIOUS
  <2>2. PICK k : k = i + 1
    OBVIOUS
  <2>3. k \in 1..n /\ k - 1 = i /\ g[i].made \in Seq(AnyEvent) /\ g[i].kept \in AnyEvent
    BY <1>2, <2>1, <2>2
  <2>4. PICK x : x = Joined(g[i].kept, s[k])
    OBVIOUS
  <2>5. x \in AnyEvent /\ NoField \in AnyEvent
    BY <2>3, <2>4, JoinedEvent, NoFieldEvent
  <2>6. \/ g[k].made = g[i].made /\ g[k].kept = x
        \/ g[k].made = Append(g[i].made, x) /\ g[k].kept = NoField
    <3>1. g[k - 1] = g[i] /\ Joined(g[k - 1].kept, s[k]) = x
      BY <2>3, <2>4
    <3>2. \/ /\ g[k].made = g[k - 1].made
             /\ g[k].kept = Joined(g[k - 1].kept, s[k])
          \/ /\ g[k].made = Append(g[k - 1].made, Joined(g[k - 1].kept, s[k]))
             /\ g[k].kept = NoField
      BY <2>3, BlocksNext, Zenon
    <3> QED
      BY <3>1, <3>2, Zenon
  <2>7. Append(g[i].made, x) \in Seq(AnyEvent)
    BY <2>3, <2>5, AppendProperties
  <2> QED
    BY <2>2, <2>3, <2>5, <2>6, <2>7
<1> HIDE DEF I
<1>3. \A i \in Nat : i \in I
  BY <1>1, <1>2, Induction
<1> QED
  BY <1>3 DEF I

\* What is made first stays.
LEMMA BlocksStart ==
  ASSUME NEW g, NEW s, NEW p, NEW n \in Nat, BlocksTo(g, s, p, n),
         \A i \in 1..n : s[i] \in AnyEvent, NEW m \in 0..n
  PROVE  Starts(g[m].made, g[n].made)
<1>1. \A i \in 0..n : g[i].made \in Seq(AnyEvent) /\ g[i].kept \in AnyEvent
  BY BlocksTyped
<1>2. PICK a : a = g[m].made
  OBVIOUS
<1>3. a \in Seq(AnyEvent) /\ Len(a) \in Nat
  BY <1>1, <1>2, LenProperties
<1> DEFINE I == {i \in Nat : i >= m /\ i <= n => Starts(a, g[i].made)}
<1>4. Starts(a, a)
  BY <1>3 DEF Starts
<1>5. 0 \in I
  <2>1. 0 >= m => m = 0
    OBVIOUS
  <2> QED
    BY <1>2, <1>4, <2>1
<1>6. ASSUME NEW i \in Nat, i \in I PROVE i + 1 \in I
  <2>1. SUFFICES ASSUME i + 1 >= m, i + 1 <= n PROVE Starts(a, g[i + 1].made)
    OBVIOUS
  <2>2. CASE i + 1 = m
    BY <1>2, <1>4, <2>2
  <2>3. CASE i + 1 # m
    <3>1. PICK k : k = i + 1
      OBVIOUS
    <3>2. k \in 1..n /\ k - 1 = i /\ i \in 0..n /\ Starts(a, g[i].made)
      BY <1>6, <2>1, <2>3, <3>1
    <3>3. PICK b, x : b = g[i].made /\ x = Joined(g[i].kept, s[k])
      OBVIOUS
    <3>4. b \in Seq(AnyEvent) /\ x \in AnyEvent
      BY <1>1, <3>2, <3>3, JoinedEvent
    <3>5. g[k].made = b \/ g[k].made = Append(b, x)
      BY <3>2, <3>3, BlocksNext
    <3>6. /\ Len(Append(b, x)) = Len(b) + 1 /\ Len(b) \in Nat
          /\ \A j \in 1..Len(b) : Append(b, x)[j] = b[j]
      BY <3>4, AppendProperties, LenProperties
    <3>7. Starts(a, Append(b, x))
      BY <1>3, <3>2, <3>3, <3>6 DEF Starts
    <3> QED
      BY <3>1, <3>2, <3>3, <3>5, <3>7
  <2> QED
    BY <2>2, <2>3
<1> HIDE DEF I
<1>7. n \in I
  BY <1>5, <1>6, Induction
<1> QED
  BY <1>2, <1>7 DEF I

\* If no event is passed, those that have a field are made.
LEMMA BlocksAlone ==
  ASSUME NEW g, NEW s \in Seq(AnyEvent), BlocksTo(g, s, {}, Len(s))
  PROVE  g[Len(s)].made = WithField(s)
<1>1. Len(s) \in Nat /\ \A i \in 1..Len(s) : s[i] \in AnyEvent
  BY LenProperties, ElementOfSeq
<1>2. PICK n \in Nat : n = Len(s)
  BY <1>1
<1>3. PICK w : IsWith(w, s) /\ WithField(s) = w[n]
  BY <1>2, WithExists
<1> DEFINE I == {i \in Nat : i <= n => g[i].made = w[i] /\ g[i].kept = NoField}
<1>4. 0 \in I
  <2>1. g[0] = [made |-> <<>>, kept |-> NoField] /\ w[0] = <<>>
    BY <1>3, Zenon DEF BlocksTo, IsWith
  <2> QED
    BY <2>1
<1>5. ASSUME NEW i \in Nat, i \in I PROVE i + 1 \in I
  <2>1. SUFFICES ASSUME i + 1 <= n
                 PROVE  g[i + 1].made = w[i + 1] /\ g[i + 1].kept = NoField
    OBVIOUS
  <2>2. PICK k : k = i + 1
    OBVIOUS
  <2>3. k \in 1..n /\ k - 1 = i /\ g[i].made = w[i] /\ g[i].kept = NoField
    BY <1>5, <2>1, <2>2
  <2>4. PICK x : x = s[k]
    OBVIOUS
  <2>5. x \in AnyEvent /\ Joined(NoField, x) = x
    BY <1>1, <1>2, <2>3, <2>4, JoinedEvent
  <2>6. w[k] = IF Valid(x) THEN Append(w[i], x) ELSE w[i]
    BY <1>2, <1>3, <2>3, <2>4 DEF IsWith
  <2>7. /\ ~Valid(x) => g[k].made = g[i].made /\ g[k].kept = x
        /\ Valid(x) => g[k].made = Append(g[i].made, x) /\ g[k].kept = NoField
    <3>1. /\ k \in {} \/ ~Valid(Joined(g[k - 1].kept, s[k])) =>
                /\ g[k].made = g[k - 1].made
                /\ g[k].kept = Joined(g[k - 1].kept, s[k])
          /\ ~(k \in {} \/ ~Valid(Joined(g[k - 1].kept, s[k]))) =>
                /\ g[k].made = Append(g[k - 1].made, Joined(g[k - 1].kept, s[k]))
                /\ g[k].kept = NoField
      BY <1>2, <2>3, BlocksNext
    <3>2. Joined(g[k - 1].kept, s[k]) = x /\ g[k - 1] = g[i] /\ k \notin {}
      BY <2>3, <2>4, <2>5
    <3> QED
      BY <3>1, <3>2, Zenon
  <2>8. ~Valid(x) => x = NoField
    <3>1. x = [f \in DOMAIN x |-> x[f]]
      BY <2>5, EventDomain
    <3> QED
      BY <3>1 DEF Valid, NoField
  <2> QED
    BY <2>2, <2>3, <2>6, <2>7, <2>8, Zenon
<1> HIDE DEF I
<1>6. n \in I
  BY <1>4, <1>5, Induction
<1> QED
  BY <1>2, <1>3, <1>6 DEF I

-----------------------------------------------------------------------------
(* Where the events lie in the text.                                       *)

\* An empty line of a text ends at position p.
EmptyAt(t, p) == p \in 2..Len(t) /\ t[p - 1] = NewLine /\ t[p] = NewLine

\* The ends f of the events s in the text t: what lies between two of them is
\* what was written for the event, and no other position ends an empty line.
PlacedAt(s, t, f) ==
  /\ s \in Seq(Events) /\ t \in Text /\ Len(s) \in Nat /\ Len(t) \in Nat
  /\ f \in [0..Len(s) -> 0..Len(t)]
  /\ f[0] \in {0, 1} /\ (f[0] = 1 => t[1] = NewLine) /\ f[Len(s)] = Len(t)
  /\ \A i \in 1..Len(s) : SubSeq(t, f[i - 1] + 1, f[i]) = ToLines(s[i])
  /\ \A i, j \in 0..Len(s) : i < j => f[i] + 2 < f[j]
  /\ \A p \in 1..Len(t) : EmptyAt(t, p) <=> \E i \in 1..Len(s) : p = f[i]

\* An event is appended: what there was stays as it is.
Grown(s, t, f, s1, t1, f1) ==
  /\ Len(s1) = Len(s) + 1 /\ s1 \in Seq(Events)
  /\ \A i \in 1..Len(s) : s1[i] = s[i]
  /\ \A i \in 0..Len(s) : SubSeq(s1, 1, i) = SubSeq(s, 1, i)
  /\ t1 \in Text /\ Len(t1) = Len(t) + Len(ToLines(s1[Len(s1)]))
  /\ \A i \in 1..Len(t) : t1[i] = t[i]
  /\ \A i \in 1..Len(ToLines(s1[Len(s1)])) : t1[Len(t) + i] = ToLines(s1[Len(s1)])[i]
  /\ SubSeq(t1, Len(t) + 1, Len(t1)) = ToLines(s1[Len(s1)])
  /\ \A a \in Nat : \A b \in 0..Len(t) : SubSeq(t1, a + 1, b) = SubSeq(t, a + 1, b)
  /\ f1 = [i \in 0..Len(s1) |-> f1[i]] /\ f1[Len(s1)] = Len(t1)
  /\ \A i \in 0..Len(s) : f1[i] = f[i]

\* Send does so.
LEMMA Grows ==
  ASSUME NEW s, NEW t, NEW f, PlacedAt(s, t, f), NEW e \in Events, WellFormed(e),
         NEW s1, s1 = Append(s, e), NEW t1, t1 = t \o ToLines(e),
         NEW f1, f1 = [i \in 0..Len(s1) |-> IF i > Len(s) THEN Len(t1) ELSE f[i]]
  PROVE  Grown(s, t, f, s1, t1, f1)
<1>1. PICK w : w = ToLines(e)
  OBVIOUS
<1>2. w \in Text
  BY <1>1, EventLines DEF OneEvent
<1>3. /\ s \in Seq(Events) /\ t \in Text /\ Len(s) \in Nat /\ Len(t) \in Nat
      /\ f \in [0..Len(s) -> 0..Len(t)]
  BY DEF PlacedAt
<1>4. /\ t1 \in Text /\ Len(t1) = Len(t) + Len(w)
      /\ \A i \in 1..Len(t) : t1[i] = t[i]
      /\ \A i \in 1..Len(w) : t1[Len(t) + i] = w[i]
  <2>1. t1 = t \o w
    BY <1>1
  <2> QED
    BY <1>2, <1>3, <2>1, TextConcat
<1>5. /\ s1 \in Seq(Events) /\ Len(s1) = Len(s) + 1 /\ s1[Len(s1)] = e
      /\ \A i \in 1..Len(s) : s1[i] = s[i]
  BY <1>3, AppendProperties
<1>6. /\ f1 = [i \in 0..Len(s1) |-> f1[i]] /\ f1[Len(s1)] = Len(t1)
      /\ \A i \in 0..Len(s) : f1[i] = f[i]
  <2>1. \A i \in 0..Len(s1) : f1[i] = IF i > Len(s) THEN Len(t1) ELSE f[i]
    OBVIOUS
  <2>2. f1 = [i \in 0..Len(s1) |-> f1[i]]
    OBVIOUS
  <2> QED
    BY <1>3, <1>5, <2>1, <2>2
<1>7. \A a \in Nat : \A b \in 0..Len(t) : SubSeq(t1, a + 1, b) = SubSeq(t, a + 1, b)
  BY <1>1, <1>2, <1>3, PieceOfFirst
<1>9. SubSeq(t1, Len(t) + 1, Len(t1)) = w
  BY <1>1, <1>2, <1>3, <1>4, PieceSecond
<1>8. ASSUME NEW i \in 0..Len(s) PROVE SubSeq(s1, 1, i) = SubSeq(s, 1, i)
  <2>1. /\ \A j \in 1..i : s[j] \in Events /\ s1[j] \in Events /\ s1[j] = s[j]
        /\ 1 \in Int /\ i \in Int
    BY <1>3, <1>5, ElementOfSeq
  <2>2. PICK u, v : u = SubSeq(s, 1, i) /\ v = SubSeq(s1, 1, i)
    OBVIOUS
  <2>3. /\ u \in Seq(Events) /\ Len(u) = i /\ \A j \in 1..i : u[j] = s[j]
    <3>1. /\ u \in Seq(Events) /\ Len(u) = IF 1 <= i THEN i - 1 + 1 ELSE 0
          /\ \A j \in 1..(i - 1 + 1) : u[j] = s[1 + j - 1]
      BY <2>1, <2>2, SubSeqProperties
    <3> QED
      BY <3>1
  <2>4. /\ v \in Seq(Events) /\ Len(v) = i /\ \A j \in 1..i : v[j] = s1[j]
    <3>1. /\ v \in Seq(Events) /\ Len(v) = IF 1 <= i THEN i - 1 + 1 ELSE 0
          /\ \A j \in 1..(i - 1 + 1) : v[j] = s1[1 + j - 1]
      BY <2>1, <2>2, SubSeqProperties
    <3> QED
      BY <3>1
  <2>5. Len(u) = Len(v) /\ \A j \in 1..Len(u) : u[j] = v[j]
    BY <2>1, <2>3, <2>4
  <2> QED
    BY <2>2, <2>3, <2>4, <2>5, SeqEqual
<1>10. PICK x : x = ToLines(s1[Len(s1)])
  OBVIOUS
<1>11. x = w
  BY <1>1, <1>5, <1>10, Zenon
<1>12. /\ Len(t1) = Len(t) + Len(x) /\ \A i \in 1..Len(x) : t1[Len(t) + i] = x[i]
       /\ SubSeq(t1, Len(t) + 1, Len(t1)) = x
  BY <1>4, <1>9, <1>11, Zenon
<1>13. /\ Len(t1) = Len(t) + Len(ToLines(s1[Len(s1)]))
       /\ \A i \in 1..Len(ToLines(s1[Len(s1)])) : t1[Len(t) + i] = ToLines(s1[Len(s1)])[i]
       /\ SubSeq(t1, Len(t) + 1, Len(t1)) = ToLines(s1[Len(s1)])
  BY <1>10, <1>12, Zenon
<1> QED
  BY <1>4, <1>5, <1>6, <1>7, <1>8, <1>13, Zenon DEF Grown

\* The events then lie in the text as before, and the new one at its end.
LEMMA PlacedNext ==
  ASSUME NEW s, NEW t, NEW f, PlacedAt(s, t, f), NEW s1, NEW t1, NEW f1,
         Grown(s, t, f, s1, t1, f1)
  PROVE  PlacedAt(s1, t1, f1) /\ Len(t1) > Len(t)
<1>1. PICK e, w : e = s1[Len(s1)] /\ w = ToLines(e)
  OBVIOUS
<1>3. /\ s \in Seq(Events) /\ t \in Text /\ Len(s) \in Nat /\ Len(t) \in Nat
      /\ \A i \in 0..Len(s) : f[i] \in 0..Len(t)
      /\ f[Len(s)] = Len(t)
  BY DEF PlacedAt
<1>5. /\ s1 \in Seq(Events) /\ Len(s1) = Len(s) + 1 /\ s1[Len(s1)] = e
      /\ \A i \in 1..Len(s) : s1[i] = s[i]
  BY <1>1 DEF Grown
<1>2. /\ w \in Text /\ Len(w) \in Nat /\ Len(w) > 2 /\ w[1] # NewLine
      /\ w[Len(w) - 1] = NewLine /\ w[Len(w)] = NewLine
      /\ \A i \in 2..(Len(w) - 1) : w[i] # NewLine \/ w[i - 1] # NewLine
  <2>0. WellFormed(e)
    <3>1. Len(s1) \in 1..Len(s1)
      BY <1>3, <1>5
    <3>2. e \in Events
      BY <1>5, <3>1, ElementOfSeq
    <3> QED
      BY <3>2, PeerAssumption
  <2>1. OneEvent(w)
    BY <1>1, <2>0, EventLines
  <2>2. w \in Text /\ Len(w) \in Nat
    BY <2>1, LenProperties DEF OneEvent, Text
  <2> QED
    BY <2>1, <2>2 DEF OneEvent
<1>4. /\ t1 \in Text /\ Len(t1) = Len(t) + Len(w) /\ Len(t1) \in Nat /\ Len(t1) > Len(t) + 2
      /\ \A i \in 1..Len(t) : t1[i] = t[i]
      /\ \A i \in 1..Len(w) : t1[Len(t) + i] = w[i]
  <2>1. /\ t1 \in Text /\ Len(t1) = Len(t) + Len(w)
        /\ \A i \in 1..Len(t) : t1[i] = t[i]
        /\ \A i \in 1..Len(w) : t1[Len(t) + i] = w[i]
    BY <1>1, Zenon DEF Grown
  <2> QED
    BY <1>2, <1>3, <2>1
<1>6. /\ f1[Len(s1)] = Len(t1)
      /\ \A i \in 0..Len(s) : f1[i] = f[i] /\ f[i] \in 0..Len(t)
  <2>1. f1[Len(s1)] = Len(t1) /\ \A i \in 0..Len(s) : f1[i] = f[i]
    BY Zenon DEF Grown
  <2> QED
    BY <1>3, <2>1
<1>8. f1 = [i \in 0..Len(s1) |-> f1[i]]
  BY Zenon DEF Grown
<1>14. SubSeq(t1, Len(t) + 1, Len(t1)) = w
  BY <1>1, Zenon DEF Grown
<1>7. \A a \in Nat : \A b \in 0..Len(t) : SubSeq(t1, a + 1, b) = SubSeq(t, a + 1, b)
  BY DEF Grown
<1>9. f1 \in [0..Len(s1) -> 0..Len(t1)]
  <2>1. ASSUME NEW i \in 0..Len(s1) PROVE f1[i] \in 0..Len(t1)
    <3>1. i \in 0..Len(s) \/ i = Len(s1)
      BY <1>3, <1>5
    <3>2. CASE i \in 0..Len(s)
      <4>1. f1[i] \in 0..Len(t)
        BY <1>6, <3>2
      <4> QED
        BY <1>3, <1>4, <4>1
    <3>3. CASE i = Len(s1)
      BY <1>4, <1>6, <3>3
    <3> QED
      BY <3>1, <3>2, <3>3
  <2> QED
    BY <1>8, <2>1
<1>10. f1[0] \in {0, 1} /\ (f1[0] = 1 => t1[1] = NewLine)
  <2>1. f[0] \in {0, 1} /\ (f[0] = 1 => t[1] = NewLine) /\ f[0] \in 0..Len(t) /\ f1[0] = f[0]
    BY <1>3, <1>6 DEF PlacedAt
  <2> QED
    BY <1>3, <1>4, <2>1
<1>11. ASSUME NEW i \in 1..Len(s1) PROVE SubSeq(t1, f1[i - 1] + 1, f1[i]) = ToLines(s1[i])
  <2>1. CASE i \in 1..Len(s)
    <3>1. i - 1 \in 0..Len(s) /\ i \in 0..Len(s)
      BY <1>3, <2>1
    <3>2. PICK a \in Nat, b \in 0..Len(t) : a = f[i - 1] /\ b = f[i]
      BY <1>6, <3>1
    <3>3. SubSeq(t, a + 1, b) = ToLines(s[i])
      BY <2>1, <3>2 DEF PlacedAt
    <3>4. f1[i - 1] = a /\ f1[i] = b /\ s1[i] = s[i]
      BY <1>5, <1>6, <2>1, <3>1, <3>2
    <3> QED
      BY <1>7, <3>3, <3>4
  <2>2. CASE i = Len(s1)
    <3>1. i - 1 = Len(s)
      BY <1>3, <1>5, <2>2
    <3>2. f1[i - 1] = Len(t)
      BY <1>3, <1>6, <3>1
    <3>3. f1[i] = Len(t1) /\ s1[i] = e
      BY <1>5, <1>6, <2>2
    <3> QED
      BY <1>1, <1>14, <3>2, <3>3, Zenon
  <2> QED
    BY <1>3, <1>5, <2>1, <2>2
<1>12. ASSUME NEW i \in 0..Len(s1), NEW j \in 0..Len(s1), i < j PROVE f1[i] + 2 < f1[j]
  <2>1. CASE j \in 0..Len(s)
    <3>1. i \in 0..Len(s) /\ f[i] + 2 < f[j]
      BY <1>3, <1>12, <2>1 DEF PlacedAt
    <3> QED
      BY <1>6, <2>1, <3>1
  <2>2. CASE j = Len(s1)
    <3>1. i \in 0..Len(s)
      BY <1>3, <1>5, <1>12, <2>2
    <3>2. f1[i] \in 0..Len(t) /\ f1[j] = Len(t1)
      BY <1>6, <2>2, <3>1
    <3> QED
      BY <1>3, <1>4, <3>2
  <2> QED
    BY <1>3, <1>5, <2>1, <2>2
<1>13. ASSUME NEW p \in 1..Len(t1) PROVE EmptyAt(t1, p) <=> \E i \in 1..Len(s1) : p = f1[i]
  <2>1. CASE p \in 1..Len(t)
    <3>1. EmptyAt(t1, p) <=> EmptyAt(t, p)
      <4>0. PICK q : q = p - 1
        OBVIOUS
      <4>1. t1[p] = t[p] /\ (p >= 2 => t1[q] = t[q])
        <5>1. p >= 2 => q \in 1..Len(t)
          BY <1>3, <2>1, <4>0
        <5> QED
          BY <1>4, <2>1, <5>1
      <4>2. (p \in 2..Len(t1) <=> p >= 2) /\ (p \in 2..Len(t) <=> p >= 2)
        BY <1>3, <1>4, <2>1
      <4> QED
        BY <4>0, <4>1, <4>2 DEF EmptyAt
    <3>2. EmptyAt(t, p) <=> \E i \in 1..Len(s) : p = f[i]
      BY <2>1 DEF PlacedAt
    <3>3. (\E i \in 1..Len(s) : p = f[i]) <=> \E i \in 1..Len(s1) : p = f1[i]
      <4>1. \A i \in 1..Len(s) : i \in 1..Len(s1) /\ f1[i] = f[i]
        BY <1>3, <1>5, <1>6
      <4>2. \A i \in 1..Len(s1) : i \in 1..Len(s) \/ f1[i] = Len(t1)
        BY <1>3, <1>5, <1>6
      <4>3. p # Len(t1)
        BY <1>3, <1>4, <2>1
      <4> QED
        BY <4>1, <4>2, <4>3
    <3> QED
      BY <3>1, <3>2, <3>3
  <2>2. CASE p \notin 1..Len(t)
    <3>1. PICK q : q = p - Len(t)
      OBVIOUS
    <3>2. q \in 1..Len(w) /\ p = Len(t) + q /\ p - 1 = Len(t) + (q - 1)
      BY <1>2, <1>3, <1>4, <2>2, <3>1
    <3>3. t1[p] = w[q] /\ (q >= 2 => t1[p - 1] = w[q - 1])
      <4>1. PICK r : r = q - 1
        OBVIOUS
      <4>2. q >= 2 => r \in 1..Len(w)
        BY <1>2, <3>2, <4>1
      <4>3. t1[Len(t) + q] = w[q] /\ (q >= 2 => t1[Len(t) + r] = w[r])
        BY <1>4, <3>2, <4>2
      <4> QED
        BY <3>2, <4>1, <4>3
    <3>4. EmptyAt(t1, p) <=> p = Len(t1)
      <4>1. CASE q = 1
        BY <1>2, <1>3, <1>4, <3>2, <3>3, <4>1 DEF EmptyAt
      <4>2. CASE q \in 2..(Len(w) - 1)
        <5>1. w[q] # NewLine \/ w[q - 1] # NewLine
          BY <1>2, <4>2
        <5>2. q \in 1..Len(w) /\ q >= 2 /\ p # Len(t1)
          BY <1>2, <1>3, <1>4, <3>2, <4>2
        <5>3. t1[p] = w[q] /\ t1[p - 1] = w[q - 1]
          BY <3>3, <5>2
        <5> QED
          BY <5>1, <5>2, <5>3, Zenon DEF EmptyAt
      <4>3. CASE q = Len(w)
        <5>1. p = Len(t1) /\ p \in 2..Len(t1) /\ t1[p] = NewLine /\ t1[p - 1] = NewLine
          BY <1>2, <1>3, <1>4, <3>2, <3>3, <4>3
        <5> QED
          BY <5>1 DEF EmptyAt
      <4> QED
        BY <1>2, <3>2, <4>1, <4>2, <4>3
    <3>5. p = Len(t1) <=> \E i \in 1..Len(s1) : p = f1[i]
      <4>1. \A i \in 1..Len(s) : f1[i] \in 0..Len(t)
        BY <1>3, <1>6
      <4>2. Len(s1) \in 1..Len(s1) /\ \A i \in 1..Len(s1) : i \in 1..Len(s) \/ i = Len(s1)
        BY <1>3, <1>5
      <4>3. p > Len(t)
        BY <1>2, <1>3, <3>2
      <4>4. ASSUME NEW i \in 1..Len(s) PROVE p # f1[i]
        BY <1>3, <4>1, <4>3
      <4> QED
        BY <1>6, <4>2, <4>4
    <3> QED
      BY <3>4, <3>5
  <2> QED
    BY <2>1, <2>2
<1>15. PlacedAt(s1, t1, f1)
  <2>1. Len(s1) \in Nat /\ \A i, j \in 0..Len(s1) : i < j => f1[i] + 2 < f1[j]
    BY <1>3, <1>5, <1>12
  <2> QED
    BY <1>4, <1>5, <1>6, <1>9, <1>10, <1>11, <1>13, <2>1, Zenon DEF PlacedAt
<1> QED
  BY <1>3, <1>4, <1>15

\* Where the events lie in the text of the stream.
Placed == PlacedAt(sent, text, ends)

\* What Placed says of types.
LEMMA PlacedTypes ==
  ASSUME Placed
  PROVE  /\ sent \in Seq(Events) /\ text \in Text /\ Len(sent) \in Nat /\ Len(text) \in Nat
         /\ \A i \in 0..Len(sent) : ends[i] \in 0..Len(text)
         /\ \A i \in 1..Len(sent) : sent[i] \in Events /\ WellFormed(sent[i])
         /\ ends[Len(sent)] = Len(text)
<1>1. /\ sent \in Seq(Events) /\ text \in Text /\ Len(sent) \in Nat /\ Len(text) \in Nat
      /\ ends \in [0..Len(sent) -> 0..Len(text)] /\ ends[Len(sent)] = Len(text)
  BY DEF Placed, PlacedAt
<1>2. \A i \in 1..Len(sent) : sent[i] \in Events
  BY <1>1, ElementOfSeq
<1> QED
  BY <1>1, <1>2, PeerAssumption

\* The ends of events are in their order.
LEMMA PlacedOrder ==
  ASSUME Placed, NEW i \in 0..Len(sent), NEW j \in 0..Len(sent)
  PROVE  /\ i < j => ends[i] + 2 < ends[j]
         /\ i <= j => ends[i] <= ends[j]
         /\ ends[i] <= ends[j] => i <= j
<1>1. \A k, l \in 0..Len(sent) : k < l => ends[k] + 2 < ends[l]
  BY DEF Placed, PlacedAt
<1>2. ends[i] \in 0..Len(text) /\ ends[j] \in 0..Len(text) /\ Len(sent) \in Nat /\ Len(text) \in Nat
  BY PlacedTypes
<1>3. i < j => ends[i] + 2 < ends[j]
  BY <1>1
<1>4. j < i => ends[j] + 2 < ends[i]
  BY <1>1
<1>5. PICK a, b : a = ends[i] /\ b = ends[j]
  OBVIOUS
<1>6. (i < j \/ i = j \/ j < i) /\ (i = j => a = b)
  BY <1>2, <1>5
<1> QED
  BY <1>2, <1>3, <1>4, <1>5, <1>6

\* The empty lines are the ends of events.
LEMMA EmptyLines ==
  ASSUME Placed, NEW p \in 1..Len(text)
  PROVE  EmptyLine(p) <=> \E i \in 1..Len(sent) : p = ends[i]
<1>1. EmptyAt(text, p) <=> \E i \in 1..Len(sent) : p = ends[i]
  BY DEF Placed, PlacedAt
<1> QED
  BY <1>1 DEF EmptyLine, EmptyAt

\* An event ends with a newline, and so does what is before the first.
LEMMA EndsAfterNewLine ==
  ASSUME Placed, NEW i \in 0..Len(sent), ends[i] > 0
  PROVE  text[ends[i]] = NewLine
<1>1. CASE i = 0
  <2>1. ends[0] \in {0, 1} /\ (ends[0] = 1 => text[1] = NewLine)
    BY DEF Placed, PlacedAt
  <2> QED
    BY <1>1, <2>1
<1>2. CASE i # 0
  <2>1. PICK p : p = ends[i]
    OBVIOUS
  <2>2. i \in 1..Len(sent) /\ p \in 1..Len(text)
    BY <1>2, <2>1, PlacedTypes
  <2>3. EmptyLine(p)
    BY <2>1, <2>2, EmptyLines
  <2> QED
    BY <2>1, <2>3 DEF EmptyLine
<1> QED
  BY <1>1, <1>2

\* The first empty line behind an event, if it is not read past, is that of
\* the next one.
LEMMA NextEnd ==
  ASSUME Placed, NEW n \in 0..Len(sent), NEW to \in 1..Len(text), NEW low \in Nat,
         EmptyLine(to), to > ends[n],
         n < Len(sent) => ends[n + 1] >= low,
         \A i \in low..(to - 1) : ~EmptyLine(i)
  PROVE  n < Len(sent) /\ to = ends[n + 1]
<1>1. PICK j \in 1..Len(sent) : to = ends[j]
  BY EmptyLines
<1>2. Len(sent) \in Nat /\ Len(text) \in Nat /\ \A i \in 0..Len(sent) : ends[i] \in 0..Len(text)
  BY PlacedTypes
<1>3. j \in 0..Len(sent)
  BY <1>2
<1>4. j > n
  <2>1. j <= n => ends[j] <= ends[n]
    BY <1>3, PlacedOrder
  <2>2. ends[n] \in 0..Len(text)
    BY <1>2
  <2> QED
    BY <1>1, <1>2, <2>1, <2>2
<1>5. n < Len(sent)
  BY <1>2, <1>4
<1>6. PICK m : m = n + 1
  OBVIOUS
<1>7. m \in 1..Len(sent) /\ m \in 0..Len(sent) /\ ends[m] \in 0..Len(text) /\ ends[m] >= low
  BY <1>2, <1>5, <1>6
<1>8. ASSUME m < j PROVE FALSE
  <2>1. ends[m] + 2 < ends[j]
    BY <1>3, <1>7, <1>8, PlacedOrder
  <2>2. PICK p : p = ends[m]
    OBVIOUS
  <2>3. p \in low..(to - 1) /\ p < to
    BY <1>1, <1>2, <1>7, <2>1, <2>2
  <2>4. ends[0] \in 0..Len(text) /\ ends[0] + 2 < ends[m]
    <3>1. 0 \in 0..Len(sent) /\ 0 < m
      BY <1>2, <1>7
    <3> QED
      BY <1>2, <1>7, <3>1, PlacedOrder
  <2>5. p \in 1..Len(text)
    BY <1>2, <1>7, <2>2, <2>4
  <2>6. EmptyLine(p)
    BY <1>7, <2>2, <2>5, EmptyLines
  <2> QED
    BY <2>3, <2>6
<1>9. j = m
  BY <1>3, <1>4, <1>6, <1>8
<1> QED
  BY <1>1, <1>5, <1>6, <1>9

\* A piece of the text that means the event x.
Kept(a, b, x) ==
  /\ a \in Nat /\ a <= b /\ Ended(SubSeq(text, a + 1, b))
  /\ ParseLines(SubSeq(text, a + 1, b), NoField) = x

\* One that means nothing.
Blank(a, b) == Kept(a, b, NoField)

\* With the next event it means the two joined.
LEMMA KeptNext ==
  ASSUME Placed, NEW n \in Nat, n < Len(sent), NEW a, NEW x \in AnyEvent,
         Kept(a, ends[n], x)
  PROVE  /\ ParseBlock(SubSeq(text, a + 1, ends[n + 1])) = Joined(x, sent[n + 1])
         /\ EndsEvent(SubSeq(text, a + 1, ends[n + 1]))
         /\ Kept(a, ends[n + 1], Joined(x, sent[n + 1]))
<1>1. PICK m : m = n + 1
  OBVIOUS
<1>2. Len(sent) \in Nat /\ Len(text) \in Nat /\ text \in Text
  BY PlacedTypes
<1>3. m \in 1..Len(sent) /\ m \in 0..Len(sent) /\ n \in 0..Len(sent) /\ m - 1 = n /\ n < m
  BY <1>1, <1>2
<1>4. PICK b, c : b = ends[n] /\ c = ends[m]
  OBVIOUS
<1>5. b \in 0..Len(text) /\ c \in 0..Len(text) /\ b + 2 < c /\ a \in Nat /\ a <= b
  BY <1>3, <1>4, PlacedTypes, PlacedOrder DEF Kept
<1>6. PICK p, w, u : /\ p = SubSeq(text, a + 1, b) /\ w = SubSeq(text, b + 1, c)
                     /\ u = SubSeq(text, a + 1, c)
  OBVIOUS
<1>7. w = ToLines(sent[m]) /\ WellFormed(sent[m])
  <2>1. \A i \in 1..Len(sent) : SubSeq(text, ends[i - 1] + 1, ends[i]) = ToLines(sent[i])
    BY Zenon DEF Placed, PlacedAt
  <2>2. SubSeq(text, ends[m - 1] + 1, ends[m]) = ToLines(sent[m])
    BY <1>3, <2>1
  <2> QED
    BY <1>3, <1>4, <1>6, <2>2, PlacedTypes
<1>8. OneEvent(w) /\ ParseLines(w, x) = Joined(x, sent[m])
  BY <1>7, EventLines, LinesFrom
<1>9. p \in Text /\ Ended(p) /\ ParseLines(p, NoField) = x
  BY <1>2, <1>4, <1>5, <1>6, Piece DEF Kept
<1>10. u = p \o w
  <2>1. b \in a..Len(text) /\ c \in b..Len(text)
    BY <1>2, <1>5
  <2> QED
    BY <1>2, <1>5, <1>6, <2>1, PieceSplit
<1>11. w \in Text
  BY <1>8 DEF OneEvent
<1>12. ParseLines(u, NoField) = Joined(x, sent[m])
  BY <1>8, <1>9, <1>10, <1>11, ParseConcat
<1>13. /\ Len(p) \in Nat /\ Len(w) \in Nat /\ Len(u) = Len(p) + Len(w)
       /\ \A i \in 1..Len(w) : u[Len(p) + i] = w[i]
  BY <1>9, <1>10, <1>11, TextConcat
<1>14. Len(w) > 2 /\ w[Len(w) - 1] = NewLine /\ w[Len(w)] = NewLine
  BY <1>8 DEF OneEvent
<1>15. Len(u) > 2 /\ u[Len(u) - 1] = NewLine /\ u[Len(u)] = NewLine
  <2>1. PICK k, l : k = Len(w) - 1 /\ l = Len(w)
    OBVIOUS
  <2>2. /\ k \in 1..Len(w) /\ l \in 1..Len(w)
        /\ Len(u) - 1 = Len(p) + k /\ Len(u) = Len(p) + l
    BY <1>13, <1>14, <2>1
  <2>3. u[Len(p) + k] = w[k] /\ u[Len(p) + l] = w[l]
    BY <1>13, <2>2
  <2> QED
    BY <1>13, <1>14, <2>1, <2>2, <2>3
<1>16. EndsEvent(u)
  BY <1>13, <1>15 DEF EndsEvent
<1>17. ParseBlock(u) = Joined(x, sent[m])
  BY <1>12, <1>15 DEF ParseBlock
<1>18. Kept(a, c, Joined(x, sent[m]))
  <2>1. Ended(u)
    BY <1>15 DEF Ended
  <2>2. a \in Nat /\ a <= c
    BY <1>2, <1>5
  <2>3. /\ Ended(SubSeq(text, a + 1, c))
        /\ ParseLines(SubSeq(text, a + 1, c), NoField) = Joined(x, sent[m])
    BY <1>6, <1>12, <2>1
  <2> QED
    BY <2>2, <2>3 DEF Kept
<1> QED
  BY <1>1, <1>4, <1>6, <1>16, <1>17, <1>18

\* After a piece that means nothing it is that event.
LEMMA EventBlock ==
  ASSUME Placed, NEW n \in Nat, n < Len(sent), NEW a, Blank(a, ends[n])
  PROVE  ParseBlock(SubSeq(text, a + 1, ends[n + 1])) = sent[n + 1]
<1>1. PICK m : m = n + 1
  OBVIOUS
<1>2. m \in 1..Len(sent)
  BY <1>1, PlacedTypes
<1>3. sent[m] \in AnyEvent
  BY <1>2, PlacedTypes, NoFieldEvent, LinesFrom
<1>4. Kept(a, ends[n], NoField)
  BY DEF Blank
<1>5. ParseBlock(SubSeq(text, a + 1, ends[m])) = Joined(NoField, sent[m])
  BY <1>1, <1>4, KeptNext, NoFieldEvent
<1>6. Joined(NoField, sent[m]) = sent[m]
  BY <1>3, JoinedEvent
<1> QED
  BY <1>1, <1>5, <1>6

\* Nothing at all, the newline before, and the newline at the start of the
\* stream mean nothing.
LEMMA BlankPieces ==
  ASSUME Placed, NEW n \in 0..Len(sent)
  PROVE  /\ Blank(ends[n], ends[n])
         /\ ends[n] > 0 => Blank(ends[n] - 1, ends[n])
         /\ n = 0 => Blank(0, ends[n])
<1>1. Len(text) \in Nat /\ text \in Text /\ ends[n] \in 0..Len(text)
  BY PlacedTypes
<1>2. PICK b : b = ends[n]
  OBVIOUS
<1>3. Blank(b, b)
  <2>1. SubSeq(text, b + 1, b) = <<>>
    BY <1>1, <1>2, SubSeqEmpty
  <2> QED
    <3>1. b \in Nat /\ b <= b
      BY <1>1, <1>2
    <3>2. Ended(SubSeq(text, b + 1, b)) /\ ParseLines(SubSeq(text, b + 1, b), NoField) = NoField
      BY <2>1, LinedEmpty, ParseNothing, Zenon
    <3> QED
      BY <3>1, <3>2 DEF Blank, Kept
<1>4. ASSUME b > 0 PROVE Blank(b - 1, b)
  <2>1. PICK a : a = b - 1
    OBVIOUS
  <2>2. a \in Nat /\ b \in 0..Len(text) /\ a + 1 = b /\ b - a = 1 /\ a <= b
    BY <1>1, <1>2, <1>4, <2>1
  <2>3. PICK u : u = SubSeq(text, a + 1, b)
    OBVIOUS
  <2>4. u \in Text /\ Len(u) = 1 /\ u[1] = text[b]
    <3>1. /\ u \in Text /\ Len(u) = IF a <= b THEN b - a ELSE 0
          /\ \A i \in 1..(b - a) : u[i] = text[a + i]
      BY <1>1, <2>2, <2>3, Piece
    <3>2. 1 \in 1..(b - a)
      BY <2>2
    <3> QED
      BY <2>2, <3>1, <3>2
  <2>5. text[b] = NewLine
    BY <1>2, <1>4, EndsAfterNewLine
  <2>6. PICK y : y = <<NewLine>>
    OBVIOUS
  <2>7. y \in Text /\ Len(y) = 1 /\ y[1] = NewLine
    BY <2>6, OneToken, Tokens
  <2>8. u = y
    <3>1. Len(u) = Len(y) /\ \A i \in 1..Len(u) : u[i] = y[i]
      BY <2>4, <2>5, <2>7
    <3> QED
      BY <2>4, <2>7, <3>1, SeqEqual DEF Text
  <2>9. Ended(u) /\ ParseLines(u, NoField) = NoField
    <3>1. Ended(u)
      BY <2>4, <2>5 DEF Ended
    <3>2. ParseLines(y, NoField) = NoField
      BY <2>6, CommentParsed
    <3> QED
      BY <2>8, <3>1, <3>2
  <2> QED
    BY <2>1, <2>2, <2>3, <2>9 DEF Blank, Kept
<1>5. ASSUME n = 0 PROVE Blank(0, b)
  <2>1. b \in {0, 1}
    BY <1>2, <1>5 DEF Placed, PlacedAt
  <2>2. CASE b = 0
    BY <1>3, <2>2
  <2>3. CASE b = 1
    <3>1. b > 0 /\ b - 1 = 0
      BY <2>3
    <3> QED
      BY <1>4, <3>1
  <2> QED
    BY <2>1, <2>2, <2>3
<1> QED
  BY <1>2, <1>3, <1>4, <1>5

-----------------------------------------------------------------------------
(* The inductive invariant.                                                *)

\* What ParseBlock can yield.
Parsed == {ParseBlock(b) : b \in Text}

\* The ranges of what the reader holds, and that it has read nothing before it
\* starts.
Held ==
  /\ mode \in {"sse", "chunked sse"} /\ started \in BOOLEAN /\ cut \in BOOLEAN
  /\ skipped \in 0..Len(sent) /\ read \in 0..Len(text) /\ out \in Seq(Parsed)
  /\ ~started => skipped = 0 /\ ~cut /\ read = 0 /\ out = <<>>

\* The chunked reader has read the first n events: it has made what Blocks
\* makes of them, and what it has kept back means what Blocks keeps.
Chunked(n) ==
  /\ skipped = 0 /\ ~cut
  /\ n > 0 => ends[n] <= read
  /\ n < Len(sent) => read < ends[n + 1]
  /\ passed \subseteq 1..n
  /\ \A g : BlocksTo(g, sent, passed, n) =>
       out = g[n].made /\ Kept(from, ends[n], g[n].kept)

\* The plain reader has read up to the nth event; or has not read anything,
\* and starts at the newline before, or in the midst of the next event.
Plain(n) ==
  /\ n = skipped + Len(out)
  /\ \A i \in 1..Len(out) : Valid(sent[skipped + i])
  /\ \A i \in 1..Len(out) : out[i] = sent[skipped + i] \/ (i = 1 /\ cut)
  /\ \/ read = ends[n] /\ (cut => out # <<>>)
     \/ out = <<>> /\ ~cut /\ read = ends[n] - 1
     \/ out = <<>> /\ cut /\ n < Len(sent) /\ ends[n] < read /\ read < ends[n + 1] - 1

\* The inductive invariant.
Inv ==
  /\ Placed /\ Held
  /\ mode = "chunked sse" => \E n \in 0..Len(sent) : Chunked(n)
  /\ mode = "sse" /\ started => \E n \in 0..Len(sent) : Plain(n)

\* Nothing has been sent or read at first.
LEMMA InitInv == Peer = "lines" /\ Init => Inv
<1> SUFFICES ASSUME Peer = "lines", Init PROVE Inv
  OBVIOUS
<1>0. /\ mode \in {"sse", "chunked sse"} /\ text \in {<<>>, <<NewLine>>}
      /\ ends = [i \in 0..0 |-> Len(text)] /\ sent = <<>> /\ started = FALSE
      /\ skipped = 0 /\ cut = FALSE /\ from = 0 /\ read = 0 /\ out = <<>> /\ passed = {}
  <2>1. /\ mode \in (IF Peer = "library" THEN {"chunked sse"} ELSE {"chunked sse", "sse"})
        /\ text \in (IF Peer = "library" THEN {<<>>} ELSE {<<>>, <<NewLine>>})
        /\ ends = [i \in 0..0 |-> Len(text)] /\ sent = <<>> /\ started = FALSE
        /\ skipped = 0 /\ cut = FALSE /\ from = 0 /\ read = 0 /\ out = <<>> /\ passed = {}
    BY Zenon DEF Init
  <2>2. Peer # "library"
    OBVIOUS
  <2> QED
    BY <2>1, <2>2
<1>8. skipped = 0 /\ read = 0 /\ started = FALSE /\ cut = FALSE
  BY <1>0, Zenon
<1>9. ends = [i \in 0..0 |-> Len(text)]
  BY <1>0, Zenon
<1>1. sent = <<>> /\ Len(sent) = 0 /\ sent \in Seq(Events)
  BY <1>0, EmptySeq
<1>2. /\ text \in Text /\ Len(text) \in {0, 1}
      /\ Len(text) = 1 => text[1] = NewLine
  <2>1. CASE text = <<>>
    BY <2>1, LinedEmpty, EmptySeq
  <2>2. CASE text = <<NewLine>>
    BY <2>2, OneToken, Tokens
  <2> QED
    BY <1>0, <2>1, <2>2
<1>3. ends \in [0..0 -> 0..Len(text)] /\ ends[0] = Len(text)
  BY <1>9, <1>2
<1>4. Placed
  <2>1. \A p \in 1..Len(text) : ~EmptyAt(text, p)
    BY <1>2 DEF EmptyAt
  <2>2. \A i \in 1..Len(sent) : FALSE
    BY <1>1
  <2>3. \A i, j \in 0..Len(sent) : ~(i < j)
    BY <1>1
  <2>4. /\ Len(sent) \in Nat /\ Len(text) \in Nat
        /\ ends \in [0..Len(sent) -> 0..Len(text)]
        /\ ends[0] \in {0, 1} /\ (ends[0] = 1 => text[1] = NewLine)
        /\ ends[Len(sent)] = Len(text)
    BY <1>1, <1>2, <1>3
  <2> QED
    BY <1>1, <1>2, <2>1, <2>2, <2>3, <2>4, Zenon DEF Placed, PlacedAt
<1>5. Held
  <2>1. out = <<>> /\ out \in Seq(Parsed)
    BY <1>0, EmptySeq
  <2>2. skipped \in 0..Len(sent) /\ read \in 0..Len(text)
    BY <1>1, <1>2, <1>8
  <2>3. started \in BOOLEAN /\ cut \in BOOLEAN /\ ~started /\ ~cut
    BY <1>8
  <2> QED
    BY <1>0, <2>1, <2>2, <2>3, Zenon DEF Held
<1>6. Chunked(0)
  <2>1. 0 \in 0..Len(sent)
    BY <1>1
  <2>2. Blank(0, ends[0])
    BY <1>4, <2>1, BlankPieces
  <2>3. ASSUME NEW g, BlocksTo(g, sent, passed, 0)
        PROVE  out = g[0].made /\ Kept(from, ends[0], g[0].kept)
    <3>1. g[0] = [made |-> <<>>, kept |-> NoField]
      BY <2>3, Zenon DEF BlocksTo
    <3>2. g[0].made = <<>> /\ g[0].kept = NoField
      BY <3>1
    <3>3. Kept(0, ends[0], NoField)
      BY <2>2 DEF Blank
    <3> QED
      BY <1>0, <3>2, <3>3, Zenon
  <2>4. ~(0 < Len(sent)) /\ ~(0 > 0)
    BY <1>1
  <2>5. passed \subseteq 1..0
    BY <1>0
  <2> QED
    BY <1>0, <2>3, <2>4, <2>5, Zenon DEF Chunked
<1>7. 0 \in 0..Len(sent) /\ ~started
  BY <1>1, <1>8
<1> QED
  BY <1>4, <1>5, <1>6, <1>7 DEF Inv

\* What the server appends disturbs no reader.
LEMMA SendStep ==
  ASSUME Peer = "lines", Inv, NEW event \in Events, Send(event)
  PROVE  Inv'
<1>1. Placed /\ Held
  BY DEF Inv
<1>2. /\ sent \in Seq(Events) /\ text \in Text /\ Len(sent) \in Nat /\ Len(text) \in Nat
      /\ \A i \in 0..Len(sent) : ends[i] \in 0..Len(text)
  BY <1>1, PlacedTypes
<1>3. Grown(sent, text, ends, sent', text', ends')
  <2>1. /\ sent' = Append(sent, event) /\ text' = text \o ToLines(event)
        /\ ends' = [i \in 0..Len(sent') |-> IF i > Len(sent) THEN Len(text') ELSE ends[i]]
    BY DEF Send, TextOf
  <2>2. PICK s1, t1, f1 : s1 = sent' /\ t1 = text' /\ f1 = ends'
    OBVIOUS
  <2>3. /\ s1 = Append(sent, event) /\ t1 = text \o ToLines(event)
        /\ f1 = [i \in 0..Len(s1) |-> IF i > Len(sent) THEN Len(t1) ELSE ends[i]]
    BY <2>1, <2>2, Zenon
  <2>4. PlacedAt(sent, text, ends) /\ WellFormed(event)
    BY <1>1, PeerAssumption DEF Placed
  <2>5. Grown(sent, text, ends, s1, t1, f1)
    BY <2>3, <2>4, Grows
  <2> QED
    BY <2>2, <2>5
<1>4. Placed' /\ Len(text') > Len(text)
  <2>1. PlacedAt(sent, text, ends)
    BY <1>1 DEF Placed
  <2>2. PlacedAt(sent', text', ends') /\ Len(text') > Len(text)
    BY <1>3, <2>1, PlacedNext
  <2> QED
    BY <2>2 DEF Placed
<1>5. /\ Len(sent') = Len(sent) + 1 /\ \A i \in 1..Len(sent) : sent'[i] = sent[i]
      /\ \A i \in 0..Len(sent) : ends'[i] = ends[i]
      /\ ends'[Len(sent')] = Len(text')
  BY <1>3, Zenon DEF Grown
<1>6. /\ \A i \in 0..Len(sent) : SubSeq(sent', 1, i) = SubSeq(sent, 1, i)
      /\ \A a \in Nat : \A b \in 0..Len(text) : SubSeq(text', a + 1, b) = SubSeq(text, a + 1, b)
  BY <1>3, Zenon DEF Grown
<1>7. /\ mode' = mode /\ started' = started /\ skipped' = skipped /\ cut' = cut
      /\ from' = from /\ read' = read /\ out' = out /\ passed' = passed
  BY DEF Send
<1>8. Len(text') \in Nat /\ Len(sent') \in Nat
  BY <1>4, Zenon DEF Placed, PlacedAt
<1>12. skipped \in 0..Len(sent) /\ read \in 0..Len(text) /\ out \in Seq(Parsed)
  BY <1>1, Zenon DEF Held
<1>9. Held'
  <2>1. skipped \in 0..Len(sent') /\ read \in 0..Len(text')
    BY <1>2, <1>4, <1>5, <1>8, <1>12
  <2> QED
    BY <1>1, <1>7, <2>1, Zenon DEF Held
<1>10. ASSUME mode = "chunked sse" PROVE \E n \in 0..Len(sent') : Chunked(n)'
  <2>1. PICK n \in 0..Len(sent) : Chunked(n)
    BY <1>10 DEF Inv
  <2>2. n \in 0..Len(sent') /\ ends'[n] = ends[n]
    BY <1>2, <1>5
  <2>3. n < Len(sent') => read < ends'[n + 1]
    <3>1. CASE n < Len(sent)
      <4>1. PICK m \in 0..Len(sent) : m = n + 1
        BY <1>2, <3>1
      <4>2. ends'[m] = ends[m]
        BY <1>5
      <4> QED
        BY <2>1, <3>1, <4>1, <4>2 DEF Chunked
    <3>2. CASE n = Len(sent)
      <4>1. ends'[n + 1] = Len(text')
        BY <1>5, <3>2
      <4> QED
        BY <1>2, <1>4, <1>8, <1>12, <4>1
    <3> QED
      BY <1>2, <3>1, <3>2
  <2>4. passed \subseteq 1..n
    BY <2>1 DEF Chunked
  <2>5. ASSUME NEW g, BlocksTo(g, sent', passed', n)
        PROVE  out' = g[n].made /\ Kept(from, ends[n], g[n].kept)'
    <3>1. BlocksTo(g, sent, passed, n)
      <4>1. n \in Nat /\ n \in 0..n
        BY <1>2
      <4>2. \A i \in 1..n : sent[i] = sent'[i] /\ (i \in passed <=> i \in passed')
        BY <1>2, <1>5, <1>7
      <4> QED
        BY <2>5, <4>1, <4>2, BlocksSame
    <3>2. out = g[n].made /\ Kept(from, ends[n], g[n].kept)
      BY <2>1, <3>1, Zenon DEF Chunked
    <3>3. PICK a, b, x : a = from /\ b = ends[n] /\ x = g[n].kept
      OBVIOUS
    <3>4. Kept(a, b, x) /\ b \in 0..Len(text)
      BY <1>2, <3>2, <3>3
    <3>5. SubSeq(text', a + 1, b) = SubSeq(text, a + 1, b)
      BY <1>6, <3>4 DEF Kept
    <3>6. Kept(a, b, x)'
      BY <3>4, <3>5, Zenon DEF Kept
    <3> QED
      BY <1>7, <2>2, <3>2, <3>3, <3>6, Zenon DEF Kept
  <2>6. Chunked(n)'
    BY <1>7, <2>1, <2>2, <2>3, <2>4, <2>5, Zenon DEF Chunked
  <2> QED
    BY <2>2, <2>6
<1>11. ASSUME mode = "sse", started PROVE \E n \in 0..Len(sent') : Plain(n)'
  <2>1. PICK n \in 0..Len(sent) : Plain(n)
    BY <1>11 DEF Inv
  <2>2. n \in 0..Len(sent') /\ ends'[n] = ends[n]
    BY <1>2, <1>5
  <2>3. Len(out) \in Nat
    BY <1>12, LenProperties
  <2>4. ASSUME NEW i \in 1..Len(out) PROVE sent'[skipped + i] = sent[skipped + i]
    <3>1. skipped + i \in 1..Len(sent)
      <4>1. n = skipped + Len(out)
        BY <2>1 DEF Plain
      <4> QED
        BY <1>2, <1>12, <2>3, <4>1
    <3> QED
      BY <1>5, <3>1
  <2>5. ASSUME n < Len(sent) PROVE n < Len(sent') /\ ends'[n + 1] = ends[n + 1]
    <3>1. n + 1 \in 0..Len(sent)
      BY <1>2, <2>5
    <3> QED
      BY <1>2, <1>5, <2>5, <3>1
  <2>6. Plain(n)'
    <3>1. n = skipped + Len(out)
      BY <2>1 DEF Plain
    <3>2. /\ \A i \in 1..Len(out) : Valid(sent'[skipped + i])
          /\ \A i \in 1..Len(out) : out[i] = sent'[skipped + i] \/ (i = 1 /\ cut)
      BY <2>1, <2>4 DEF Plain
    <3>3. \/ read = ends'[n] /\ (cut => out # <<>>)
          \/ out = <<>> /\ ~cut /\ read = ends'[n] - 1
          \/ /\ out = <<>> /\ cut /\ n < Len(sent') /\ ends'[n] < read
             /\ read < ends'[n + 1] - 1
      BY <2>1, <2>2, <2>5 DEF Plain
    <3> QED
      BY <1>7, <3>1, <3>2, <3>3, Zenon DEF Plain
  <2> QED
    BY <2>2, <2>6
<1> QED
  BY <1>4, <1>7, <1>9, <1>10, <1>11 DEF Inv

\* A step that changes nothing.
LEMMA StutterStep ==
  ASSUME Inv, UNCHANGED vars
  PROVE  Inv'
<1>1. /\ sent' = sent /\ text' = text /\ ends' = ends /\ mode' = mode
      /\ started' = started /\ skipped' = skipped /\ cut' = cut
      /\ from' = from /\ read' = read /\ out' = out /\ passed' = passed
  BY DEF vars
<1>2. Placed' /\ Held'
  BY <1>1, Zenon DEF Inv, Placed, Held
<1>3. ASSUME NEW n PROVE (Chunked(n) => Chunked(n)') /\ (Plain(n) => Plain(n)')
  BY <1>1, Zenon DEF Chunked, Plain, Kept
<1>4. ASSUME mode = "chunked sse" PROVE \E n \in 0..Len(sent) : Chunked(n)'
  BY <1>3, <1>4 DEF Inv
<1>5. ASSUME mode = "sse", started PROVE \E n \in 0..Len(sent) : Plain(n)'
  BY <1>3, <1>5 DEF Inv
<1> QED
  BY <1>1, <1>2, <1>4, <1>5 DEF Inv

\* The chunked reader starts at the start of the stream.
LEMMA StartChunkedStep ==
  ASSUME Inv, StartChunked
  PROVE  Inv'
<1>1. /\ sent' = sent /\ text' = text /\ ends' = ends /\ mode' = mode
      /\ started' = TRUE /\ skipped' = skipped /\ cut' = cut
      /\ from' = from /\ read' = read /\ out' = out /\ passed' = passed
      /\ mode = "chunked sse"
  BY DEF StartChunked
<1>2. Placed' /\ Held'
  BY <1>1, Zenon DEF Inv, Placed, Held
<1>3. \E n \in 0..Len(sent) : Chunked(n)
  BY <1>1 DEF Inv
<1>4. ASSUME NEW n, Chunked(n) PROVE Chunked(n)'
  BY <1>1, <1>4, Zenon DEF Chunked, Kept
<1>5. \E n \in 0..Len(sent') : Chunked(n)'
  BY <1>1, <1>3, <1>4
<1>6. mode' # "sse"
  BY <1>1
<1> QED
  BY <1>2, <1>5, <1>6, Zenon DEF Inv

\* The plain reader starts behind the events that were swallowed.
LEMMA StartPlainStep ==
  ASSUME Inv, NEW k \in 0..Len(text), StartPlain(k)
  PROVE  Inv'
<1>1. Placed /\ Held /\ mode = "sse" /\ ~started
  BY DEF Inv, StartPlain
<1>2. /\ Len(sent) \in Nat /\ Len(text) \in Nat
      /\ \A i \in 0..Len(sent) : ends[i] \in 0..Len(text)
      /\ ends[Len(sent)] = Len(text)
  BY <1>1, PlacedTypes
<1>3. PICK n \in 0..Len(sent) :
        /\ \A i \in 1..Len(sent) : ends[i] <= k + 1 <=> i <= n
        /\ skipped' = n /\ cut' = (k > ends[n])
  BY Zenon DEF StartPlain
<1>4. /\ sent' = sent /\ text' = text /\ ends' = ends /\ mode' = mode
      /\ started' = TRUE /\ read' = k /\ out' = out
  BY Zenon DEF StartPlain
<1>5. out = <<>> /\ Len(out) = 0
  BY <1>1, EmptySeq DEF Held
<1>6. Placed'
  BY <1>1, <1>4, Zenon DEF Placed
<1>7. Held'
  <2>1. out \in Seq(Parsed)
    BY <1>1, Zenon DEF Held
  <2>2. cut' \in BOOLEAN /\ started' \in BOOLEAN
    BY <1>3, <1>4
  <2> QED
    BY <1>1, <1>3, <1>4, <2>1, <2>2, Zenon DEF Held
<1>8. PICK e \in 0..Len(text) : e = ends[n]
  BY <1>2
<1>9. e <= k + 1
  <2>1. CASE n = 0
    <3>1. e \in {0, 1}
      BY <1>1, <1>8, <2>1 DEF Placed, PlacedAt
    <3> QED
      BY <3>1
  <2>2. CASE n # 0
    <3>1. n \in 1..Len(sent) /\ n <= n
      BY <1>2, <2>2
    <3> QED
      BY <1>3, <1>8, <3>1
  <2> QED
    BY <2>1, <2>2
<1>10. ASSUME k > e PROVE n < Len(sent) /\ k < ends[n + 1] - 1
  <2>1. n # Len(sent)
    BY <1>2, <1>8, <1>10
  <2>2. PICK m \in 1..Len(sent) : m = n + 1
    BY <1>2, <2>1
  <2>3. ~(m <= n) /\ m \in 0..Len(sent)
    BY <1>2, <2>2
  <2>4. ~(ends[m] <= k + 1) /\ ends[m] \in 0..Len(text)
    BY <1>2, <1>3, <2>3
  <2> QED
    BY <1>2, <2>1, <2>2, <2>4
<1>11. Plain(n)'
  <2>1. \A i \in 1..Len(out) : FALSE
    BY <1>5
  <2>2. n = n + Len(out)
    BY <1>2, <1>5
  <2>3. CASE k > e
    <3>1. n < Len(sent) /\ ends[n] < k /\ k < ends[n + 1] - 1
      BY <1>2, <1>8, <1>10, <2>3
    <3>2. cut' /\ out' = <<>>
      <4>1. k > ends[n]
        BY <1>8, <2>3
      <4> QED
        BY <1>3, <1>4, <1>5, <4>1, Zenon
    <3> QED
      BY <1>3, <1>4, <2>1, <2>2, <3>1, <3>2, ZenonT(40) DEF Plain
  <2>4. CASE ~(k > e)
    <3>1. k = ends[n] \/ k = ends[n] - 1
      BY <1>2, <1>8, <1>9, <2>4
    <3>2. ~cut' /\ out' = <<>>
      <4>1. ~(k > ends[n])
        BY <1>8, <2>4
      <4> QED
        BY <1>3, <1>4, <1>5, <4>1, Zenon
    <3> QED
      BY <1>3, <1>4, <2>1, <2>2, <3>1, <3>2, Zenon DEF Plain
  <2> QED
    BY <2>3, <2>4
<1>12. mode' # "chunked sse"
  BY <1>1, <1>4
<1> QED
  BY <1>4, <1>6, <1>7, <1>11, <1>12, Zenon DEF Inv

-----------------------------------------------------------------------------
(* The chunked reader.                                                     *)

\* A block that ends with an empty line ends where the text has one.
LEMMA BlockEnd ==
  ASSUME Placed, NEW a \in Nat, NEW to \in 1..Len(text),
         EndsEvent(SubSeq(text, a + 1, to))
  PROVE  to >= a + 2 /\ EmptyLine(to)
<1>1. Len(text) \in Nat /\ text \in Text /\ to \in 0..Len(text)
  BY PlacedTypes
<1>2. PICK u : u = SubSeq(text, a + 1, to)
  OBVIOUS
<1>3. /\ Len(u) = IF a <= to THEN to - a ELSE 0
      /\ \A i \in 1..(to - a) : u[i] = text[a + i]
  BY <1>1, <1>2, Piece
<1>4. Len(u) >= 2 /\ u[Len(u) - 1] = NewLine /\ u[Len(u)] = NewLine
  BY <1>2 DEF EndsEvent
<1>5. to >= a + 2 /\ Len(u) = to - a
  BY <1>1, <1>3, <1>4
<1>6. PICK i, j : i = Len(u) - 1 /\ j = Len(u)
  OBVIOUS
<1>7. /\ i \in 1..(to - a) /\ j \in 1..(to - a) /\ a + i = to - 1 /\ a + j = to
  BY <1>1, <1>5, <1>6
<1>8. u[i] = text[a + i] /\ u[j] = text[a + j]
  BY <1>3, <1>7
<1>9. text[to - 1] = NewLine /\ text[to] = NewLine
  BY <1>4, <1>6, <1>7, <1>8
<1>10. to \in 2..Len(text)
  BY <1>1, <1>5
<1> QED
  BY <1>5, <1>9, <1>10 DEF EmptyLine

\* How far among the events a position lies that is not before the nth.
LEMMA UpTo ==
  ASSUME Placed, NEW n \in 0..Len(sent), NEW to \in 1..Len(text)
  PROVE  \E m \in n..Len(sent) :
           /\ m > n => ends[m] <= to
           /\ m < Len(sent) => to < ends[m + 1]
<1>1. /\ Len(sent) \in Nat /\ Len(text) \in Nat
      /\ \A i \in 0..Len(sent) : ends[i] \in 0..Len(text)
  BY PlacedTypes
<1> DEFINE S == {m \in n..Len(sent) : m = Len(sent) \/ to < ends[m + 1]}
<1>2. S \in SUBSET Nat /\ S # {}
  BY <1>1
<1>3. PICK m \in S : \A k \in S : m <= k
  BY <1>2, Smallest
<1>4. m \in n..Len(sent) /\ (m < Len(sent) => to < ends[m + 1])
  BY <1>1, <1>3
<1>5. ASSUME m > n PROVE ends[m] <= to
  <2>1. PICK k : k = m - 1
    OBVIOUS
  <2>2. k \in n..Len(sent) /\ k # Len(sent) /\ ~(m <= k) /\ k + 1 = m
    BY <1>1, <1>4, <1>5, <2>1
  <2>3. ~(to < ends[m])
    BY <1>3, <2>2
  <2>4. ends[m] \in 0..Len(text)
    BY <1>1, <1>4
  <2> QED
    BY <1>1, <2>3, <2>4
<1> QED
  BY <1>4, <1>5

\* What is sent are events.
LEMMA SentEvents ==
  ASSUME Placed
  PROVE  Events \subseteq AnyEvent /\ \A i \in 1..Len(sent) : sent[i] \in AnyEvent
<1>1. Events \subseteq AnyEvent
  BY PeerAssumption, NoFieldEvent, LinesFrom
<1> QED
  BY <1>1, PlacedTypes

\* Events that are passed are kept back, and the reader makes nothing of them.
LEMMA PassedOver ==
  ASSUME Placed, NEW g, NEW p, NEW m \in 0..Len(sent), BlocksTo(g, sent, p, m),
         NEW n \in 0..m, NEW l \in n..m, NEW a,
         Kept(a, ends[n], g[n].kept), \A i \in (n + 1)..l : i \in p
  PROVE  g[l].made = g[n].made /\ Kept(a, ends[l], g[l].kept)
<1>1. Len(sent) \in Nat /\ m \in Nat
  BY PlacedTypes
<1>2. \A i \in 0..m : g[i].kept \in AnyEvent
  <2>1. \A i \in 1..m : sent[i] \in AnyEvent
    BY <1>1, SentEvents
  <2> QED
    BY <1>1, <2>1, BlocksTyped
<1> DEFINE I == {i \in Nat : n <= i /\ i <= l =>
                   g[i].made = g[n].made /\ Kept(a, ends[i], g[i].kept)}
<1>3. 0 \in I
  <2>1. n <= 0 => n = 0
    BY <1>1
  <2> QED
    BY <2>1
<1>4. ASSUME NEW i \in Nat, i \in I PROVE i + 1 \in I
  <2>1. SUFFICES ASSUME n <= i + 1, i + 1 <= l
                 PROVE  g[i + 1].made = g[n].made /\ Kept(a, ends[i + 1], g[i + 1].kept)
    OBVIOUS
  <2>2. CASE i + 1 = n
    BY <2>2
  <2>3. CASE i + 1 # n
    <3>1. PICK k : k = i + 1
      OBVIOUS
    <3>2. /\ k \in 1..m /\ k - 1 = i /\ i \in 0..m /\ i < Len(sent) /\ k \in p
          /\ g[i].made = g[n].made /\ Kept(a, ends[i], g[i].kept)
      BY <1>1, <1>4, <2>1, <2>3, <3>1
    <3>3. PICK x : x = Joined(g[i].kept, sent[k])
      OBVIOUS
    <3>4. g[k].made = g[i].made /\ g[k].kept = x
      BY <1>1, <3>2, <3>3, BlocksNext
    <3>5. Kept(a, ends[k], x)
      <4>1. g[i].kept \in AnyEvent
        BY <1>2, <3>2
      <4> QED
        BY <3>1, <3>2, <3>3, <4>1, KeptNext
    <3> QED
      BY <3>1, <3>2, <3>4, <3>5
  <2> QED
    BY <2>2, <2>3
<1> HIDE DEF I
<1>5. l \in I
  BY <1>1, <1>3, <1>4, Induction
<1> QED
  BY <1>1, <1>5 DEF I

\* A chunk comes to the end of an event, and what was kept is made an event if
\* it has a field, or it stops elsewhere and all it has passed is kept.
LEMMA OnChunkBodyStep ==
  ASSUME Peer = "lines", Inv, NEW to, OnChunkBody(to)
  PROVE  Inv'
<1>1. Placed /\ Held /\ mode = "chunked sse" /\ started
  BY DEF Inv, OnChunkBody
<1>2. /\ sent \in Seq(Events) /\ text \in Text /\ Len(sent) \in Nat /\ Len(text) \in Nat
      /\ \A i \in 0..Len(sent) : ends[i] \in 0..Len(text)
  BY <1>1, PlacedTypes
<1>3. /\ to \in (read + 1)..Len(text) /\ read \in 0..Len(text) /\ out \in Seq(Parsed)
  <2>1. to \in (read + 1)..Len(text)
    BY Zenon DEF OnChunkBody
  <2>2. read \in 0..Len(text) /\ out \in Seq(Parsed)
    BY <1>1, Zenon DEF Held
  <2> QED
    BY <2>1, <2>2
<1>4. /\ sent' = sent /\ text' = text /\ ends' = ends /\ mode' = mode
      /\ started' = started /\ skipped' = skipped /\ cut' = cut /\ read' = to
      /\ passed' = passed \cup PassedBy(to)
  BY Zenon DEF OnChunkBody
<1>5. PICK n \in 0..Len(sent) : Chunked(n)
  BY <1>1 DEF Inv
<1>6. PICK block : block = SubSeq(text, from + 1, to)
  OBVIOUS
<1>7. IF EndsEvent(block) /\ Valid(ParseBlock(block))
      THEN from' = to /\ out' = Append(out, ParseBlock(block))
      ELSE from' = from /\ out' = out
  BY <1>6, Zenon DEF OnChunkBody
<1>8. /\ n > 0 => ends[n] <= read
      /\ n < Len(sent) => read < ends[n + 1]
      /\ passed \subseteq 1..n /\ skipped = 0 /\ ~cut
  BY <1>5, Zenon DEF Chunked
<1>9. \A g : BlocksTo(g, sent, passed, n) =>
         out = g[n].made /\ Kept(from, ends[n], g[n].kept)
  BY <1>5, Zenon DEF Chunked
<1>10. from \in Nat /\ from <= ends[n]
  <2>1. PICK g : BlocksTo(g, sent, passed, Len(sent))
    BY <1>2, BlocksExist
  <2>2. BlocksTo(g, sent, passed, n)
    BY <1>2, <2>1, BlocksSame
  <2> QED
    BY <1>9, <2>2 DEF Kept
<1>11. to \in 1..Len(text) /\ block \in Text
  <2>1. to \in 1..Len(text) /\ to \in 0..Len(text)
    BY <1>2, <1>3
  <2> QED
    BY <1>2, <1>6, <1>10, <2>1, Piece
<1>12. Placed'
  BY <1>1, <1>4, Zenon DEF Placed
<1>13. Held'
  <2>1. ParseBlock(block) \in Parsed
    BY <1>11 DEF Parsed
  <2>2. Append(out, ParseBlock(block)) \in Seq(Parsed)
    BY <1>3, <2>1, AppendProperties
  <2>3. out' \in Seq(Parsed)
    BY <1>3, <1>7, <2>2
  <2>4. to \in 0..Len(text)
    BY <1>2, <1>11
  <2> QED
    BY <1>1, <1>4, <2>3, <2>4, Zenon DEF Held
<1>14. PICK m \in n..Len(sent) :
           /\ m > n => ends[m] <= to
           /\ m < Len(sent) => to < ends[m + 1]
  BY <1>1, <1>11, UpTo
<1>15. m \in 0..Len(sent) /\ n \in 0..m /\ m \in Nat
  BY <1>2, <1>14
<1>16. m > 0 => ends[m] <= to
  <2>1. CASE m > n
    BY <1>14, <2>1
  <2>2. CASE m = n
    <3>1. PICK e : e = ends[n]
      OBVIOUS
    <3>2. n > 0 => e <= read
      BY <1>8, <3>1
    <3>3. e \in 0..Len(text)
      BY <1>2, <3>1
    <3> QED
      BY <1>2, <1>3, <2>2, <3>1, <3>2, <3>3
  <2> QED
    BY <1>2, <1>14, <2>1, <2>2
<1>17. ASSUME NEW i \in 1..Len(sent) PROVE read < ends[i] <=> i > n
  <2>1. i \in 0..Len(sent) /\ ends[i] \in 0..Len(text)
    BY <1>2
  <2>2. ASSUME i <= n PROVE ~(read < ends[i])
    <3>1. ends[i] <= ends[n]
      BY <1>1, <2>1, <2>2, PlacedOrder
    <3>2. n > 0
      BY <1>2, <2>2
    <3>3. ends[n] <= read /\ ends[n] \in 0..Len(text)
      BY <1>2, <1>8, <3>2
    <3> QED
      BY <1>2, <1>3, <2>1, <3>1, <3>3
  <2>3. ASSUME i > n PROVE read < ends[i]
    <3>1. PICK k : k = n + 1
      OBVIOUS
    <3>2. k \in 0..Len(sent) /\ k <= i /\ n < Len(sent)
      BY <1>2, <2>3, <3>1
    <3>3. ends[k] <= ends[i] /\ read < ends[k] /\ ends[k] \in 0..Len(text)
      BY <1>1, <1>2, <1>8, <2>1, <3>1, <3>2, PlacedOrder
    <3> QED
      BY <1>2, <1>3, <2>1, <3>3
  <2> QED
    BY <1>2, <2>2, <2>3
<1>18. ASSUME NEW i \in 1..Len(sent) PROVE i > m => to < ends[i]
  <2>1. SUFFICES ASSUME i > m PROVE to < ends[i]
    OBVIOUS
  <2>2. PICK k : k = m + 1
    OBVIOUS
  <2>3. k \in 0..Len(sent) /\ i \in 0..Len(sent) /\ k <= i /\ m < Len(sent)
    BY <1>2, <1>15, <2>1, <2>2
  <2>4. ends[k] <= ends[i]
    BY <1>1, <2>3, PlacedOrder
  <2>5. to < ends[k]
    BY <1>14, <2>2, <2>3
  <2>6. ends[k] \in 0..Len(text) /\ ends[i] \in 0..Len(text)
    BY <1>2, <2>3
  <2> QED
    BY <1>2, <1>11, <2>4, <2>5, <2>6
<1>19. /\ \A i \in 1..n : i \in passed' <=> i \in passed
       /\ \A i \in (n + 1)..m : i \in passed' <=> ends[i] < to
       /\ passed' \subseteq 1..m
  <2>1. \A i : i \in passed' <=>
              i \in passed \/ (i \in 1..Len(sent) /\ read < ends[i] /\ ends[i] < to)
    BY <1>4 DEF PassedBy
  <2>2. ASSUME NEW i \in 1..n PROVE i \in passed' <=> i \in passed
    <3>1. i \in 1..Len(sent) /\ ~(i > n)
      BY <1>2
    <3> QED
      BY <1>17, <2>1, <3>1
  <2>3. ASSUME NEW i \in (n + 1)..m PROVE i \in passed' <=> ends[i] < to
    <3>1. i \in 1..Len(sent) /\ i > n /\ i \notin 1..n
      BY <1>2, <1>15
    <3> QED
      BY <1>8, <1>17, <2>1, <3>1
  <2>4. ASSUME NEW i \in passed' PROVE i \in 1..m
    <3>1. CASE i \in passed
      BY <1>2, <1>8, <1>15, <3>1
    <3>2. CASE i \in 1..Len(sent) /\ ends[i] < to
      <4>1. ~(to < ends[i])
        BY <1>2, <1>11, <3>2
      <4> QED
        BY <1>2, <1>15, <1>18, <3>2, <4>1
    <3> QED
      BY <2>1, <2>4, <3>1, <3>2
  <2> QED
    BY <2>2, <2>3, <2>4
<1>20. ASSUME NEW g, BlocksTo(g, sent, passed', m)
       PROVE  out = g[n].made /\ Kept(from, ends[n], g[n].kept)
  <2>1. BlocksTo(g, sent, passed, n)
    BY <1>15, <1>19, <1>20, BlocksSame
  <2> QED
    BY <1>9, <2>1
<1>21. /\ skipped' = 0 /\ ~cut' /\ passed' \subseteq 1..m
       /\ m > 0 => ends'[m] <= read'
       /\ m < Len(sent') => read' < ends'[m + 1]
  BY <1>4, <1>8, <1>14, <1>16, <1>19, Zenon
<1>22. CASE m > n /\ to = ends[m]
  <2>1. PICK l : l = m - 1
    OBVIOUS
  <2>2. /\ l \in n..m /\ l \in 0..m /\ l \in Nat /\ l < Len(sent) /\ l + 1 = m
        /\ m \in 1..m /\ m \in (n + 1)..m
    BY <1>2, <1>15, <1>22, <2>1
  <2>3. m \notin passed'
    <3>1. ~(ends[m] < to)
      BY <1>2, <1>11, <1>22
    <3> QED
      BY <1>19, <2>2, <3>1
  <2>4. \A i \in (n + 1)..l : i \in passed'
    <3>1. SUFFICES ASSUME NEW i \in (n + 1)..l PROVE i \in passed'
      OBVIOUS
    <3>2. i \in (n + 1)..m /\ i \in 0..Len(sent) /\ i < m
      BY <1>2, <1>15, <2>1
    <3>3. ends[i] + 2 < ends[m] /\ ends[i] \in 0..Len(text)
      BY <1>1, <1>2, <1>15, <3>2, PlacedOrder
    <3>4. ends[i] < to
      BY <1>22, <3>3, <1>2, <1>11
    <3> QED
      BY <1>19, <3>2, <3>4
  <2>5. ASSUME NEW g, BlocksTo(g, sent, passed', m)
        PROVE  out' = g[m].made /\ Kept(from', ends[m], g[m].kept)
    <3>1. out = g[l].made /\ Kept(from, ends[l], g[l].kept)
      <4>1. out = g[n].made /\ Kept(from, ends[n], g[n].kept)
        BY <1>20, <2>5
      <4>2. g[l].made = g[n].made /\ Kept(from, ends[l], g[l].kept)
        BY <1>1, <1>15, <2>2, <2>4, <2>5, <4>1, PassedOver
      <4> QED
        BY <4>1, <4>2
    <3>2. g[l].kept \in AnyEvent
      <4>1. \A i \in 1..m : sent[i] \in AnyEvent
        <5>1. \A i \in 1..Len(sent) : sent[i] \in AnyEvent
          BY <1>1, SentEvents
        <5>2. \A i \in 1..m : i \in 1..Len(sent)
          BY <1>2, <1>15
        <5> QED
          BY <5>1, <5>2
      <4> QED
        BY <1>15, <2>2, <2>5, <4>1, BlocksTyped
    <3>3. PICK x : x = Joined(g[l].kept, sent[m])
      OBVIOUS
    <3>4. ParseBlock(block) = x /\ EndsEvent(block) /\ Kept(from, ends[m], x)
      <4>1. /\ ParseBlock(SubSeq(text, from + 1, ends[l + 1])) = Joined(g[l].kept, sent[l + 1])
            /\ EndsEvent(SubSeq(text, from + 1, ends[l + 1]))
            /\ Kept(from, ends[l + 1], Joined(g[l].kept, sent[l + 1]))
        BY <1>1, <2>2, <3>1, <3>2, KeptNext
      <4> QED
        BY <1>6, <1>22, <2>2, <3>3, <4>1, Zenon
    <3>5. /\ ~Valid(x) => g[m].made = g[l].made /\ g[m].kept = x
          /\ Valid(x) => g[m].made = Append(g[l].made, x) /\ g[m].kept = NoField
      <4>1. m - 1 = l
        BY <2>1
      <4> QED
        BY <1>15, <2>2, <2>3, <2>5, <3>3, <4>1, BlocksNext
    <3>6. CASE Valid(x)
      <4>1. from' = to /\ out' = Append(out, x)
        BY <1>7, <3>4, <3>6
      <4>2. Kept(ends[m], ends[m], NoField)
        BY <1>1, <1>15, BlankPieces DEF Blank
      <4> QED
        BY <1>22, <3>1, <3>5, <3>6, <4>1, <4>2
    <3>7. CASE ~Valid(x)
      <4>1. from' = from /\ out' = out
        BY <1>7, <3>4, <3>7
      <4> QED
        BY <3>1, <3>4, <3>5, <3>7, <4>1
    <3> QED
      BY <3>6, <3>7
  <2>6. ASSUME NEW g, BlocksTo(g, sent', passed', m)
        PROVE  out' = g[m].made /\ Kept(from, ends[m], g[m].kept)'
    <3>1. out' = g[m].made /\ Kept(from', ends[m], g[m].kept)
      BY <1>4, <2>5, <2>6
    <3> QED
      BY <1>4, <3>1, Zenon DEF Kept
  <2>7. Chunked(m)'
    BY <1>21, <2>6, Zenon DEF Chunked
  <2> QED
    BY <1>1, <1>4, <1>12, <1>13, <1>15, <2>7 DEF Inv
<1>23. CASE ~(m > n /\ to = ends[m])
  <2>1. \A i \in (n + 1)..m : i \in passed'
    <3>1. SUFFICES ASSUME NEW i \in (n + 1)..m PROVE i \in passed'
      OBVIOUS
    <3>2. i \in 0..Len(sent) /\ i <= m /\ m > n
      BY <1>2, <1>15
    <3>3. ends[i] <= ends[m]
      BY <1>1, <1>15, <3>2, PlacedOrder
    <3>4. ends[i] < to
      <4>1. PICK e, f : e = ends[i] /\ f = ends[m]
        OBVIOUS
      <4>2. e \in 0..Len(text) /\ f \in 0..Len(text)
        BY <1>2, <1>15, <3>2, <4>1
      <4>3. f <= to /\ to # f
        BY <1>14, <1>23, <3>2, <4>1
      <4> QED
        BY <1>2, <1>11, <3>3, <4>1, <4>2, <4>3
    <3> QED
      BY <1>19, <3>4
  <2>2. ASSUME EndsEvent(block) PROVE FALSE
    <3>1. to >= from + 2 /\ EmptyLine(to)
      BY <1>1, <1>6, <1>10, <1>11, <2>2, BlockEnd
    <3>2. PICK i \in 1..Len(sent) : to = ends[i]
      BY <1>1, <1>11, <3>1, EmptyLines
    <3>3. i > n /\ ~(i > m)
      BY <1>2, <1>3, <1>17, <1>18, <3>2
    <3>4. i \in (n + 1)..m
      BY <1>2, <1>15, <3>3
    <3>5. ends[i] < to
      BY <1>19, <2>1, <3>4
    <3> QED
      BY <1>2, <1>11, <3>2, <3>5
  <2>3. from' = from /\ out' = out
    BY <1>7, <2>2
  <2>4. ASSUME NEW g, BlocksTo(g, sent', passed', m)
        PROVE  out' = g[m].made /\ Kept(from, ends[m], g[m].kept)'
    <3>1. BlocksTo(g, sent, passed', m)
      BY <1>4, <2>4
    <3>2. out = g[m].made /\ Kept(from, ends[m], g[m].kept)
      <4>1. out = g[n].made /\ Kept(from, ends[n], g[n].kept)
        BY <1>20, <3>1
      <4>2. m \in n..m
        BY <1>15
      <4>3. g[m].made = g[n].made /\ Kept(from, ends[m], g[m].kept)
        BY <1>1, <1>15, <2>1, <3>1, <4>1, <4>2, PassedOver
      <4> QED
        BY <4>1, <4>3
    <3> QED
      BY <1>4, <2>3, <3>2, Zenon DEF Kept
  <2>5. Chunked(m)'
    BY <1>21, <2>4, Zenon DEF Chunked
  <2> QED
    BY <1>1, <1>4, <1>12, <1>13, <1>15, <2>5 DEF Inv
<1> QED
  BY <1>22, <1>23

-----------------------------------------------------------------------------
(* The plain reader.                                                       *)

\* What is left of a comment means nothing.
LEMMA RestOfComment ==
  ASSUME Placed, NEW m \in 1..Len(sent), ~Valid(sent[m]),
         NEW r \in Nat, ends[m - 1] < r, r < ends[m] - 1
  PROVE  ~Valid(ParseBlock(SubSeq(text, r + 1, ends[m])))
<1>1. /\ Len(sent) \in Nat /\ Len(text) \in Nat /\ text \in Text
      /\ m \in 0..Len(sent) /\ m - 1 \in 0..Len(sent)
  BY PlacedTypes
<1>2. PICK a, b : a = ends[m - 1] /\ b = ends[m]
  OBVIOUS
<1>3. a \in 0..Len(text) /\ b \in 0..Len(text)
  BY <1>1, <1>2, PlacedTypes
<1>4. SubSeq(text, a + 1, b) = ToLines(sent[m])
  <2>1. \A i \in 1..Len(sent) : SubSeq(text, ends[i - 1] + 1, ends[i]) = ToLines(sent[i])
    BY Zenon DEF Placed, PlacedAt
  <2> QED
    BY <1>2, <2>1
<1>5. ToLines(sent[m]) = <<Colon, NewLine, NewLine>>
  BY Zenon DEF ToLines
<1>6. PICK w, c : w = SubSeq(text, a + 1, b) /\ c = <<Colon, NewLine, NewLine>>
  OBVIOUS
<1>7. Len(c) = 3 /\ c[1] = Colon /\ c[2] = NewLine /\ c[3] = NewLine
  BY <1>6
<1>8. w = c
  BY <1>4, <1>5, <1>6
<1>9. /\ Len(w) = IF a <= b THEN b - a ELSE 0
      /\ \A i \in 1..(b - a) : w[i] = text[a + i]
  BY <1>1, <1>3, <1>6, Piece
<1>10. b = a + 3 /\ r = a + 1
  <2>1. Len(w) = 3
    BY <1>7, <1>8, Zenon
  <2>2. PICK l : l = Len(w)
    OBVIOUS
  <2>3. l = 3 /\ l = IF a <= b THEN b - a ELSE 0
    BY <1>9, <2>1, <2>2
  <2>4. a \in Nat /\ b \in Nat /\ a < r /\ r < b - 1
    BY <1>1, <1>2, <1>3
  <2> QED
    BY <2>3, <2>4
<1>11. text[a + 2] = NewLine /\ text[a + 3] = NewLine
  <2>1. 2 \in 1..(b - a) /\ 3 \in 1..(b - a)
    BY <1>3, <1>10
  <2> QED
    BY <1>7, <1>8, <1>9, <2>1
<1>12. PICK u, y : u = SubSeq(text, r + 1, b) /\ y = <<NewLine, NewLine>>
  OBVIOUS
<1>13. y \in Text /\ Len(y) = 2 /\ y[1] = NewLine /\ y[2] = NewLine
  BY <1>12, Tokens DEF Text
<1>14. /\ u \in Text /\ Len(u) = IF r <= b THEN b - r ELSE 0
       /\ \A i \in 1..(b - r) : u[i] = text[r + i]
  BY <1>1, <1>3, <1>12, Piece
<1>15. Len(u) = 2 /\ u[1] = NewLine /\ u[2] = NewLine
  <2>1. Len(u) = 2 /\ 1 \in 1..(b - r) /\ 2 \in 1..(b - r) /\ r + 1 = a + 2 /\ r + 2 = a + 3
    BY <1>3, <1>10, <1>14
  <2>2. u[1] = text[r + 1] /\ u[2] = text[r + 2]
    BY <1>14, <2>1
  <2> QED
    BY <1>11, <2>1, <2>2
<1>16. u = y
  <2>1. Len(u) = Len(y) /\ \A i \in 1..Len(u) : u[i] = y[i]
    BY <1>13, <1>15
  <2> QED
    BY <1>13, <1>14, <2>1, SeqEqual DEF Text
<1>17. ParseLines(u, NoField) = NoField
  BY <1>12, <1>16, CommentParsed
<1>18. ParseBlock(u) = NoField
  BY <1>15, <1>17 DEF ParseBlock
<1>19. ~Valid(NoField)
  BY DEF Valid, NoField
<1> QED
  BY <1>2, <1>12, <1>18, <1>19

\* The first empty line the plain reader finds is that of the next event.
LEMMA FoundBlock ==
  ASSUME Placed, Held, NEW n \in 0..Len(sent), Plain(n), NEW to, to \in 1..Len(text), Found(to)
  PROVE  /\ n < Len(sent) /\ to = ends[n + 1]
         /\ (cut /\ out = <<>>) \/ ParseBlock(BlockTo(to)) = sent[n + 1]
         /\ Valid(ParseBlock(BlockTo(to))) => Valid(sent[n + 1])
<1>1. /\ Len(sent) \in Nat /\ Len(text) \in Nat
      /\ \A i \in 0..Len(sent) : ends[i] \in 0..Len(text)
  BY PlacedTypes
<1>2. /\ to >= read + 2 /\ EmptyLine(to)
      /\ \A i \in (read + 2)..(to - 1) : ~EmptyLine(i)
  BY DEF Found
<1>3. read \in 0..Len(text)
  BY Zenon DEF Held
<1>4. \/ read = ends[n]
      \/ out = <<>> /\ ~cut /\ read = ends[n] - 1
      \/ out = <<>> /\ cut /\ n < Len(sent) /\ ends[n] < read /\ read < ends[n + 1] - 1
  BY DEF Plain
<1>5. n < Len(sent) => ends[n] + 2 < ends[n + 1] /\ ends[n + 1] \in 0..Len(text)
  <2>1. SUFFICES ASSUME n < Len(sent)
                 PROVE  ends[n] + 2 < ends[n + 1] /\ ends[n + 1] \in 0..Len(text)
    OBVIOUS
  <2>2. PICK j : j = n + 1
    OBVIOUS
  <2>3. j \in 0..Len(sent) /\ n < j
    BY <1>1, <2>1, <2>2
  <2> QED
    BY <1>1, <2>2, <2>3, PlacedOrder
<1>6. to > ends[n]
  <2>1. PICK e : e = ends[n]
    OBVIOUS
  <2>2. read = e \/ read = e - 1 \/ e < read
    BY <1>4, <2>1, Zenon
  <2>3. e \in Nat /\ to >= read + 2
    BY <1>1, <1>2, <2>1
  <2> QED
    BY <1>3, <2>1, <2>2, <2>3
<1>7. n < Len(sent) /\ to = ends[n + 1]
  <2>1. PICK low \in Nat : low = read + 2
    BY <1>1, <1>3
  <2>2. ASSUME n < Len(sent) PROVE ends[n + 1] >= low
    <3>1. PICK a, b : a = ends[n] /\ b = ends[n + 1]
      OBVIOUS
    <3>2. a + 2 < b /\ b \in 0..Len(text) /\ a \in 0..Len(text)
      BY <1>1, <1>5, <2>2, <3>1
    <3>3. read = a \/ read = a - 1 \/ read < b - 1
      BY <1>4, <3>1, Zenon
    <3>4. b >= low
      BY <1>1, <1>3, <2>1, <3>2, <3>3
    <3> QED
      BY <3>1, <3>4
  <2>3. \A i \in low..(to - 1) : ~EmptyLine(i)
    BY <1>2, <2>1
  <2> QED
    BY <1>2, <1>6, <2>2, <2>3, NextEnd
<1>8. n \in Nat
  BY <1>1
<1>9. BlockTo(to) = SubSeq(text, read + 1, ends[n + 1])
  BY <1>7 DEF BlockTo
<1>10. CASE read = ends[n]
  <2>1. Blank(read, ends[n])
    BY <1>10, BlankPieces
  <2>2. ParseBlock(BlockTo(to)) = sent[n + 1]
    BY <1>7, <1>8, <1>9, <2>1, EventBlock
  <2> QED
    BY <1>7, <2>2
<1>11. CASE read = ends[n] - 1
  <2>1. ends[n] > 0
    BY <1>1, <1>3, <1>11
  <2>2. Blank(read, ends[n])
    BY <1>11, <2>1, BlankPieces
  <2>3. ParseBlock(BlockTo(to)) = sent[n + 1]
    BY <1>7, <1>8, <1>9, <2>2, EventBlock
  <2> QED
    BY <1>7, <2>3
<1>12. CASE out = <<>> /\ cut /\ ends[n] < read /\ read < ends[n + 1] - 1
  <2>1. PICK m : m = n + 1
    OBVIOUS
  <2>2. m \in 1..Len(sent) /\ m - 1 = n /\ read \in Nat
    BY <1>1, <1>3, <1>7, <2>1
  <2>3. ~Valid(sent[m]) => ~Valid(ParseBlock(SubSeq(text, read + 1, ends[m])))
    BY <1>12, <2>1, <2>2, RestOfComment
  <2> QED
    BY <1>7, <1>9, <1>12, <2>1, <2>3
<1> QED
  BY <1>4, <1>10, <1>11, <1>12

\* The plain reader adds the next event.
LEMMA ReadBlockStep ==
  ASSUME Inv, NEW to \in (read + 1)..Len(text), ReadBlock(to)
  PROVE  Inv'
<1>1. Placed /\ Held /\ mode = "sse" /\ started /\ Found(to)
  BY DEF Inv, ReadBlock
<1>2. /\ Len(sent) \in Nat /\ Len(text) \in Nat /\ text \in Text
      /\ \A i \in 0..Len(sent) : ends[i] \in 0..Len(text)
  BY <1>1, PlacedTypes
<1>3. read \in 0..Len(text) /\ out \in Seq(Parsed) /\ skipped \in 0..Len(sent)
  BY <1>1, Zenon DEF Held
<1>4. to \in 1..Len(text) /\ to \in 0..Len(text)
  BY <1>2, <1>3
<1>5. PICK n \in 0..Len(sent) : Plain(n)
  BY <1>1 DEF Inv
<1>6. PICK x : x = ParseBlock(BlockTo(to))
  OBVIOUS
<1>7. /\ out' = Append(out, x) /\ read' = to /\ Valid(x)
      /\ sent' = sent /\ text' = text /\ ends' = ends /\ mode' = mode
      /\ started' = started /\ skipped' = skipped /\ cut' = cut
  BY <1>6, Zenon DEF ReadBlock
<1>8. /\ n < Len(sent) /\ to = ends[n + 1] /\ Valid(sent[n + 1])
      /\ (cut /\ out = <<>>) \/ x = sent[n + 1]
  BY <1>1, <1>4, <1>5, <1>6, <1>7, FoundBlock
<1>9. x \in Parsed
  <2>1. SubSeq(text, read + 1, to) \in Text
    BY <1>2, <1>3, <1>4, Piece
  <2> QED
    BY <1>6, <2>1 DEF Parsed, BlockTo
<1>10. PICK o : o = Append(out, x)
  OBVIOUS
<1>11. /\ o \in Seq(Parsed) /\ Len(o) = Len(out) + 1 /\ o[Len(out) + 1] = x
       /\ \A i \in 1..Len(out) : o[i] = out[i]
       /\ Len(out) \in Nat /\ o # <<>>
  BY <1>3, <1>9, <1>10, AppendProperties, LenProperties
<1>12. Placed' /\ Held'
  <2>1. Placed'
    BY <1>1, <1>7, Zenon DEF Placed
  <2>2. Held'
    BY <1>1, <1>4, <1>7, <1>10, <1>11, Zenon DEF Held
  <2> QED
    BY <2>1, <2>2
<1>13. PICK m : m = n + 1
  OBVIOUS
<1>14. m \in 0..Len(sent) /\ n = skipped + Len(out) /\ m = skipped + Len(o)
  <2>1. n = skipped + Len(out)
    BY <1>5 DEF Plain
  <2> QED
    BY <1>2, <1>3, <1>8, <1>11, <1>13, <2>1
<1>15. ASSUME NEW i \in 1..Len(o)
       PROVE  /\ Valid(sent[skipped + i])
              /\ o[i] = sent[skipped + i] \/ (i = 1 /\ cut)
  <2>1. CASE i \in 1..Len(out)
    <3>1. /\ Valid(sent[skipped + i])
          /\ out[i] = sent[skipped + i] \/ (i = 1 /\ cut)
      BY <1>5, <2>1 DEF Plain
    <3> QED
      BY <1>11, <2>1, <3>1
  <2>2. CASE i = Len(out) + 1
    <3>1. skipped + i = m /\ o[i] = x
      BY <1>3, <1>11, <1>14, <2>2
    <3>2. out = <<>> => i = 1
      BY <2>2, EmptySeq
    <3> QED
      BY <1>8, <1>13, <3>1, <3>2
  <2> QED
    BY <1>11, <2>1, <2>2
<1>16. Plain(m)'
  <2>1. to = ends[m]
    BY <1>8, <1>13
  <2> QED
    BY <1>7, <1>10, <1>11, <1>14, <1>15, <2>1, Zenon DEF Plain
<1>17. mode' # "chunked sse"
  BY <1>1, <1>7
<1> QED
  BY <1>7, <1>12, <1>14, <1>16, <1>17, Zenon DEF Inv

\* Every step preserves the invariant.
LEMMA NextInv == Peer = "lines" /\ Inv /\ [Next]_vars => Inv'
<1> SUFFICES ASSUME Peer = "lines", Inv, [Next]_vars PROVE Inv'
  OBVIOUS
<1>1. CASE UNCHANGED vars
  BY <1>1, StutterStep
<1>2. CASE StartChunked
  BY <1>2, StartChunkedStep
<1>3. ASSUME NEW k \in 0..Len(text), StartPlain(k) PROVE Inv'
  BY <1>3, StartPlainStep
<1>4. ASSUME NEW to \in (read + 1)..Len(text), OnChunkBody(to) PROVE Inv'
  BY <1>4, OnChunkBodyStep
<1>5. ASSUME NEW to \in (read + 1)..Len(text), ReadBlock(to) PROVE Inv'
  BY <1>5, ReadBlockStep
<1>6. ASSUME NEW event \in Events, Send(event) PROVE Inv'
  BY <1>6, SendStep
<1>7. CASE Next
  <2>1. Start \/ ReadStep \/ \E event \in Events : Send(event)
    BY <1>7, Zenon DEF Next
  <2>2. Start => Inv'
    BY <1>2, <1>3, Zenon DEF Start
  <2>3. ReadStep => Inv'
    BY <1>4, <1>5, Zenon DEF ReadStep
  <2> QED
    BY <1>6, <2>1, <2>2, <2>3, Zenon
<1> QED
  BY <1>1, <1>7, Zenon

\* What is read lies where the events that were read lie.
THEOREM Invariant == Peer = "lines" => (Spec => []Inv)
<1> SUFFICES ASSUME Peer = "lines" PROVE Spec => []Inv
  OBVIOUS
<1>1. Init => Inv
  BY InitInv
<1>2. Inv /\ [Next]_vars => Inv'
  BY NextInv
<1> QED
  BY <1>1, <1>2, PTL DEF Spec

-----------------------------------------------------------------------------
(* What the readers promise.                                               *)

\* What is expected after the events that were skipped.
LEMMA ExpectedIs ==
  ASSUME Placed, skipped \in 0..Len(sent)
  PROVE  /\ skipped = 0 => Expected = WithField(sent)
         /\ SubSeq(sent, skipped + 1, Len(sent)) \in Seq(Events)
         /\ Len(SubSeq(sent, skipped + 1, Len(sent))) = Len(sent) - skipped
         /\ \A i \in 1..(Len(sent) - skipped) :
              SubSeq(sent, skipped + 1, Len(sent))[i] = sent[skipped + i]
<1>1. sent \in Seq(Events) /\ Len(sent) \in Nat
  BY PlacedTypes
<1>2. skipped = 0 => Expected = WithField(sent)
  <2>1. SUFFICES ASSUME skipped = 0 PROVE SubSeq(sent, skipped + 1, Len(sent)) = sent
    BY Zenon DEF Expected
  <2>2. SubSeq(sent, 1, Len(sent)) = sent
    BY <1>1, SubSeqFull
  <2>3. skipped + 1 = 1
    BY <2>1
  <2> QED
    BY <2>2, <2>3
<1>3. PICK a, b : a = skipped + 1 /\ b = Len(sent)
  OBVIOUS
<1>4. a \in 1..(b + 1) /\ b \in Nat
  BY <1>1, <1>3
<1>5. \A i \in a..b : sent[i] \in Events
  <2>1. \A i \in a..b : i \in 1..Len(sent)
    BY <1>3, <1>4
  <2> QED
    BY <1>1, <2>1, ElementOfSeq
<1>6. /\ SubSeq(sent, a, b) \in Seq(Events)
      /\ Len(SubSeq(sent, a, b)) = IF a <= b THEN b - a + 1 ELSE 0
      /\ \A i \in 1..(b - a + 1) : SubSeq(sent, a, b)[i] = sent[a + i - 1]
  BY <1>4, <1>5, SubSeqProperties
<1>7. PICK s, l : s = SubSeq(sent, a, b) /\ l = Len(s)
  OBVIOUS
<1>8. l = b - skipped
  <2>1. l = IF a <= b THEN b - a + 1 ELSE 0
    BY <1>6, <1>7
  <2> QED
    BY <1>3, <1>4, <2>1
<1>9. ASSUME NEW i \in 1..(b - skipped) PROVE s[i] = sent[skipped + i]
  <2>1. i \in 1..(b - a + 1) /\ a + i - 1 = skipped + i
    BY <1>3, <1>4
  <2> QED
    BY <1>6, <1>7, <2>1
<1> QED
  BY <1>2, <1>3, <1>6, <1>7, <1>8, <1>9, Zenon

\* What the chunked reader has read so far.
LEMMA ChunkedRead ==
  ASSUME Placed, Held, NEW n \in 0..Len(sent), Chunked(n)
  PROVE  /\ IsPrefix(out, Blocks)
         /\ passed = {} => IsPrefix(out, Expected)
         /\ read = Len(text) => Len(out) = Len(Blocks)
<1>1. sent \in Seq(Events) /\ Len(sent) \in Nat /\ ends[Len(sent)] = Len(text)
      /\ Len(text) \in Nat /\ \A i \in 0..Len(sent) : ends[i] \in 0..Len(text)
  BY PlacedTypes
<1>2. skipped = 0 /\ skipped \in 0..Len(sent) /\ read \in 0..Len(text)
  BY Zenon DEF Held, Chunked
<1>3. PICK g : BlocksTo(g, sent, passed, Len(sent)) /\ Blocks = g[Len(sent)].made
  BY <1>1, BlocksExist
<1>4. out = g[n].made
  <2>1. BlocksTo(g, sent, passed, n)
    BY <1>1, <1>3, BlocksSame
  <2> QED
    BY <2>1, Zenon DEF Chunked
<1>5. \A i \in 1..Len(sent) : sent[i] \in AnyEvent
  BY SentEvents
<1>6. IsPrefix(out, Blocks)
  <2>1. PICK s, t : s = g[n].made /\ t = g[Len(sent)].made
    OBVIOUS
  <2>2. \A i \in 0..Len(sent) : g[i].made \in Seq(AnyEvent)
    BY <1>1, <1>3, <1>5, BlocksTyped
  <2>3. Len(sent) \in 0..Len(sent)
    BY <1>1
  <2>4. s \in Seq(AnyEvent) /\ t \in Seq(AnyEvent) /\ Starts(s, t)
    BY <1>1, <1>3, <1>5, <2>1, <2>2, <2>3, BlocksStart
  <2>5. IsPrefix(s, t)
    BY <2>4, StartsIsPrefix
  <2> QED
    BY <1>3, <1>4, <2>1, <2>5, Zenon
<1>7. ASSUME passed = {} PROVE IsPrefix(out, Expected)
  <2>1. sent \in Seq(AnyEvent)
    <3>1. Events \subseteq AnyEvent
      BY SentEvents
    <3> QED
      BY <1>1, <3>1, SeqMonotonic
  <2>2. g[Len(sent)].made = WithField(sent)
    BY <1>3, <1>7, <2>1, BlocksAlone
  <2>3. Expected = WithField(sent)
    BY <1>2, ExpectedIs
  <2> QED
    BY <1>3, <1>6, <2>2, <2>3, Zenon
<1>8. ASSUME read = Len(text) PROVE Len(out) = Len(Blocks)
  <2>1. n = Len(sent)
    <3>1. SUFFICES ASSUME n < Len(sent) PROVE FALSE
      BY <1>1
    <3>2. read < ends[n + 1]
      BY <3>1 DEF Chunked
    <3>3. PICK m : m = n + 1
      OBVIOUS
    <3>4. m \in 0..Len(sent)
      BY <1>1, <3>1, <3>3
    <3>5. ends[m] \in 0..Len(text)
      BY <1>1, <3>4
    <3> QED
      BY <1>1, <1>8, <3>2, <3>3, <3>5
  <2> QED
    BY <1>3, <1>4, <2>1, Zenon
<1> QED
  BY <1>6, <1>7, <1>8

\* What the plain reader has read so far.
LEMMA PlainRead ==
  ASSUME Placed, Held, NEW n \in 0..Len(sent), Plain(n)
  PROVE  /\ Len(out) \in Nat /\ Len(Expected) \in Nat /\ Len(out) <= Len(Expected)
         /\ \A i \in 1..Len(out) : out[i] = Expected[i] \/ (i = 1 /\ cut)
         /\ n = Len(sent) => Len(out) = Len(Expected)
<1>1. sent \in Seq(Events) /\ Len(sent) \in Nat
  BY PlacedTypes
<1>2. skipped \in 0..Len(sent) /\ out \in Seq(Parsed)
  BY Zenon DEF Held
<1>3. Len(out) \in Nat
  BY <1>2, LenProperties
<1>4. PICK s : s = SubSeq(sent, skipped + 1, Len(sent))
  OBVIOUS
<1>5. /\ s \in Seq(Events) /\ Len(s) = Len(sent) - skipped
      /\ \A i \in 1..(Len(sent) - skipped) : s[i] = sent[skipped + i]
  BY <1>2, <1>4, ExpectedIs
<1>6. n = skipped + Len(out)
  BY DEF Plain
<1>7. Len(out) \in 0..Len(s)
  BY <1>1, <1>2, <1>3, <1>5, <1>6
<1>8. ASSUME NEW i \in 1..Len(out)
      PROVE  /\ s[i] = sent[skipped + i] /\ Valid(s[i])
             /\ out[i] = s[i] \/ (i = 1 /\ cut)
  <2>1. i \in 1..(Len(sent) - skipped)
    BY <1>1, <1>2, <1>3, <1>5, <1>7
  <2>2. s[i] = sent[skipped + i]
    BY <1>5, <2>1
  <2>3. Valid(sent[skipped + i])
    BY DEF Plain
  <2>4. out[i] = sent[skipped + i] \/ (i = 1 /\ cut)
    BY DEF Plain
  <2> QED
    BY <2>2, <2>3, <2>4, Zenon
<1>9. Expected = WithField(s)
  BY <1>4 DEF Expected
<1>10. PICK m : m = Len(out)
  OBVIOUS
<1>11. /\ Len(WithField(s)) \in Nat /\ Len(WithField(s)) >= m
       /\ \A i \in 1..m : WithField(s)[i] = s[i]
       /\ m = Len(s) => Len(WithField(s)) = m
  <2>1. m \in 0..Len(s) /\ \A i \in 1..m : Valid(s[i])
    BY <1>7, <1>8, <1>10
  <2> QED
    BY <1>5, <2>1, AllWithField
<1>12. n = Len(sent) => m = Len(s)
  BY <1>1, <1>2, <1>3, <1>5, <1>6, <1>10
<1>13. PICK w, l : w = WithField(s) /\ l = Len(w)
  OBVIOUS
<1>14. m <= l /\ l \in Nat /\ m \in Nat
  BY <1>3, <1>10, <1>11, <1>13
<1>15. \A i \in 1..m : out[i] = w[i] \/ (i = 1 /\ cut)
  BY <1>8, <1>10, <1>11, <1>13, Zenon
<1> QED
  BY <1>9, <1>10, <1>11, <1>12, <1>13, <1>14, <1>15, Zenon

\* Before the plain reader starts it has read nothing.
LEMMA NothingRead == Held /\ ~started => out = <<>>
  BY Zenon DEF Held

\* The invariant implies each of the properties.
LEMMA ChunkedExact == Inv => ChunkedEventsExact
<1> SUFFICES ASSUME Inv, mode = "chunked sse"
             PROVE  IsPrefix(out, Blocks) /\ (passed = {} => IsPrefix(out, Expected))
  BY DEF ChunkedEventsExact
<1>1. PICK n \in 0..Len(sent) : Chunked(n)
  BY DEF Inv
<1>2. Placed /\ Held
  BY DEF Inv
<1> QED
  BY <1>1, <1>2, ChunkedRead

\* The plain reader.
LEMMA PlainExact == Inv => PlainEventsExact
<1> SUFFICES ASSUME Inv, mode = "sse"
             PROVE  /\ Len(out) <= Len(Expected)
                    /\ \A i \in DOMAIN out : out[i] = Expected[i] \/ (i = 1 /\ cut)
  BY Zenon DEF PlainEventsExact
<1>1. Placed /\ Held
  BY DEF Inv
<1>2. out \in Seq(Parsed) /\ skipped \in 0..Len(sent)
  BY <1>1, Zenon DEF Held
<1>3. DOMAIN out = 1..Len(out)
  BY <1>2, LenProperties
<1>4. CASE started
  <2>1. PICK n \in 0..Len(sent) : Plain(n)
    BY <1>4 DEF Inv
  <2> QED
    BY <1>1, <1>3, <2>1, PlainRead
<1>5. CASE ~started
  <2>1. out = <<>>
    BY <1>1, <1>5, NothingRead
  <2>2. Len(out) = 0
    BY <2>1, EmptySeq
  <2>3. DOMAIN out = {}
    BY <1>3, <2>2
  <2>4. PICK s : s = SubSeq(sent, skipped + 1, Len(sent))
    OBVIOUS
  <2>5. s \in Seq(Events) /\ Expected = WithField(s)
    BY <1>1, <1>2, <2>4, ExpectedIs DEF Expected
  <2>6. Len(WithField(s)) \in Nat
    <3>1. Len(s) \in Nat
      BY <2>5, LenProperties
    <3>2. 0 \in 0..Len(s) /\ \A i \in 1..0 : Valid(s[i])
      BY <3>1
    <3> QED
      BY <2>5, <3>2, AllWithField
  <2>7. Len(out) <= Len(Expected)
    BY <2>2, <2>5, <2>6
  <2> QED
    BY <2>3, <2>7, Zenon
<1> QED
  BY <1>4, <1>5

\* The block it is stuck at.
LEMMA StuckRest == Inv => StuckOnlyByRest
<1> SUFFICES ASSUME Inv, Stuck
             PROVE  (cut /\ out = <<>>) \/ \E i \in (skipped + 1)..Len(sent) : ~Valid(sent[i])
  BY Zenon DEF StuckOnlyByRest
<1>1. Placed /\ Held
  BY DEF Inv
<1>2. /\ mode = "sse" /\ started
      /\ \E to \in 2..Len(text) : Found(to) /\ ~Valid(ParseBlock(BlockTo(to)))
  BY Zenon DEF Stuck
<1>3. PICK to \in 2..Len(text) : Found(to) /\ ~Valid(ParseBlock(BlockTo(to)))
  BY <1>2
<1>4. PICK n \in 0..Len(sent) : Plain(n)
  BY <1>2 DEF Inv
<1>5. Len(sent) \in Nat /\ Len(text) \in Nat
  BY <1>1, PlacedTypes
<1>6. to \in 1..Len(text)
  BY <1>5
<1>7. /\ n < Len(sent)
      /\ (cut /\ out = <<>>) \/ ParseBlock(BlockTo(to)) = sent[n + 1]
  BY <1>1, <1>3, <1>4, <1>6, FoundBlock
<1>8. CASE ParseBlock(BlockTo(to)) = sent[n + 1]
  <2>1. PICK i : i = n + 1
    OBVIOUS
  <2>2. ~Valid(sent[i])
    BY <1>3, <1>8, <2>1
  <2>3. n = skipped + Len(out) /\ skipped \in 0..Len(sent)
    BY <1>1, <1>4, Zenon DEF Plain, Held
  <2>4. Len(out) \in Nat
    <3>1. out \in Seq(Parsed)
      BY <1>1, Zenon DEF Held
    <3> QED
      BY <3>1, LenProperties
  <2>5. i \in (skipped + 1)..Len(sent)
    BY <1>5, <1>7, <2>1, <2>3, <2>4
  <2> QED
    BY <2>2, <2>5
<1> QED
  BY <1>7, <1>8

\* The plain reader finds every event that is there.
LEMMA AllFound ==
  ASSUME Placed, Held, NEW n \in 0..Len(sent), Plain(n), n < Len(sent)
  PROVE  \E to \in 2..Len(text) : Found(to)
<1>1. /\ Len(sent) \in Nat /\ Len(text) \in Nat
      /\ \A i \in 0..Len(sent) : ends[i] \in 0..Len(text)
  BY PlacedTypes
<1>2. PICK m : m = n + 1
  OBVIOUS
<1>3. m \in 1..Len(sent) /\ m \in 0..Len(sent) /\ n < m
  BY <1>1, <1>2
<1>4. PICK to : to = ends[m]
  OBVIOUS
<1>5. to \in 0..Len(text) /\ ends[n] \in 0..Len(text) /\ ends[n] + 2 < to
  BY <1>1, <1>3, <1>4, PlacedOrder
<1>6. read \in 0..Len(text)
  BY Zenon DEF Held
<1>7. /\ \/ read = ends[n]
         \/ read = ends[n] - 1
         \/ ends[n] < read /\ read < to - 1
  BY <1>2, <1>4 DEF Plain
<1>8. to >= read + 2 /\ read + 2 > ends[n]
  BY <1>1, <1>5, <1>6, <1>7
<1>9. EmptyLine(to)
  <2>1. to \in 1..Len(text)
    BY <1>1, <1>5
  <2> QED
    BY <1>3, <1>4, <2>1, EmptyLines
<1>10. ASSUME NEW i \in (read + 2)..(to - 1) PROVE ~EmptyLine(i)
  <2>1. i \in 1..Len(text) /\ ends[n] < i /\ i < to
    BY <1>1, <1>5, <1>6, <1>8
  <2>2. ASSUME NEW j \in 1..Len(sent), i = ends[j] PROVE FALSE
    <3>1. j \in 0..Len(sent)
      OBVIOUS
    <3>2. n <= j /\ j <= m
      <4>1. ends[n] <= ends[j] /\ ends[j] <= ends[m]
        BY <1>1, <1>4, <1>5, <2>1, <2>2
      <4> QED
        BY <1>3, <3>1, <4>1, PlacedOrder
    <3>3. j = n \/ j = m
      BY <1>1, <1>2, <3>1, <3>2
    <3> QED
      BY <1>4, <1>5, <2>1, <2>2, <3>3
  <2> QED
    BY <2>1, <2>2, EmptyLines
<1>11. Found(to)
  BY <1>8, <1>9, <1>10 DEF Found
<1>12. to \in 2..Len(text)
  BY <1>1, <1>5
<1> QED
  BY <1>11, <1>12

\* A reader that has nothing left to do has read all events.
LEMMA DrainedRead == Inv => DrainedMeansRead
<1> SUFFICES ASSUME Inv, Drained
             PROVE  Len(out) = Len(IF mode = "sse" THEN Expected ELSE Blocks)
  BY Zenon DEF DrainedMeansRead
<1>1. Placed /\ Held /\ mode \in {"sse", "chunked sse"}
  BY Zenon DEF Inv, Held
<1>2. started /\ IF mode = "sse" THEN \A to \in 2..Len(text) : ~Found(to) ELSE read = Len(text)
  BY Zenon DEF Drained
<1>3. CASE mode = "sse"
  <2>1. PICK n \in 0..Len(sent) : Plain(n)
    BY <1>2, <1>3 DEF Inv
  <2>2. \A to \in 2..Len(text) : ~Found(to)
    BY <1>2, <1>3
  <2>3. ~(n < Len(sent))
    BY <1>1, <2>1, <2>2, AllFound
  <2>4. Len(sent) \in Nat
    BY <1>1, PlacedTypes
  <2>5. n = Len(sent)
    BY <2>3, <2>4
  <2>6. Len(out) = Len(Expected)
    BY <1>1, <2>1, <2>5, PlainRead
  <2> QED
    BY <1>3, <2>6, Zenon
<1>4. CASE mode = "chunked sse"
  <2>1. PICK n \in 0..Len(sent) : Chunked(n)
    BY <1>4 DEF Inv
  <2>2. read = Len(text)
    BY <1>2, <1>4
  <2>3. Len(out) = Len(Blocks)
    BY <1>1, <2>1, <2>2, ChunkedRead
  <2>4. ~(mode = "sse")
    BY <1>4
  <2> QED
    BY <2>3, <2>4, Zenon
<1> QED
  BY <1>1, <1>3, <1>4

-----------------------------------------------------------------------------
(* The theorems.  The server writes lines and an empty line after them.    *)

\* However the text is cut into chunks, and whatever comments stand between
\* the events, the chunked reader makes of it the events that were sent, two of
\* them as one exactly where a chunk goes on past the end of the first.
THEOREM ChunkedExactAlways == Peer = "lines" => (Spec => []ChunkedEventsExact)
<1> SUFFICES ASSUME Peer = "lines" PROVE Spec => []ChunkedEventsExact
  OBVIOUS
<1>1. Spec => []Inv
  BY Invariant
<1> QED
  BY <1>1, ChunkedExact, PTL

\* The plain reader can only spoil the event that the read of the header has
\* cut in two.
THEOREM PlainExactAlways == Peer = "lines" => (Spec => []PlainEventsExact)
<1> SUFFICES ASSUME Peer = "lines" PROVE Spec => []PlainEventsExact
  OBVIOUS
<1>1. Spec => []Inv
  BY Invariant
<1> QED
  BY <1>1, PlainExact, PTL

\* It spins for ever only over a comment, or over the rest of an event.
THEOREM StuckAlways == Peer = "lines" => (Spec => []StuckOnlyByRest)
<1> SUFFICES ASSUME Peer = "lines" PROVE Spec => []StuckOnlyByRest
  OBVIOUS
<1>1. Spec => []Inv
  BY Invariant
<1> QED
  BY <1>1, StuckRest, PTL

\* Once a reader has nothing left to do, every event sent has been read, on its
\* own or, where a chunk goes on past its end, as one with another.
THEOREM DrainedAlways == Peer = "lines" => (Spec => []DrainedMeansRead)
<1> SUFFICES ASSUME Peer = "lines" PROVE Spec => []DrainedMeansRead
  OBVIOUS
<1>1. Spec => []Inv
  BY Invariant
<1> QED
  BY <1>1, DrainedRead, PTL
=============================================================================
