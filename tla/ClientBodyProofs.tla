-------------------------- MODULE ClientBodyProofs --------------------------
(***************************************************************************)
(* Proofs about read() and close() of a response that is not streamed: the *)
(* safety properties hold for a body of any number of pieces.              *)
(***************************************************************************)
EXTENDS ClientBody, SequenceTheorems, TLAPS

Framings == {"length", "until close", "streamed"}
Conns == {"up", "ended", "reset", "gone"}

\* The first n pieces.
Pieces(n) == [i \in 1..n |-> i]

TypeOK ==
  /\ framing \in Framings /\ secure \in BOOLEAN /\ conn \in Conns
  /\ total \in Nat /\ arrived \in Nat /\ parsed \in Nat
  /\ parsed <= arrived /\ arrived <= total
  /\ body \in Seq(Nat) /\ reading \in BOOLEAN /\ done \in BOOLEAN
  /\ closed \in BOOLEAN /\ failed \in BOOLEAN
  /\ result \in Results /\ delivered \in {0, 1}

\* Nobody waits for a body that has been returned.
Once ==
  /\ done <=> closed \/ delivered = 1
  /\ reading => delivered = 0
  /\ result = "body" => delivered = 1

\* Before the first failure body is what the parser is past, and the parser
\* has not begun before the first read.
Fresh ==
  ~failed =>
    /\ body = Pieces(parsed)
    /\ ~reading /\ delivered = 0 => parsed = 0

\* After a failure of a body with a length no piece can be read any more.
Hopeless ==
  failed /\ framing = "length" =>
    /\ parsed # total
    /\ \/ conn \in {"reset", "gone"}
       \/ conn = "ended" /\ parsed = arrived
       \/ closed /\ ~reading

\* What has been returned stays.
Returned ==
  result = "body" =>
    /\ framing = "length" => parsed = total
    /\ framing # "length" /\ ~failed /\ ~closed => parsed = arrived /\ conn = "ended"

\* A reset is known only to a read that has failed.
Noticed == conn = "gone" => failed

\* The inductive invariant.
IInv == TypeOK /\ Once /\ Fresh /\ Hopeless /\ Returned /\ Noticed

LEMMA InitGood == Init => IInv
<1> SUFFICES ASSUME Init PROVE IInv
  OBVIOUS
<1>1. TypeOK
  <2>1. total \in 0..MaxPieces /\ arrived \in 0..total /\ parsed = 0
    BY DEF Init
  <2>2. total \in Nat /\ arrived \in Nat /\ parsed \in Nat /\ parsed <= arrived /\ arrived <= total
    BY <2>1, BodyAssumption
  <2>3. body \in Seq(Nat)
    BY EmptySeq DEF Init
  <2> QED
    BY <2>2, <2>3 DEF Init, TypeOK, Framings, Conns, Results
<1>2. Once
  <2>1. done = FALSE /\ closed = FALSE /\ delivered = 0 /\ reading = FALSE /\ result = "none"
    BY DEF Init
  <2>2. done <=> closed \/ delivered = 1
    BY <2>1
  <2> QED
    BY <2>1, <2>2 DEF Once
<1>3. Fresh
  <2>1. <<>> = [i \in 1..0 |-> i]
    OBVIOUS
  <2> QED
    BY <2>1 DEF Init, Fresh, Pieces
<1>4. Hopeless /\ Returned /\ Noticed
  BY DEF Init, Hopeless, Returned, Noticed
<1> QED
  BY <1>1, <1>2, <1>3, <1>4 DEF IInv

\* The next piece.
LEMMA NextPiece ==
  ASSUME NEW n \in Nat
  PROVE  Append(Pieces(n), n + 1) = Pieces(n + 1)
<1> DEFINE s == [i \in 1..n |-> i]
           t == [i \in 1..(n + 1) |-> i]
<1>1. s \in Seq(Nat) /\ t \in Seq(Nat) /\ Len(s) = n /\ Len(t) = n + 1
  OBVIOUS
<1>2. /\ Append(s, n + 1) \in Seq(Nat) /\ Len(Append(s, n + 1)) = n + 1
      /\ \A i \in 1..n : Append(s, n + 1)[i] = s[i]
      /\ Append(s, n + 1)[n + 1] = n + 1
  BY <1>1, AppendProperties
<1>3. /\ \A i \in 1..(n + 1) : t[i] = i
      /\ \A i \in 1..n : s[i] = i
  OBVIOUS
<1> HIDE DEF s, t
<1>4. \A i \in 1..(n + 1) : Append(s, n + 1)[i] = t[i]
  BY <1>2, <1>3
<1> QED
  BY <1>1, <1>2, <1>4, SeqEqual DEF s, t, Pieces

\* A read returns the body.
ReturnsBody ==
  /\ reading /\ Succeed /\ UNCHANGED server
  /\ \/ framing = "length" /\ parsed = total
     \/ framing = "until close" /\
          (~failed /\ ~closed => parsed = arrived /\ conn = "ended")

LEMMA SucceedKeeps == ASSUME IInv, ReturnsBody PROVE IInv'
<1>1. /\ TypeOK /\ Once /\ Fresh /\ Hopeless /\ Noticed
      /\ UNCHANGED <<framing, secure, total, arrived, conn, parsed, body, closed, failed>>
      /\ reading' = FALSE /\ done' = TRUE /\ result' = "body"
      /\ delivered' = delivered + 1 /\ delivered = 0
  BY DEF IInv, ReturnsBody, Succeed, server, Once
<1>2. delivered' = 1
  <2>1. delivered = 0
    BY <1>1
  <2>2. delivered' = delivered + 1
    BY <1>1
  <2> QED
    BY <2>1, <2>2
<1>3. TypeOK'
  BY <1>1, <1>2 DEF TypeOK, Results
<1>4. done' <=> closed' \/ delivered' = 1
  BY <1>1, <1>2
<1>5. Once'
  BY <1>1, <1>2, <1>4 DEF Once
<1>6. Fresh'
  <2>1. ~failed' => body' = Pieces(parsed')
    BY <1>1 DEF Fresh, Pieces
  <2>2. delivered' # 0
    BY <1>2
  <2> QED
    BY <2>1, <2>2 DEF Fresh
<1>7. Hopeless'
  BY <1>1 DEF ReturnsBody, Hopeless
<1>8. Returned'
  BY <1>1 DEF ReturnsBody, Returned
<1>9. Noticed'
  BY <1>1 DEF Noticed
<1> QED
  BY <1>3, <1>5, <1>6, <1>7, <1>8, <1>9 DEF IInv

\* Every step keeps the invariant.
LEMMA StepGood == IInv /\ [Next]_vars => IInv'
<1> SUFFICES ASSUME IInv, [Next]_vars PROVE IInv'
  OBVIOUS
<1> USE DEF IInv
<1>1. CASE ReadRefused
  <2>1. TypeOK'
    BY <1>1 DEF ReadRefused, TypeOK, server, Results
  <2>2. (Once /\ Fresh /\ Hopeless /\ Returned /\ Noticed)'
    BY <1>1 DEF ReadRefused, server, Once, Fresh, Hopeless, Returned, Noticed, Pieces
  <2> QED
    BY <2>1, <2>2
<1>2. CASE ReadStarts
  <2>1. TypeOK'
    BY <1>2, EmptySeq DEF ReadStarts, TypeOK, server
  <2>2. delivered = 0 /\ ~closed /\ result # "body"
    BY <1>2 DEF ReadStarts, Once, TypeOK
  <2>3. (Once /\ Hopeless /\ Returned /\ Noticed)'
    BY <1>2, <2>2 DEF ReadStarts, server, Once, Hopeless, Returned, Noticed
  <2>4. Fresh'
    <3>1. ~failed => parsed = 0
      BY <1>2, <2>2 DEF ReadStarts, Fresh
    <3>2. <<>> = [i \in 1..0 |-> i]
      OBVIOUS
    <3> QED
      BY <1>2, <3>1, <3>2 DEF ReadStarts, server, Fresh, Pieces
  <2> QED
    BY <2>1, <2>3, <2>4
<1>3. CASE Read
  <2>1. /\ parsed < arrived /\ parsed' = parsed + 1 /\ body' = Append(body, parsed + 1)
        /\ reading /\ conn \in {"up", "ended"}
        /\ UNCHANGED <<framing, secure, total, arrived, conn, reading, done, closed,
                       result, failed, delivered>>
    BY <1>3 DEF Read, server, caller
  <2>2. TypeOK'
    <3>1. parsed' \in Nat /\ parsed' <= arrived' /\ parsed + 1 \in Nat
      BY <2>1 DEF TypeOK
    <3>2. body' \in Seq(Nat)
      BY <2>1, <3>1, AppendProperties DEF TypeOK
    <3> QED
      BY <2>1, <3>1, <3>2 DEF TypeOK
  <2>3. result # "body" /\ Once'
    BY <2>1 DEF Once, TypeOK
  <2>4. Fresh'
    <3>1. ~failed => body' = Pieces(parsed + 1)
      BY <2>1, NextPiece DEF Fresh, TypeOK
    <3> QED
      BY <2>1, <3>1 DEF Fresh
  <2>5. ~(failed /\ framing = "length")
    BY <2>1 DEF Hopeless, TypeOK
  <2> QED
    BY <2>1, <2>2, <2>3, <2>4, <2>5 DEF Hopeless, Returned, Noticed
<1>4. CASE ReadWhole
  <2>1. reading /\ framing = "length" /\ parsed = total /\ UNCHANGED server /\ Succeed
    BY <1>4 DEF ReadWhole, Whole
  <2> QED
    BY <2>1, SucceedKeeps DEF ReturnsBody
<1>5. CASE ReadEof
  <2>1. CASE framing = "until close" /\ Succeed
    <3>1. ~failed /\ ~closed => parsed = arrived /\ conn = "ended"
      BY <1>5 DEF ReadEof, AtEof, Noticed
    <3> QED
      BY <1>5, <2>1, <3>1, SucceedKeeps DEF ReadEof, ReturnsBody
  <2>2. CASE framing = "length" /\ ~Whole /\ Fail
    BY <1>5, <2>2 DEF ReadEof, AtEof, Fail, Whole, server, TypeOK, Results, Once, Fresh,
              Hopeless, Returned, Noticed, Pieces
  <2> QED
    BY <1>5, <2>1, <2>2 DEF ReadEof
<1>6. CASE ReadReset
  BY <1>6 DEF ReadReset, Fail, Whole, TypeOK, Results, Conns, Once, Fresh, Hopeless,
              Returned, Noticed, Pieces
<1>7. CASE Close
  BY <1>7 DEF Close, server, TypeOK, Once, Fresh, Hopeless, Returned, Noticed, Pieces
<1>8. CASE Arrive
  BY <1>8 DEF Arrive, caller, TypeOK, Once, Fresh, Hopeless, Returned, Noticed, Pieces
<1>9. CASE ConnectionEnds
  BY <1>9 DEF ConnectionEnds, caller, TypeOK, Conns, Once, Fresh, Hopeless, Returned, Noticed,
              Pieces
<1>10. CASE UNCHANGED vars
  BY <1>10 DEF vars, server, caller, TypeOK, Once, Fresh, Hopeless, Returned, Noticed, Pieces
<1> QED
  BY <1>1, <1>2, <1>3, <1>4, <1>5, <1>6, <1>7, <1>8, <1>9, <1>10 DEF Next, ReadReturns

\* In every reachable state the invariant holds.
THEOREM Invariance == Spec => []IInv
BY InitGood, StepGood, PTL DEF Spec

\* read() never returns a part of a body with a length, nor, before a failed
\* read is tried again and unless close() cuts it off, of one that ends with
\* the connection (client/response.hpp:207-227).
THEOREM WholeBody == Spec => []BodyWhole
<1>1. IInv => BodyWhole
  <2> SUFFICES ASSUME IInv, result = "body"
               PROVE  /\ framing = "length" \/ ~failed => body = [i \in 1..parsed |-> i]
                      /\ framing = "length" => parsed = total
                      /\ framing # "length" /\ ~failed /\ ~closed => parsed = arrived
    BY DEF BodyWhole
  <2>1. /\ framing = "length" => parsed = total
        /\ framing # "length" /\ ~failed /\ ~closed => parsed = arrived
    BY DEF IInv, Returned
  <2>2. framing = "length" => ~failed
    BY <2>1 DEF IInv, Hopeless
  <2>3. ~failed => body = [i \in 1..parsed |-> i]
    BY DEF IInv, Fresh, Pieces
  <2> QED
    BY <2>1, <2>2, <2>3
<1> QED
  BY <1>1, Invariance, PTL

\* read() returns a body at most once, and complete() is true exactly after
\* that or after a close(), also when close() is called under a read.
THEOREM OneBody == Spec => []BodyOnce
<1>1. IInv => BodyOnce
  BY DEF IInv, TypeOK, Once, BodyOnce
<1> QED
  BY <1>1, Invariance, PTL
=============================================================================
