--------------------------- MODULE StreamPromise ---------------------------
(***************************************************************************)
(* What a streamed response promises to the service behind it, with no     *)
(* channel and no coroutine: the chunks offered are put on the wire in     *)
(* order, the empty ones left out, until the stream is done; when it is    *)
(* done at most Capacity of them have been left behind.  After the         *)
(* connection is cut chunks are consumed and lost.                         *)
(***************************************************************************)
EXTENDS Naturals, Sequences

CONSTANTS Capacity, MaxChunks, EmptyChunks

VARIABLES
  offered,  \* the number of chunks the producer has offered
  pos,      \* the number of them that have been dealt with
  wire,     \* the numbers of those the client can read
  cut,      \* the client has gone
  done      \* the response has come to its last chunk

vars == <<offered, pos, wire, cut, done>>

Init == offered = 0 /\ pos = 0 /\ wire = <<>> /\ cut = FALSE /\ done = FALSE

Offer ==
  /\ ~done /\ offered < MaxChunks
  /\ offered' = offered + 1
  /\ UNCHANGED <<pos, wire, cut, done>>

\* The next chunk is written, or left out because it is empty or the client
\* has gone.  The stream may come to its end with it.
Deliver ==
  /\ ~done /\ pos < offered
  /\ pos' = pos + 1
  /\ wire' = IF cut \/ pos + 1 \in EmptyChunks
             THEN wire ELSE Append(wire, pos + 1)
  /\ done' \in BOOLEAN
  /\ done' => offered - pos' <= Capacity
  /\ UNCHANGED <<offered, cut>>

Finish ==
  /\ ~done /\ done' = TRUE
  /\ offered - pos <= Capacity
  /\ UNCHANGED <<offered, pos, wire, cut>>

Cut == cut' = TRUE /\ UNCHANGED <<offered, pos, wire, done>>

Next == Offer \/ Deliver \/ Finish \/ Cut

Spec == Init /\ [][Next]_vars
=============================================================================
