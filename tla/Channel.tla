------------------------------ MODULE Channel ------------------------------
(***************************************************************************)
(* boost::asio::experimental::channel<void(error_code, T)> as this library *)
(* uses it: the bounded hand-over between a producer coroutine and the one *)
(* coroutine that receives.  server/response.hpp:80 and the examples name  *)
(* the type; the library itself is Boost's, so every operator here is      *)
(* external.                                                               *)
(*                                                                         *)
(* There is one sender and one receiver on each channel of the repository, *)
(* so at most one async_send and one async_receive is outstanding.  An     *)
(* operator is the effect of one call; the coroutine that made the call    *)
(* is resumed by a later action of the module that uses the channel.       *)
(***************************************************************************)
EXTENDS Naturals, Sequences

CONSTANTS
  Capacity,   \* buffer size: service.hpp:47 and the examples pass 10
  NoMsg       \* the value-initialised T that comes with an error code

ASSUME CapacityAssumption == Capacity \in Nat \ {0}

VARIABLES
  buf,      \* the messages in the buffer, oldest first
  open,     \* is_open(): no close() yet
  blocked,  \* the payload of an async_send that waits for room: <<>> or <<m>>
  rcv,      \* the outstanding async_receive and how it completed
  slot      \* the message a completed async_receive carries

chanVars == <<buf, open, blocked, rcv, slot>>

RcvStates == {"idle", "waiting", "got", "cancelled", "closed"}

ChanInit ==
  /\ buf = <<>> /\ open = TRUE /\ blocked = <<>>
  /\ rcv = "idle" /\ slot = NoMsg

ChanTypeOK(Msg) ==
  /\ buf \in Seq(Msg) /\ Len(buf) <= Capacity
  /\ open \in BOOLEAN
  /\ blocked \in Seq(Msg) /\ Len(blocked) <= 1
  /\ rcv \in RcvStates
  /\ slot \in Msg \cup {NoMsg}

-----------------------------------------------------------------------------
(* Sending on an open channel: to the waiting receiver, into the buffer,   *)
(* or not yet.                                                             *)

HandOver(m) ==
  /\ rcv = "waiting"
  /\ rcv' = "got" /\ slot' = m
  /\ UNCHANGED <<buf, open, blocked>>

\* Mutant of HasRoom: the buffer admits one message too many.
HasRoomOffByOne == Len(buf) <= Capacity
HasRoom == Len(buf) < Capacity

Enqueue(m) ==
  /\ rcv # "waiting" /\ HasRoom
  /\ buf' = Append(buf, m)
  /\ UNCHANGED <<open, blocked, rcv, slot>>

SendAtOnce(m) == HandOver(m) \/ Enqueue(m)

SendBlocks(m) ==
  /\ rcv # "waiting" /\ ~HasRoom
  /\ blocked' = <<m>>
  /\ UNCHANGED <<buf, open, rcv, slot>>

-----------------------------------------------------------------------------
(* async_receive: the oldest buffered message, whose place a blocked send  *)
(* takes; nothing yet; or, once closed and drained, the error.             *)

\* Mutant of Refill: the freed place is not given to the blocked send.
RefillNothing == buf' = Tail(buf) /\ UNCHANGED blocked
Refill == buf' = Tail(buf) \o blocked /\ blocked' = <<>>

StartReceive ==
  /\ UNCHANGED open
  /\ \/ buf # <<>> /\ rcv' = "got" /\ slot' = Head(buf) /\ Refill
     \/ /\ buf = <<>>
        /\ rcv' = IF open THEN "waiting" ELSE "closed"
        /\ slot' = NoMsg
        /\ UNCHANGED <<buf, blocked>>

\* The receiver resumed and took the result.
EndReceive == rcv' = "idle" /\ slot' = NoMsg

-----------------------------------------------------------------------------
(* cancel() completes whatever waits; close() ends the sending side and    *)
(* keeps what is buffered.  The completion handlers call them in this      *)
(* order (service.hpp:108-111, examples/client/sse.cpp:51-55).             *)

\* Mutant of CancelAndClose: only the sending side learns of it.
CloseForgetsReceiver ==
  /\ open' = FALSE /\ blocked' = <<>>
  /\ UNCHANGED <<buf, rcv, slot>>

CancelAndClose ==
  /\ open' = FALSE
  /\ rcv' = IF rcv = "waiting" THEN "cancelled" ELSE rcv
  /\ blocked' = <<>>
  /\ UNCHANGED <<buf, slot>>

\* close() without cancel() (examples/client/chunked.cpp:52-55): a receive
\* that waits is told that the channel is closed.
CloseAlone ==
  /\ open' = FALSE
  /\ rcv' = IF rcv = "waiting" THEN "closed" ELSE rcv
  /\ UNCHANGED <<buf, blocked, slot>>
=============================================================================
