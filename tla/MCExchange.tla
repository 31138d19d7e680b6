------------------------------ MODULE MCExchange ------------------------------
(***************************************************************************)
(* A server's channel of two messages, a client's of one, and six chunks,  *)
(* the second and the fifth of them empty.  The producer can fill its      *)
(* channel, block, and have messages handed over directly; a chunk can be  *)
(* empty behind a full buffer and in front of the close; and chunks that   *)
(* one read of the client finds are joined.  Of the four that reach the    *)
(* wire the second and the fourth end an event.                            *)
(***************************************************************************)
EXTENDS Exchange

MCEmptyChunks == {2, 5}
MCWhole == {2, 4}
=============================================================================
