--------------------------- MODULE MCClientStream ---------------------------
(***************************************************************************)
(* A channel of two messages and up to six units, of which all but one end *)
(* an event: enough for a read to overfill the channel with the consumer   *)
(* waiting, and for an event to follow one that was dropped.               *)
(***************************************************************************)
EXTENDS ClientStream

MCWhole == {1, 2, 3, 4, 6}
MCNoMsg == <<>>
=============================================================================
