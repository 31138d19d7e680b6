----------------------------- MODULE MCSession -----------------------------
(***************************************************************************)
(* The server with two connections: on one the client sends three          *)
(* pipelined requests, on the other it connects and says nothing.          *)
(***************************************************************************)
EXTENDS Session, TLC

CONSTANTS c1, c2

MCConn == {c1, c2}
MCMaxRequests == c1 :> 3 @@ c2 :> 0
=============================================================================
