---------------------------- MODULE MCClientSend ----------------------------
(***************************************************************************)
(* Calls of send with max_redirects 0, 1 and 3, and servers that answer,   *)
(* redirect, fail and stay silent as they like.                            *)
(***************************************************************************)
EXTENDS ClientSend

MCLimits == {0, 1, 3}
=============================================================================
