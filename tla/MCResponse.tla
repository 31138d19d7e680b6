------------------------------ MODULE MCResponse ------------------------------
(***************************************************************************)
(* Four calls: each of version, keep_alive, status and one set can come    *)
(* before and after each other one.                                        *)
(***************************************************************************)
EXTENDS Response

MCMaxCalls == 4
=============================================================================
