----------------------------- MODULE MCClientBody -----------------------------
(***************************************************************************)
(* Three pieces: the connection can end, and close() be called, before,    *)
(* within and after what has come.                                         *)
(***************************************************************************)
EXTENDS ClientBody

MCMaxPieces == 3
=============================================================================
