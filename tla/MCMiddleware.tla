----------------------------- MODULE MCMiddleware -----------------------------
(***************************************************************************)
(* Two requests at a time, two middlewares and three services of the same  *)
(* builder: enough for the requests to meet the layers of a first and of a *)
(* later build, with a middleware added between them.                      *)
(***************************************************************************)
EXTENDS Middleware, TLC

CONSTANTS r1, r2
MCRequests == {r1, r2}
MCSymmetry == Permutations(MCRequests)
=============================================================================
