--------------------------- MODULE MCRateLimiter ---------------------------
(***************************************************************************)
(* RateLimiter with three clients and a map that is crowded with two, so   *)
(* that a third client's first request throws stale entries out.  A token  *)
(* takes three ticks, a bucket holds two.                                  *)
(***************************************************************************)
EXTENDS RateLimiter, TLC

Symmetry == Permutations(Clients)
=============================================================================
