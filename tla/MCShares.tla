------------------------------ MODULE MCShares ------------------------------
(***************************************************************************)
(* Shares on small instances: a short lifetime and the longest there is,   *)
(* which reaches beyond the room's unless the share is made at once.  A    *)
(* second has two ticks.                                                   *)
(***************************************************************************)
EXTENDS Shares, TLC

MCTtls == {0, 2}

Symmetry == Permutations(Creators) \union Permutations(ShareIds)
=============================================================================
