---------------------------- MODULE MCPinLockout ----------------------------
(***************************************************************************)
(* PinLockout with two overlapping requests, a threshold of two and two    *)
(* cooldowns, the second of which repeats.  A second has two ticks.        *)
(***************************************************************************)
EXTENDS PinLockout, TLC

MCCooldowns == <<2, 3>>

Symmetry == Permutations(Requests)
=============================================================================
