-------------------------- MODULE MCRoomLifecycle --------------------------
(***************************************************************************)
(* RoomLifecycle on small instances: a second of two ticks, lifetimes that *)
(* end before, during and after a countdown.                               *)
(***************************************************************************)
EXTENDS RoomLifecycle

MCTtls == {2, 6}
MCOneTtl == {4}
=============================================================================
