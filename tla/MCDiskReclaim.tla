--------------------------- MODULE MCDiskReclaim ---------------------------
(***************************************************************************)
(* DiskReclaim on small instances: times in units of half the idle         *)
(* timeout of the code's defaults.  Symmetry is not used: the liveness     *)
(* property of the main run would not survive it.                          *)
(***************************************************************************)
EXTENDS DiskReclaim
=============================================================================
