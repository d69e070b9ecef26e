------------------------------ MODULE MCUpload ------------------------------
(***************************************************************************)
(* Upload on small instances.  Sizes are in units of the initial chunk;    *)
(* the growth chunk is larger than it, and the limits are such that two    *)
(* files together do not fit.                                              *)
(***************************************************************************)
EXTENDS Upload

MCDeclaredSizes == {0, 1}
=============================================================================
