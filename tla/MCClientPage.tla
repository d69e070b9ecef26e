---------------------------- MODULE MCClientPage ----------------------------
(***************************************************************************)
(* ClientPage with two chains of polls, the first one and one more by an   *)
(* upload, a return to the tab or the PIN form, and two files.             *)
(***************************************************************************)
EXTENDS ClientPage
=============================================================================
