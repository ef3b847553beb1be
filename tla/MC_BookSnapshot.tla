-------------------------- MODULE MC_BookSnapshot --------------------------
(***************************************************************************)
(* BookSnapshot for TLC.                                                   *)
(***************************************************************************)
EXTENDS BookSnapshot
=============================================================================
