---------------------------- MODULE MC_LifeCycle ----------------------------
(***************************************************************************)
(* LifeCycle for TLC.                                                      *)
(***************************************************************************)
EXTENDS LifeCycle
=============================================================================
