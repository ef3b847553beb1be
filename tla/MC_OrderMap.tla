---------------------------- MODULE MC_OrderMap ----------------------------
(***************************************************************************)
(* OrderMap for TLC: the keys are interchangeable because every hash is an *)
(* initial state.                                                          *)
(***************************************************************************)
EXTENDS OrderMap, TLC

KeySymmetry == Permutations(Keys)
=============================================================================
