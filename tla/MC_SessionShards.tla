------------------------- MODULE MC_SessionShards -------------------------
(***************************************************************************)
(* SessionShards for TLC: two shards.  Locate codes 2 and 3 share a slab   *)
(* index in different shards.                                              *)
(***************************************************************************)
EXTENDS SessionShards

TwoLocates == {2, 3}
OneLocate == {2}
StartOpenClose == {"S", "O", "Q"}
=============================================================================
