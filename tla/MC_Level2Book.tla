--------------------------- MODULE MC_Level2Book ---------------------------
(***************************************************************************)
(* Level2Book for TLC.                                                     *)
(***************************************************************************)
EXTENDS Level2Book, TLC

RefSymmetry == Permutations(Refs)

\* The contents of a free slot are never read: alloc and the handlers that
\* call it overwrite them all.  States that differ only there are the same.
LiveView ==
  <<sides,
    [i \in PoolIdx \ Free |-> orders[i]], freelist, map, msgs, lossless, fresh>>
=============================================================================
