--------------------------- MODULE MC_FeedMerger ---------------------------
(***************************************************************************)
(* FeedMerger for TLC.                                                     *)
(***************************************************************************)
EXTENDS FeedMerger

BothFeeds == {"primary", "secondary"}
=============================================================================
