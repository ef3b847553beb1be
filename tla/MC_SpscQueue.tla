---------------------------- MODULE MC_SpscQueue ----------------------------
(***************************************************************************)
(* SpscQueue for TLC.  Capacity 2 and five pushes make the ring wrap twice *)
(* and let both sides find it full and empty through stale positions.  The *)
(* items are not a symmetry set, as the run checks liveness.               *)
(***************************************************************************)
EXTENDS SpscQueue
=============================================================================
