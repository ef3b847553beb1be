-------------------------- MODULE MC_GapRecovery --------------------------
(***************************************************************************)
(* GapRecovery for TLC.                                                    *)
(***************************************************************************)
EXTENDS GapRecovery

\* Every packet may be lost, and late.
AllPackets == 1 .. MaxPackets
=============================================================================
