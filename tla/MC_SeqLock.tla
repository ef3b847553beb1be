----------------------------- MODULE MC_SeqLock -----------------------------
(***************************************************************************)
(* SeqLock for TLC.  Two words are the least that can tear; SeqMod 6 lets  *)
(* seq_ wrap to 0 with the third store.                                    *)
(***************************************************************************)
EXTENDS SeqLock
=============================================================================
