------------------------ MODULE MC_PersistentSequence ------------------------
(* PersistentSequence on small instances. *)
EXTENDS PersistentSequence

FirstPacket == {1}
==============================================================================
