---------------------- MODULE PersistentSequenceProofs ----------------------
(***************************************************************************)
(* FileWhole for every number of sessions, packets, starts and faults, and *)
(* every depth of the queue.                                               *)
(*                                                                         *)
(* FileWhole is not inductive: what a rename puts in the file is whatever  *)
(* the temporary file holds, and what is written there is whatever record  *)
(* came out of the queue.  The invariant follows a record on that way.     *)
(***************************************************************************)
EXTENDS PersistentSequence, SequenceTheorems, TLAPS

\* Only records of handled packets are in the queue.
QueueHandled == queue \in Seq(handled)

\* A record being saved is that of a handled packet, and from the write to the
\* rename the temporary file holds it.
SaveHandled ==
  /\ wpc \in {"open", "write", "rename"} => rec \in handled
  /\ wpc = "rename" => tmp = rec

WholeInv == QueueHandled /\ SaveHandled /\ FileWhole

\* A queue of handled packets stays one when more packets are handled.
LEMMA SeqGrows ==
  ASSUME NEW S, NEW T, S \subseteq T, NEW q \in Seq(S)
  PROVE  q \in Seq(T)
<1>1. q \in [1 .. Len(q) -> T]
  OBVIOUS
<1>2. Len(q) \in Nat
  OBVIOUS
<1> QED BY <1>1, <1>2

\* Initially nothing is queued, saved or in the file.
LEMMA InitWhole == Init => WholeInv
<1> SUFFICES ASSUME Init PROVE WholeInv
  OBVIOUS
<1>1. QueueHandled
  BY DEF Init, QueueHandled
<1>2. SaveHandled /\ FileWhole
  BY DEF Init, SaveHandled, FileWhole, None
<1> QED BY <1>1, <1>2 DEF WholeInv

\* The record of the packet that process_slot handles may enter the queue; the
\* writer and the file are left alone.
LEMMA HandlingKeepsWhole ==
  ASSUME NEW n \in 1 .. MaxSeq, WholeInv, process_slot(n)
  PROVE  WholeInv'
<1>1. handled \subseteq handled' /\ <<xsess, n>> \in handled'
  BY DEF process_slot
<1>2. queue \in Seq(handled')
  BY <1>1, SeqGrows DEF WholeInv, QueueHandled
<1>3. queue' = queue \/ queue' = Append(queue, <<xsess, n>>)
  BY DEF process_slot, enqueue
<1>4. Append(queue, <<xsess, n>>) \in Seq(handled')
  BY <1>1, <1>2
<1>5. QueueHandled'
  BY <1>2, <1>3, <1>4, Zenon DEF QueueHandled
<1>6. SaveHandled'
  BY <1>1 DEF WholeInv, SaveHandled, process_slot
<1>7. FileWhole'
  BY <1>1 DEF WholeInv, FileWhole, process_slot
<1> QED BY <1>5, <1>6, <1>7 DEF WholeInv

\* A record that leaves the queue is that of a handled packet.
LEMMA HeadHandled ==
  ASSUME QueueHandled, queue # <<>>
  PROVE  Head(queue) \in handled /\ Tail(queue) \in Seq(handled)
BY DEF QueueHandled

\* The steps of the thread that saves.
LEMMA WriterKeepsWhole ==
  ASSUME WholeInv, Writer
  PROVE  WholeInv'
<1> USE DEF WholeInv, SaveHandled, FileWhole, QueueHandled
<1>1. CASE LoopTest
  BY <1>1 DEF LoopTest, parserVars
<1>2. CASE TryPop
  BY <1>2, HeadHandled DEF TryPop, parserVars
<1>3. CASE StopFlush
  BY <1>3, HeadHandled DEF StopFlush, parserVars
<1>4. CASE save_sync_open
  BY <1>4 DEF save_sync_open, SaveReturns, parserVars
<1>5. CASE save_sync_write
  BY <1>5 DEF save_sync_write, SaveReturns, parserVars
<1>6. CASE save_sync_rename
  BY <1>6 DEF save_sync_rename, SaveReturns, parserVars
<1> QED BY <1>1, <1>2, <1>3, <1>4, <1>5, <1>6 DEF Writer

\* Every step.
LEMMA NextWhole == WholeInv /\ [Next]_vars => WholeInv'
<1> SUFFICES ASSUME WholeInv, [Next]_vars PROVE WholeInv'
  OBVIOUS
<1> USE DEF WholeInv, SaveHandled, FileWhole, QueueHandled
<1>1. CASE NewSession
  BY <1>1 DEF NewSession, parserVars
<1>2. CASE SendUnheard
  BY <1>2 DEF SendUnheard, parserVars
<1>3. CASE Commit
  BY <1>3 DEF Commit, parserVars
<1>4. CASE Writer
  BY <1>4, WriterKeepsWhole
<1>5. CASE \E n \in 1 .. MaxSeq : process_slot(n)
  BY <1>5, HandlingKeepsWhole
<1>6. CASE init
  BY <1>6 DEF init
<1>7. CASE stop
  BY <1>7 DEF stop, parserVars
<1>8. CASE Crash
  BY <1>8 DEF Crash, parserVars
<1>9. CASE UNCHANGED vars
  BY <1>9 DEF vars, parserVars
<1> QED BY <1>1, <1>2, <1>3, <1>4, <1>5, <1>6, <1>7, <1>8, <1>9 DEF Next

\* The file is absent or holds one whole record of a packet that was handled,
\* after any crashes, failed writes and restarts (persistent_sequence.cpp:48-78).
THEOREM FileStaysWhole == Spec => []FileWhole
<1>1. WholeInv => FileWhole
  BY DEF WholeInv
<1> QED BY <1>1, InitWhole, NextWhole, PTL DEF Spec
=============================================================================
