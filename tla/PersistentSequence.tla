------------------------- MODULE PersistentSequence -------------------------
(***************************************************************************)
(* The durable sequence number: the parser's enqueue, the background       *)
(* writer, stop, crash, and the warm start that reads the file back        *)
(* (src/recovery/persistent_sequence.cpp, src/app/feed_handler.cpp).       *)
(*                                                                         *)
(* A record is a session and a sequence number.  A file that is being      *)
(* written is Partial until it is synced.  A rename is atomic, but a crash *)
(* may undo it until the file system commits it.                           *)
(***************************************************************************)
EXTENDS Integers, Sequences

CONSTANTS
  MaxSessions,  \* bound: the sessions, numbered from 1
  MaxSeq,       \* bound: the packets of a session
  Events,       \* the packets of a session that hold a system event
  Configured,   \* the session the configuration names, 0 for AUTO_DETECT
  QueueDepth,   \* the slots of the queue, 2 in the code
  MaxStarts,    \* bound: the times the process starts
  MaxFaults     \* bound: the crashes and failed writes

ASSUME PersistBounds ==
  /\ MaxSessions \in Nat \ {0} /\ MaxSeq \in Nat
  /\ Events \subseteq 1 .. MaxSeq /\ Configured \in 0 .. MaxSessions
  /\ QueueDepth \in Nat \ {0} /\ MaxStarts \in Nat /\ MaxFaults \in Nat

VARIABLES
  xsess,     \* the exchange's session
  xnum,      \* the number of its last packet
  tseq,      \* SequenceTracker's seq_
  session,   \* SessionManager's session_, 0 when it is empty
  phase,     \* what the process is doing
  starts,    \* how often it was started
  queue,     \* queue_
  wpc,       \* where the thread that saves is: the writer, or stop after it
  rec,       \* the record it is saving
  tmp,       \* the contents of <path>.tmp
  file,      \* the contents of <path>
  durable,   \* what <path> may hold after a crash
  faults,    \* the crashes and failed writes so far
  handled,   \* the packets the parser has handled, in any run (history)
  rewound    \* a system event reset the tracker after other packets of its
             \* session had been handled (history)

exchangeVars == <<xsess, xnum>>
parserVars == <<tseq, session, handled, rewound>>
processVars == <<phase, starts>>
vars == <<exchangeVars, parserVars, processVars, queue, wpc, rec, tmp, file,
          durable, faults>>

Records == (1 .. MaxSessions) \X (1 .. MaxSeq)
None == <<0, 0>>
Partial == <<0, 1>>
Contents == Records \cup {None, Partial}

\* The state of the process and the disk; the queue never holds more than it has
\* slots.
TypeOK ==
  /\ xsess \in 1 .. MaxSessions /\ xnum \in 0 .. MaxSeq
  /\ tseq \in 0 .. MaxSeq /\ session \in 0 .. MaxSessions
  /\ phase \in {"running", "stopping", "flushing", "stopped", "crashed"}
  /\ starts \in 0 .. MaxStarts /\ faults \in 0 .. MaxFaults
  /\ queue \in Seq(Records) /\ Len(queue) <= QueueDepth
  /\ wpc \in {"check", "pop", "drain", "open", "write", "rename", "exited"}
  /\ rec \in Records \cup {None}
  /\ {tmp, file} \cup durable \subseteq Contents
  /\ handled \subseteq Records /\ rewound \in BOOLEAN

Init ==
  /\ xsess = 1 /\ xnum = 0 /\ tseq = 0 /\ session = Configured
  /\ phase = "stopped" /\ starts = 0 /\ faults = 0
  /\ queue = <<>> /\ wpc = "exited" /\ rec = None
  /\ tmp = None /\ file = None /\ durable = {None}
  /\ handled = {} /\ rewound = FALSE

Up == phase \notin {"stopped", "crashed"}

-----------------------------------------------------------------------------
(* The exchange.  What it sends while the process is down is not received. *)

NewSession ==
  /\ xsess < MaxSessions /\ xnum > 0
  /\ xsess' = xsess + 1 /\ xnum' = 0
  /\ UNCHANGED <<parserVars, processVars, queue, wpc, rec, tmp, file, durable, faults>>

SendUnheard ==
  /\ phase # "running" /\ xnum < MaxSeq
  /\ xnum' = xnum + 1
  /\ UNCHANGED <<xsess, parserVars, processVars, queue, wpc, rec, tmp, file,
                 durable, faults>>

-----------------------------------------------------------------------------
(* The parser. *)

\* A bug the properties must catch: a packet that is not in order is enqueued.
enqueue_any(r) ==
  IF Len(queue) < QueueDepth
  THEN queue' = Append(queue, r)
  ELSE UNCHANGED queue

\* What process_slot does with a packet that is in order: the record enters
\* the queue, and is dropped when the queue is full.
enqueue(r) ==
  IF r[2] = tseq + 1 /\ Len(queue) < QueueDepth
  THEN queue' = Append(queue, r)
  ELSE UNCHANGED queue

\* The number the tracker holds after packet n; a system event of a session
\* the manager does not know resets it.
TrackerAfter(n) ==
  IF n \in Events /\ session # xsess THEN 0
  ELSE IF n > tseq THEN n ELSE tseq

\* A packet is handled: the next one, or one that is sent again.
process_slot(n) ==
  /\ phase = "running"
  /\ n <= xnum + 1
  /\ xnum' = IF n > xnum THEN n ELSE xnum
  /\ enqueue(<<xsess, n>>)
  /\ handled' = handled \cup {<<xsess, n>>}
  /\ rewound' = \/ rewound
                \/ /\ n \in Events /\ session # xsess
                   /\ \E q \in 1 .. MaxSeq : <<xsess, q>> \in handled
  /\ tseq' = TrackerAfter(n)
  /\ session' = IF n \in Events THEN xsess ELSE session
  /\ UNCHANGED <<xsess, processVars, wpc, rec, tmp, file, durable, faults>>

-----------------------------------------------------------------------------
(* The writer thread. *)

\* The condition of run's loop.
LoopTest ==
  /\ wpc = "check"
  /\ wpc' = IF phase = "running" THEN "pop" ELSE "exited"
  /\ UNCHANGED <<exchangeVars, parserVars, processVars, queue, rec, tmp, file,
                 durable, faults>>

\* A bug the properties must catch: the inner loop drops what it drains.
TryPopDrops ==
  /\ wpc \in {"pop", "drain"}
  /\ IF queue = <<>>
     THEN wpc' = "check" /\ UNCHANGED <<queue, rec>>
     ELSE /\ wpc' = IF wpc = "pop" THEN "open" ELSE "drain"
          /\ rec' = Head(queue) /\ queue' = Tail(queue)
  /\ UNCHANGED <<exchangeVars, parserVars, processVars, tmp, file, durable, faults>>

\* try_pop in the outer and in the inner loop.  When the queue is empty the
\* outer loop sleeps and the inner one ends: both return to the loop's test.
TryPop ==
  /\ wpc \in {"pop", "drain"}
  /\ IF queue = <<>>
     THEN wpc' = "check" /\ UNCHANGED <<queue, rec>>
     ELSE wpc' = "open" /\ rec' = Head(queue) /\ queue' = Tail(queue)
  /\ UNCHANGED <<exchangeVars, parserVars, processVars, tmp, file, durable, faults>>

\* save_sync returns to the writer's inner loop, or to the end of stop.
SaveReturns ==
  IF phase = "flushing"
  THEN wpc' = "exited" /\ phase' = "stopped" /\ UNCHANGED starts
  ELSE wpc' = "drain" /\ UNCHANGED processVars

\* save_sync opens, and so truncates, the temporary file, or fails to.
save_sync_open ==
  /\ wpc = "open"
  /\ \/ tmp' = Partial /\ wpc' = "write" /\ UNCHANGED <<processVars, faults>>
     \/ /\ faults < MaxFaults /\ faults' = faults + 1
        /\ SaveReturns /\ UNCHANGED tmp
  /\ UNCHANGED <<exchangeVars, parserVars, queue, rec, file, durable>>

\* A bug the properties must catch: the result of write is not looked at.
save_sync_write_unchecked ==
  /\ wpc = "write"
  /\ \/ tmp' = rec /\ UNCHANGED faults
     \/ faults < MaxFaults /\ faults' = faults + 1 /\ UNCHANGED tmp
  /\ wpc' = "rename"
  /\ UNCHANGED <<exchangeVars, parserVars, processVars, queue, rec, file, durable>>

\* It writes and syncs the record; after a short write it returns.
save_sync_write ==
  /\ wpc = "write"
  /\ \/ tmp' = rec /\ wpc' = "rename" /\ UNCHANGED <<processVars, faults>>
     \/ /\ faults < MaxFaults /\ faults' = faults + 1
        /\ SaveReturns /\ UNCHANGED tmp
  /\ UNCHANGED <<exchangeVars, parserVars, queue, rec, file, durable>>

\* It renames the temporary file, or fails to, and returns.
save_sync_rename ==
  /\ wpc = "rename"
  /\ \/ file' = tmp /\ durable' = durable \cup {tmp} /\ tmp' = None /\ UNCHANGED faults
     \/ /\ faults < MaxFaults /\ faults' = faults + 1
        /\ UNCHANGED <<tmp, file, durable>>
  /\ SaveReturns
  /\ UNCHANGED <<exchangeVars, parserVars, queue, rec>>

\* The file system writes the rename to the disk.
Commit ==
  /\ durable # {file}
  /\ durable' = {file}
  /\ UNCHANGED <<exchangeVars, parserVars, processVars, queue, wpc, rec, tmp,
                 file, faults>>

-----------------------------------------------------------------------------
(* The process. *)

\* The warm start: load, seed the tracker, start the workers.  A file that is
\* missing or has no whole record is a cold start.
init ==
  /\ ~ Up /\ starts < MaxStarts
  /\ starts' = starts + 1 /\ phase' = "running"
  /\ tseq' = IF file = Partial THEN 0 ELSE file[2]
  /\ session' = Configured
  /\ queue' = <<>> /\ wpc' = "check"
  /\ rec' = None
  /\ UNCHANGED <<exchangeVars, handled, rewound, tmp, file, durable, faults>>

\* stop_workers has stopped the parser; stop clears running_.
stop ==
  /\ phase = "running"
  /\ phase' = "stopping"
  /\ UNCHANGED <<exchangeVars, parserVars, starts, queue, wpc, rec, tmp, file,
                 durable, faults>>

\* After the join, stop pops at most one record and saves it.
StopFlush ==
  /\ phase = "stopping" /\ wpc = "exited"
  /\ IF queue = <<>>
     THEN phase' = "stopped" /\ UNCHANGED <<queue, wpc, rec>>
     ELSE /\ phase' = "flushing" /\ wpc' = "open"
          /\ rec' = Head(queue) /\ queue' = Tail(queue)
  /\ UNCHANGED <<exchangeVars, parserVars, starts, tmp, file, durable, faults>>

\* The process or the machine stops at any point.
Crash ==
  /\ Up /\ faults < MaxFaults
  /\ faults' = faults + 1 /\ phase' = "crashed" /\ wpc' = "exited"
  /\ file' \in durable /\ durable' = {file'}
  /\ UNCHANGED <<exchangeVars, parserVars, starts, queue, rec, tmp>>

Writer ==
  \/ LoopTest \/ TryPop \/ StopFlush
  \/ save_sync_open \/ save_sync_write \/ save_sync_rename

Next ==
  \/ NewSession \/ SendUnheard \/ Commit \/ Writer
  \/ \E n \in 1 .. MaxSeq : process_slot(n)
  \/ init \/ stop \/ Crash

Spec == Init /\ [][Next]_vars

\* The operating system schedules the thread that saves.
FairSpec == Spec /\ WF_vars(Writer)

-----------------------------------------------------------------------------
(* Properties. *)

\* Record a is older than record b.
Older(a, b) == a[1] < b[1] \/ (a[1] = b[1] /\ a[2] < b[2])

\* Whatever crashes, failed writes and restarts happened, the file is absent or
\* holds one whole record, of a packet the parser really handled: save_sync
\* replaces it only by a rename of a file it wrote and synced to the end
\* (persistent_sequence.cpp:48-78).
FileWhole == {file} \cup durable \subseteq handled \cup {None}

\* The on-disk record only advances: until a system event resets the tracker in
\* the middle of its session, no step but a crash of the machine puts an older
\* record in the file, restarts and retransmitted packets included
\* (persistent_sequence.hpp:29-30, parser_thread.cpp:62-65).
FileAdvances == [][phase' # "crashed" /\ ~ rewound => ~ Older(file', file)]_vars

\* While the process runs and no write fails, each record that entered the queue
\* reaches the file, or a newer one does: the writer drains what enqueue put
\* there (persistent_sequence.cpp:103-120).
EnqueuedIsSaved ==
  \A r \in Records :
    (\E i \in 1 .. Len(queue) : queue[i] = r) ~>
      (phase # "running" \/ faults > 0 \/ ~ Older(file, r))
=============================================================================
