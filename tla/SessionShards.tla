--------------------------- MODULE SessionShards ---------------------------
(***************************************************************************)
(* The parser thread's routing, the session manager and the shard workers  *)
(* (src/workers/parser_thread.cpp:87-116, src/session/session_manager.cpp, *)
(* src/routing/shard_router.cpp, src/workers/shard_worker.cpp).            *)
(*                                                                         *)
(* The exchange's packets carry one message each and none is lost here.    *)
(* Sessions and their packets are numbered from 1; session 0 is the empty  *)
(* name of AUTO_DETECT.  The first message of a session is a system event. *)
(* A book is modelled by the tags of the orders that entered it since it   *)
(* was cleared: the locate code of the message and its session.            *)
(* Level2Book is what a book does with them.  The shard queues are the     *)
(* bounded FIFOs that SpscQueue is shown to implement.                     *)
(***************************************************************************)
EXTENDS Integers, Sequences, FiniteSets

CONSTANTS
  NumShards,    \* NUM_SHARDS
  Locates,      \* the locate codes in use
  Watched,      \* the locate codes whose tickers are in watched_symbols
  Codes,        \* the event codes the exchange sends
  MaxSessions,  \* bound: the sessions
  MaxPackets,   \* bound: the packets of all sessions together
  QueueDepth    \* SHARD_QUEUE_DEPTH

Shards == 0 .. NumShards - 1

ASSUME ShardsAssumption == NumShards \in Nat \ {0} /\ Locates \subseteq Nat \ {0}
ASSUME WatchedAssumption == Watched \subseteq Locates
ASSUME CodesAssumption == Codes \subseteq {"S", "O", "C", "Q", "M", "E"}
ASSUME SessionBounds ==
  MaxSessions \in Nat /\ MaxPackets \in Nat /\ QueueDepth \in Nat \ {0}

shard_for_locate(loc) == loc % NumShards
SlabIndex(loc) == loc \div NumShards
Slabs == {SlabIndex(loc) : loc \in Locates}

VARIABLES
  xsess,    \* the exchange's session
  num,      \* the number of its last packet
  packets,  \* the packets so far, of all sessions
  tseq,     \* SequenceTracker's seq_
  gaps,     \* the gaps it has reported: the session and the packet that showed it
  session,  \* session_
  state,    \* state_
  watched,  \* watched_bits_
  ppc,      \* where the parser is in on_system_event
  event,    \* the event code it is handling
  left,     \* the shards the reset sentinel still has to be sent to
  missed,   \* the shards whose full queue dropped a sentinel (history)
  archives, \* the end-of-day archivals so far: the session and the event code
  queue,    \* per shard: its queue
  active,   \* per shard: book_active_
  books,    \* per shard and slab: the tags of the orders in the book
  status,   \* per shard and slab: the session of the trading action that set
            \* status_, 0 when clear did
  bbo       \* per locate code: the session of the published BBO, 0 when reset

exchangeVars == <<xsess, num, packets>>
sessionVars == <<session, state, watched, archives>>
parserVars == <<tseq, gaps, ppc, event, left, missed>>
shardVars == <<active, books, status>>
vars == <<exchangeVars, sessionVars, parserVars, shardVars, queue, bbo>>

States == {"Unknown", "PreOpen", "Open", "Closed"}
SessionIds == 0 .. MaxSessions
Tags == [loc : Locates, sess : SessionIds]
Messages ==
  [type : {"reset", "event"}]
  \cup [type : {"directory"}, loc : Locates]
  \cup [type : {"action", "add", "other"}, loc : Locates, sess : SessionIds]

\* The state of the threads; no shard queue ever holds more than it has slots.
TypeOK ==
  /\ xsess \in SessionIds /\ session \in SessionIds
  /\ num \in 0 .. MaxPackets /\ packets \in 0 .. MaxPackets
  /\ tseq \in 0 .. MaxPackets
  /\ gaps \subseteq SessionIds \X (0 .. MaxPackets)
  /\ state \in States
  /\ watched \subseteq Watched
  /\ ppc \in {"ready", "broadcast", "unknown", "event"}
  /\ event \in Codes \cup {"none"}
  /\ left \subseteq Shards /\ missed \subseteq Shards
  /\ archives \subseteq SessionIds \X Codes
  /\ queue \in [Shards -> Seq(Messages)]
  /\ \A s \in Shards : Len(queue[s]) <= QueueDepth
  /\ active \in [Shards -> SUBSET Slabs]
  /\ books \in [Shards -> [Slabs -> SUBSET Tags]]
  /\ status \in [Shards -> [Slabs -> SessionIds]]
  /\ bbo \in [Locates -> SessionIds]

Init ==
  /\ xsess = 0 /\ num = 0 /\ packets = 0
  /\ tseq = 0 /\ gaps = {}
  /\ session = 0 /\ state = "Unknown" /\ watched = {} /\ archives = {}
  /\ ppc = "ready" /\ event = "none" /\ left = {} /\ missed = {}
  /\ queue = [s \in Shards |-> <<>>]
  /\ active = [s \in Shards |-> {}]
  /\ books = [s \in Shards |-> [i \in Slabs |-> {}]]
  /\ status = [s \in Shards |-> [i \in Slabs |-> 0]]
  /\ bbo = [loc \in Locates |-> 0]

-----------------------------------------------------------------------------
(* The router. *)

\* A message that finds its queue full is dropped.
Pushed(q, m) == IF Len(q) < QueueDepth THEN Append(q, m) ELSE q

broadcast(m) == queue' = [s \in Shards |-> Pushed(queue[s], m)]

\* Administrative messages go to every shard, the others to the shard of
\* their locate code.
route(m) ==
  IF m.type \in {"directory", "action"}
  THEN broadcast(m)
  ELSE queue' = [queue EXCEPT ![shard_for_locate(m.loc)] = Pushed(@, m)]

-----------------------------------------------------------------------------
(* The parser thread. *)

\* A bug the properties must catch: the tracker does not jump over a gap.
NextPacketStuck(s, n) ==
  /\ ppc = "ready" /\ packets < MaxPackets
  /\ packets' = packets + 1 /\ xsess' = s /\ num' = n
  /\ tseq' = IF n = tseq + 1 THEN n ELSE tseq
  /\ gaps' = IF n > tseq + 1 THEN gaps \cup {<<s, n>>} ELSE gaps

\* The next packet of session s, which the exchange numbers n, and what the
\* tracker makes of it.  Only try_advance's effect on seq_ and the gaps it
\* reports matter here; GapRecovery has the rest.
NextPacket(s, n) ==
  /\ ppc = "ready" /\ packets < MaxPackets
  /\ packets' = packets + 1 /\ xsess' = s /\ num' = n
  /\ tseq' = IF n > tseq THEN n ELSE tseq
  /\ gaps' = IF n > tseq + 1 THEN gaps \cup {<<s, n>>} ELSE gaps

\* A directory, trading action or order message.
ParseMessage(m) ==
  /\ xsess > 0
  /\ NextPacket(xsess, num + 1)
  /\ watched' = IF m.type = "directory" THEN watched \cup ({m.loc} \cap Watched)
                ELSE watched
  /\ route(m)
  /\ UNCHANGED <<session, state, archives, ppc, event, left, missed, shardVars, bbo>>

ParseDirectory(loc) == ParseMessage([type |-> "directory", loc |-> loc])
ParseAction(loc) == ParseMessage([type |-> "action", loc |-> loc, sess |-> xsess])
ParseOrder(t, loc) == ParseMessage([type |-> t, loc |-> loc, sess |-> xsess])

\* A system event, of the current session or the first of the next one.
ParseEvent(s, code) ==
  /\ NextPacket(s, IF s = xsess THEN num + 1 ELSE 1)
  /\ event' = code
  /\ ppc' = "event"
  /\ UNCHANGED <<sessionVars, left, missed, queue, shardVars, bbo>>

\* reset_session starts: the name, the tracker, the symbols and the BBOs.
reset_session ==
  /\ ppc = "event" /\ session # xsess
  /\ session' = xsess
  /\ tseq' = 0
  /\ bbo' = [loc \in Locates |-> 0]
  /\ ppc' = "broadcast" /\ left' = Shards
  /\ UNCHANGED <<exchangeVars, gaps, state, watched, archives, event, missed, queue,
                 shardVars>>

\* The sentinel goes to one shard after the other.
BroadcastReset ==
  /\ ppc = "broadcast"
  /\ \E s \in left :
       /\ \A t \in left : s <= t
       /\ queue' = [queue EXCEPT ![s] = Pushed(@, [type |-> "reset"])]
       /\ missed' = IF Len(queue[s]) < QueueDepth THEN missed ELSE missed \cup {s}
       /\ left' = left \ {s}
       /\ ppc' = IF left = {s} THEN "unknown" ELSE "broadcast"
  /\ UNCHANGED <<exchangeVars, tseq, gaps, event, sessionVars, shardVars, bbo>>

StoreUnknown ==
  /\ ppc = "unknown"
  /\ state' = "Unknown"
  /\ ppc' = "event"
  /\ UNCHANGED <<exchangeVars, tseq, gaps, event, left, missed, session, watched,
                 archives, queue, shardVars, bbo>>

event_code_to_state(code) ==
  CASE code = "S" -> "PreOpen"
    [] code \in {"O", "C"} -> "Open"
    [] code \in {"Q", "M", "E"} -> "Closed"

\* The rest of on_system_event: archival, the new state, and the event itself
\* is routed.
on_system_event ==
  /\ ppc = "event" /\ session = xsess
  /\ archives' = IF event_code_to_state(event) = "Closed"
                 THEN archives \cup {<<session, event>>} ELSE archives
  /\ state' = event_code_to_state(event)
  /\ broadcast([type |-> "event"])
  /\ ppc' = "ready" /\ event' = "none"
  /\ UNCHANGED <<exchangeVars, tseq, gaps, left, missed, session, watched, shardVars, bbo>>

-----------------------------------------------------------------------------
(* The shard workers. *)

Take(s, types) ==
  /\ queue[s] # <<>> /\ Head(queue[s]).type \in types
  /\ queue' = [queue EXCEPT ![s] = Tail(@)]
  /\ UNCHANGED <<exchangeVars, sessionVars, parserVars>>

\* A bug the properties must catch: the last book of the slab is not cleared.
clear_all_books_short(s) ==
  LET cleared == {i \in active[s] : i + 1 \in Slabs}
  IN  /\ books' = [books EXCEPT ![s] = [i \in Slabs |-> IF i \in cleared THEN {} ELSE @[i]]]
      /\ status' = [status EXCEPT ![s] = [i \in Slabs |-> IF i \in cleared THEN 0 ELSE @[i]]]
      /\ active' = [active EXCEPT ![s] = @ \ cleared]

clear_all_books(s) ==
  /\ books' = [books EXCEPT ![s] = [i \in Slabs |-> IF i \in active[s] THEN {} ELSE @[i]]]
  /\ status' = [status EXCEPT ![s] = [i \in Slabs |-> IF i \in active[s] THEN 0 ELSE @[i]]]
  /\ active' = [active EXCEPT ![s] = {}]

DispatchReset(s) ==
  /\ Take(s, {"reset"})
  /\ clear_all_books(s)
  /\ UNCHANGED bbo

\* A system event has no effect on a shard.
DispatchEvent(s) ==
  /\ Take(s, {"event"})
  /\ UNCHANGED <<shardVars, bbo>>

\* The state is the one at dispatch, not the one when the message was parsed.
DispatchDirectory(s) ==
  /\ Take(s, {"directory"})
  /\ LET loc == Head(queue[s]).loc
         wanted == state = "Open" \/ (state = "PreOpen" /\ loc \in watched)
     IN  active' = [active EXCEPT ![s] =
                      IF wanted THEN @ \cup {SlabIndex(loc)} ELSE @]
  /\ UNCHANGED <<books, status, bbo>>

DispatchAction(s) ==
  /\ Take(s, {"action"})
  /\ LET m == Head(queue[s])
         i == SlabIndex(m.loc)
     IN  status' = [status EXCEPT ![s][i] = IF i \in active[s] THEN m.sess ELSE @]
  /\ UNCHANGED <<active, books, bbo>>

\* An order enters its book, or changes it, and the new BBO is published; it
\* is discarded when the market is not open, and when its book is not active
\* and it is not an add.
DispatchOrder(s) ==
  /\ Take(s, {"add", "other"})
  /\ LET m == Head(queue[s])
         i == SlabIndex(m.loc)
     IN  IF state = "Open" /\ (i \in active[s] \/ m.type = "add")
         THEN /\ active' = [active EXCEPT ![s] = @ \cup {i}]
              /\ books' = [books EXCEPT ![s][i] =
                   IF m.type = "add"
                   THEN @ \cup {[loc |-> m.loc, sess |-> m.sess]}
                   ELSE @]
              /\ bbo' = [bbo EXCEPT ![m.loc] = m.sess]
         ELSE UNCHANGED <<active, books, bbo>>
  /\ UNCHANGED status

dispatch(s) ==
  \/ DispatchReset(s) \/ DispatchEvent(s) \/ DispatchDirectory(s)
  \/ DispatchAction(s) \/ DispatchOrder(s)

-----------------------------------------------------------------------------
Parse ==
  \/ \E loc \in Locates : ParseDirectory(loc) \/ ParseAction(loc)
  \/ \E loc \in Locates, t \in {"add", "other"} : ParseOrder(t, loc)
  \/ \E code \in Codes : \/ xsess > 0 /\ ParseEvent(xsess, code)
                         \/ xsess < MaxSessions /\ ParseEvent(xsess + 1, code)

HandleEvent == reset_session \/ BroadcastReset \/ StoreUnknown \/ on_system_event

Next == Parse \/ HandleEvent \/ \E s \in Shards : dispatch(s)

Spec == Init /\ [][Next]_vars

\* The parser finishes what it has begun and every shard worker keeps running.
FairSpec ==
  /\ Spec
  /\ WF_vars(HandleEvent)
  /\ \A s \in Shards : WF_vars(dispatch(s))

-----------------------------------------------------------------------------
(* Properties. *)

\* A book holds only orders of its own locate code, whatever shards the
\* directory and trading action messages were broadcast to; and in a shard
\* whose queue dropped no sentinel, it never mixes two sessions in its orders
\* and its trading status, however far the shard lags behind the parser and
\* whatever else its queue dropped: the sentinel stands in the queue between the
\* two (shard_router.cpp:33-46, session_manager.cpp:102-122,
\* shard_worker.cpp:57-75).
BooksOneSession ==
  \A s \in Shards, i \in Slabs :
    /\ \A t \in books[s][i] : t.loc = i * NumShards + s
    /\ s \notin missed =>
         \A m, n \in {t.sess : t \in books[s][i]} \cup ({status[s][i]} \ {0}) :
           m = n

\* Once a session has begun, the orders of the ones before it are at last gone
\* from every book of a shard whose queue dropped no sentinel
\* (shard_worker.cpp:70-75).
OldOrdersGone ==
  \A n \in 1 .. MaxSessions :
    session = n ~>
      \A s \in Shards \ missed, i \in Slabs : \A t \in books[s][i] : t.sess >= n

\* In a feed that loses nothing, the tracker reports no gap but one: the packet
\* that announces a session is counted before reset_session sets the tracker to
\* 0, so the second packet of the session shows a gap
\* (parser_thread.cpp:61, session_manager.cpp:113).
GapOnlyAfterReset == \A g \in gaps : g[2] = 2
=============================================================================
