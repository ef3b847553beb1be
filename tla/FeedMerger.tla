----------------------------- MODULE FeedMerger -----------------------------
(***************************************************************************)
(* From the sockets to the parser: the receiver threads, their packet      *)
(* rings, the recovery ring, the feed merger and the parser's end of the   *)
(* merged queue (src/workers/receiver_thread.cpp, packet_ring.hpp,         *)
(* src/workers/feed_merger.cpp, parser_thread.cpp:19-30).                  *)
(*                                                                         *)
(* A packet is its sequence number, all that the merger reads of it.       *)
(* Number 0 stands for a heartbeat or a packet too short to have a header, *)
(* which the merger forwards unseen.  The queues carry slot numbers only;  *)
(* each entry also carries, as history, the packet it was published for,   *)
(* so that the packet a slot holds when it is read can be compared with    *)
(* it.  The queues are the bounded FIFOs that SpscQueue implements.        *)
(***************************************************************************)
EXTENDS DedupWindow, Sequences, FiniteSets

CONSTANTS
  Feeds,        \* the live feeds: "primary", and "secondary" when configured
  Depth,        \* PACKET_RING_DEPTH and RECOVERY_RING_DEPTH
  MergedDepth,  \* MERGED_QUEUE_DEPTH
  MaxArrivals   \* bound: the packets that reach the live rings and the recovery ring

Rings == Feeds \cup {"recovery"}

ASSUME FeedsAssumption ==
  Feeds \subseteq {"primary", "secondary"} /\ "primary" \in Feeds
ASSUME MergerBounds ==
  /\ Depth \in Nat \ {0} /\ MergedDepth \in Nat \ {0}
  /\ MaxArrivals \in Nat

VARIABLES
  got,      \* per feed: the packets that have arrived on it
  slots,    \* per ring: the packets in its slots
  filled,   \* per ring: the claimed slot is filled and not yet published
  write,    \* per ring: write_slot_, or recovery_write_
  queue,    \* per ring: the queue of slot numbers
  turn,     \* the ring the merger looks at next
  hand,     \* the entry the merger has popped and not yet handled, if any
  merged,   \* merged_queue_
  taken,    \* the entry the parser has popped and not yet read, if any
  parsed,   \* how often the parser has met each packet: 0, 1 or more
  lost      \* a full queue has dropped a packet, or a slot that was still to
            \* be read was filled again (history)

ringVars == <<slots, filled, write>>
vars == <<dedupVars, got, ringVars, queue, turn, hand, merged, taken, parsed, lost>>

Packets == 0 .. MaxSeq
Entries == [ring : Rings, num : Nat, packet : Packets]

\* The state of the threads; no ring queue and no merged queue ever holds more
\* entries than it has slots.
TypeOK ==
  /\ DedupTypeOK
  /\ got \in [Feeds -> SUBSET Packets]
  /\ slots \in [Rings -> [0 .. Depth - 1 -> Packets]]
  /\ filled \in [Rings -> BOOLEAN]
  /\ write \in [Rings -> Nat]
  /\ queue \in [Rings -> Seq(Entries)]
  /\ \A r \in Rings : Len(queue[r]) <= Depth
  /\ turn \in Rings
  /\ hand \in Seq(Entries) /\ Len(hand) <= 1
  /\ merged \in Seq(Entries) /\ Len(merged) <= MergedDepth
  /\ taken \in Seq(Entries) /\ Len(taken) <= 1
  /\ parsed \in [Packets -> 0 .. 2]
  /\ lost \in BOOLEAN

Init ==
  /\ DedupInit
  /\ got = [f \in Feeds |-> {}]
  /\ slots = [r \in Rings |-> [i \in 0 .. Depth - 1 |-> 0]]
  /\ filled = [r \in Rings |-> FALSE]
  /\ write = [r \in Rings |-> 0]
  /\ queue = [r \in Rings |-> <<>>]
  /\ turn = "recovery"
  /\ hand = <<>> /\ merged = <<>> /\ taken = <<>>
  /\ parsed = [p \in Packets |-> 0]
  /\ lost = FALSE

-----------------------------------------------------------------------------
(* The producers. *)

claim(r) == write[r] % Depth

InFlight ==
  (UNION {{queue[r][i] : i \in 1 .. Len(queue[r])} : r \in Rings})
  \cup {merged[i] : i \in 1 .. Len(merged)}
  \cup {hand[i] : i \in 1 .. Len(hand)}
  \cup {taken[i] : i \in 1 .. Len(taken)}

\* The packets that have reached any ring so far, one copy on each feed.
Arrivals ==
  Cardinality({c \in Feeds \X Packets : c[2] \in got[c[1]]})
    + write["recovery"] + (IF filled["recovery"] THEN 1 ELSE 0)

\* The claimed slot is still to be read.
Overwrites(r) == \E e \in InFlight : e.ring = r /\ e.num % Depth = claim(r)

\* recv fills the claimed slot, whether or not the queue has room for it.
recv(f, p) ==
  /\ ~filled[f]
  /\ p \in Packets \ got[f] /\ Arrivals < MaxArrivals
  /\ got' = [got EXCEPT ![f] = @ \cup {p}]
  /\ slots' = [slots EXCEPT ![f][claim(f)] = p]
  /\ filled' = [filled EXCEPT ![f] = TRUE]
  /\ lost' = (lost \/ Overwrites(f))
  /\ UNCHANGED <<dedupVars, write, queue, turn, hand, merged, taken, parsed>>

\* A bug the properties must catch: the number published is the next slot's.
publish_ahead(r) ==
  /\ filled[r]
  /\ filled' = [filled EXCEPT ![r] = FALSE]
  /\ queue' = [queue EXCEPT ![r] =
                 IF Len(@) < Depth
                 THEN Append(@, [ring |-> r, num |-> write[r] + 1,
                                 packet |-> slots[r][claim(r)]])
                 ELSE @]
  /\ write' = [write EXCEPT ![r] = IF Len(queue[r]) < Depth THEN @ + 1 ELSE @]
  /\ lost' = (lost \/ Len(queue[r]) = Depth)
  /\ UNCHANGED <<dedupVars, got, slots, turn, hand, merged, taken, parsed>>

\* When the queue is full the packet is dropped and its slot is filled again.
publish(r) ==
  /\ filled[r]
  /\ filled' = [filled EXCEPT ![r] = FALSE]
  /\ queue' = [queue EXCEPT ![r] =
                 IF Len(@) < Depth
                 THEN Append(@, [ring |-> r, num |-> write[r],
                                 packet |-> slots[r][claim(r)]])
                 ELSE @]
  /\ write' = [write EXCEPT ![r] = IF Len(queue[r]) < Depth THEN @ + 1 ELSE @]
  /\ lost' = (lost \/ Len(queue[r]) = Depth)
  /\ UNCHANGED <<dedupVars, got, slots, turn, hand, merged, taken, parsed>>

\* The recovery thread looks at the queue before it fills the slot.
inject_recovered_packet(p) ==
  /\ ~filled["recovery"]
  /\ Arrivals < MaxArrivals
  /\ p \in Packets \ {0}
  /\ Len(queue["recovery"]) < Depth
  /\ slots' = [slots EXCEPT !["recovery"][claim("recovery")] = p]
  /\ filled' = [filled EXCEPT !["recovery"] = TRUE]
  /\ lost' = (lost \/ Overwrites("recovery"))
  /\ UNCHANGED <<dedupVars, got, write, queue, turn, hand, merged, taken, parsed>>

-----------------------------------------------------------------------------
(* The merger. *)

\* The merger drains the recovery ring, then looks once at each live feed.
After(r) ==
  CASE r = "recovery" -> "primary"
    [] r = "primary" -> IF "secondary" \in Feeds THEN "secondary" ELSE "recovery"
    [] r = "secondary" -> "recovery"

consume ==
  /\ hand = <<>> /\ queue[turn] # <<>>
  /\ hand' = <<Head(queue[turn])>>
  /\ queue' = [queue EXCEPT ![turn] = Tail(@)]
  /\ UNCHANGED <<dedupVars, got, ringVars, turn, merged, taken, parsed, lost>>

NothingToConsume ==
  /\ hand = <<>> /\ queue[turn] = <<>>
  /\ \E r \in Rings : queue[r] # <<>>
  /\ turn' = After(turn)
  /\ UNCHANGED <<dedupVars, got, ringVars, queue, hand, merged, taken, parsed, lost>>

Slot(e) == slots[e.ring][e.num % Depth]

\* A slot that finds the merged queue full is dropped.
forward(e) ==
  /\ merged' = IF Len(merged) < MergedDepth THEN Append(merged, e) ELSE merged
  /\ lost' = (lost \/ Len(merged) = MergedDepth)

consume_recovered ==
  /\ turn = "recovery" /\ hand # <<>>
  /\ forward(Head(hand))
  /\ hand' = <<>>
  /\ UNCHANGED <<dedupVars, got, ringVars, queue, turn, taken, parsed>>

\* A bug the properties must catch: a packet is forwarded before it is looked
\* up in the window.
handle_live_slot_unfiltered ==
  /\ turn # "recovery" /\ hand # <<>>
  /\ forward(Head(hand))
  /\ LET seq == Slot(Head(hand))
     IN  IF seq = 0 THEN UNCHANGED dedupVars ELSE check_and_mark(seq)
  /\ hand' = <<>>
  /\ turn' = After(turn)
  /\ UNCHANGED <<got, ringVars, queue, taken, parsed>>

\* A bug the properties must catch: heartbeats are marked in the window too.
handle_live_slot_marks_all ==
  /\ turn # "recovery" /\ hand # <<>>
  /\ LET e == Head(hand)
         seq == Slot(e)
     IN  /\ check_and_mark(seq)
         /\ IF IsNew(window, seq) THEN forward(e) ELSE UNCHANGED <<merged, lost>>
  /\ hand' = <<>>
  /\ turn' = After(turn)
  /\ UNCHANGED <<got, ringVars, queue, taken, parsed>>

\* The number is read from the slot as it is now.
handle_live_slot ==
  /\ turn # "recovery" /\ hand # <<>>
  /\ LET e == Head(hand)
         seq == Slot(e)
     IN  IF seq = 0
         THEN forward(e) /\ UNCHANGED dedupVars
         ELSE /\ check_and_mark(seq)
              /\ IF IsNew(window, seq) THEN forward(e) ELSE UNCHANGED <<merged, lost>>
  /\ hand' = <<>>
  /\ turn' = After(turn)
  /\ UNCHANGED <<got, ringVars, queue, taken, parsed>>

-----------------------------------------------------------------------------
(* The parser. *)

try_pop ==
  /\ taken = <<>> /\ merged # <<>>
  /\ taken' = <<Head(merged)>>
  /\ merged' = Tail(merged)
  /\ UNCHANGED <<dedupVars, got, ringVars, queue, turn, hand, parsed, lost>>

\* The packet is parsed in its slot.
process_slot ==
  /\ taken # <<>>
  /\ parsed' = [parsed EXCEPT ![Slot(Head(taken))] = IF @ = 2 THEN 2 ELSE @ + 1]
  /\ taken' = <<>>
  /\ UNCHANGED <<dedupVars, got, ringVars, queue, turn, hand, merged, lost>>

-----------------------------------------------------------------------------
Receiver(f) == publish(f) \/ \E p \in Packets : recv(f, p)
Recovery == publish("recovery") \/ \E p \in Packets : inject_recovered_packet(p)
Merger == consume \/ NothingToConsume \/ consume_recovered \/ handle_live_slot
Parser == try_pop \/ process_slot

Next == (\E f \in Feeds : Receiver(f)) \/ Recovery \/ Merger \/ Parser

Spec == Init /\ [][Next]_vars

\* The threads keep running; packets need not arrive.
FairSpec ==
  /\ Spec
  /\ \A r \in Rings : WF_vars(publish(r))
  /\ WF_vars(Merger) /\ WF_vars(Parser)

-----------------------------------------------------------------------------
(* Properties. *)

\* A slot keeps its packet from publish to process_slot for as long as the
\* producer is less than a ring ahead of it: what a drop refills, and what the
\* parser still has to read, is another slot (receiver_thread.cpp:33-52,
\* packet_ring.hpp:127-141, 165-181).
KeptWithinARing ==
  \A e \in InFlight : write[e.ring] - e.num < Depth => Slot(e) = e.packet

\* The merger is a client of the window and of nothing else of it: what it
\* does to the window is what DedupWindow allows (feed_merger.cpp:88-92).
ImplementsDedup == DedupSpec

\* A packet that arrives on both feeds reaches the parser once, as long as
\* nothing was lost or recovered: the window lets one copy pass, whatever the
\* order in which the merger meets them (feed_merger.cpp:58-95).
ParsedOnce ==
  ~ lost /\ write["recovery"] = 0 => \A p \in Packets \ {0} : parsed[p] < 2

\* A packet that arrived on either feed reaches the parser, unless a queue or
\* ring overflowed or the merger had by then met a number more than a block
\* newer (feed_merger.cpp:21-95).
ArrivedIsParsed ==
  \A p \in Packets \ {0} :
    (\E f \in Feeds : p \in got[f]) ~> (parsed[p] > 0 \/ lost \/ newest > p + Block)
=============================================================================
