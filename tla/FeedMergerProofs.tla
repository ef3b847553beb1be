-------------------------- MODULE FeedMergerProofs --------------------------
(***************************************************************************)
(* FeedMerger with one live feed or two, rings and a merged queue of any   *)
(* depth: what the merger does to the window is what DedupWindow allows,   *)
(* so that the theorems about the window hold of the merger; and a slot    *)
(* keeps its packet while the producer is less than a ring ahead.          *)
(***************************************************************************)
EXTENDS FeedMerger, DedupWindowProofs, RingArithmetic

\* The merger only ever looks at slots that exist and hold packets.
RingTypes ==
  /\ slots \in [Rings -> [0 .. Depth - 1 -> Packets]]
  /\ write \in [Rings -> Nat]
  /\ queue \in [Rings -> Seq(Entries)]
  /\ hand \in Seq(Entries)
  /\ turn \in Rings

LEMMA ClaimType ==
  ASSUME RingTypes, NEW r \in Rings
  PROVE  claim(r) \in 0 .. Depth - 1
BY MergerBounds DEF RingTypes, claim

LEMMA SlotType ==
  ASSUME RingTypes, NEW e \in Entries
  PROVE  Slot(e) \in Packets
<1>1. e.ring \in Rings /\ e.num \in Nat
  BY DEF Entries
<1>2. e.num % Depth \in 0 .. Depth - 1
  BY <1>1, MergerBounds
<1> QED
  BY <1>1, <1>2, Zenon DEF RingTypes, Slot

LEMMA InitRingTypes == Init => RingTypes
<1> SUFFICES ASSUME Init PROVE RingTypes
  OBVIOUS
<1>1. 0 \in Packets
  BY MaxSeqAssumption DEF Packets
<1>2. slots \in [Rings -> [0 .. Depth - 1 -> Packets]]
  BY <1>1 DEF Init
<1>3. write \in [Rings -> Nat]
  BY DEF Init
<1>4. <<>> \in Seq(Entries)
  OBVIOUS
<1>5. queue \in [Rings -> Seq(Entries)] /\ hand \in Seq(Entries)
  BY <1>4 DEF Init
<1>6. turn \in Rings
  BY DEF Init, Rings
<1> QED
  BY <1>2, <1>3, <1>5, <1>6 DEF RingTypes

LEMMA NextRingTypes == RingTypes /\ [Next]_vars => RingTypes'
<1> SUFFICES ASSUME RingTypes, [Next]_vars PROVE RingTypes'
  OBVIOUS
<1>0. Feeds \subseteq Rings /\ "recovery" \in Rings
  BY DEF Rings
<1>1. ASSUME NEW f \in Feeds, NEW p \in Packets, recv(f, p) PROVE RingTypes'
  BY <1>0, <1>1, ClaimType DEF recv, RingTypes
<1>2. ASSUME NEW r \in Rings, publish(r) PROVE RingTypes'
  <2>1. slots[r][claim(r)] \in Packets /\ write[r] \in Nat
    BY ClaimType, Zenon DEF RingTypes
  <2>2. [ring |-> r, num |-> write[r], packet |-> slots[r][claim(r)]] \in Entries
    BY <2>1 DEF Entries
  <2>3. queue' \in [Rings -> Seq(Entries)]
    BY <1>2, <2>2 DEF publish, RingTypes
  <2>4. write' \in [Rings -> Nat]
    BY <1>2 DEF publish, RingTypes
  <2> QED
    BY <1>2, <2>3, <2>4 DEF publish, RingTypes
<1>3. ASSUME NEW p \in Packets, inject_recovered_packet(p) PROVE RingTypes'
  BY <1>0, <1>3, ClaimType DEF inject_recovered_packet, RingTypes
<1>4. After(turn) \in Rings
  BY FeedsAssumption DEF RingTypes, Rings, After
<1>5. CASE consume
  <2>1. queue[turn] \in Seq(Entries) /\ queue[turn] # <<>>
    BY <1>5 DEF consume, RingTypes
  <2>2. Head(queue[turn]) \in Entries /\ Tail(queue[turn]) \in Seq(Entries)
    BY <2>1
  <2> QED
    BY <1>5, <2>2 DEF consume, RingTypes, ringVars
<1>6. CASE NothingToConsume
  BY <1>4, <1>6 DEF NothingToConsume, RingTypes, ringVars
<1>7. <<>> \in Seq(Entries)
  OBVIOUS
<1>8. CASE consume_recovered
  BY <1>7, <1>8 DEF consume_recovered, RingTypes, ringVars
<1>9. CASE handle_live_slot
  BY <1>4, <1>7, <1>9 DEF handle_live_slot, RingTypes, ringVars
<1>10. CASE try_pop \/ process_slot
  BY <1>10 DEF try_pop, process_slot, RingTypes, ringVars
<1>11. CASE UNCHANGED vars
  BY <1>11 DEF vars, RingTypes, ringVars
<1> QED
  BY <1>0, <1>1, <1>2, <1>3, <1>5, <1>6, <1>8, <1>9, <1>10, <1>11
     DEF Next, Receiver, Recovery, Merger, Parser

\* Every step of the threads is a step of the window or leaves it alone.
LEMMA NextIsDedup == RingTypes /\ [Next]_vars => [DedupNext]_dedupVars
<1> SUFFICES ASSUME RingTypes, [Next]_vars PROVE [DedupNext]_dedupVars
  OBVIOUS
<1>1. ASSUME handle_live_slot PROVE [DedupNext]_dedupVars
  <2>1. hand \in Seq(Entries) /\ hand # <<>>
    BY <1>1 DEF handle_live_slot, RingTypes
  <2>2. Slot(Head(hand)) \in Packets
    BY <2>1, SlotType
  <2>3. CASE Slot(Head(hand)) = 0
    BY <1>1, <2>3 DEF handle_live_slot
  <2>4. CASE Slot(Head(hand)) # 0
    <3>1. Slot(Head(hand)) \in 1 .. MaxSeq
      BY <2>2, <2>4, MaxSeqAssumption DEF Packets
    <3>2. check_and_mark(Slot(Head(hand)))
      BY <1>1, <2>4 DEF handle_live_slot
    <3> QED
      BY <3>1, <3>2 DEF DedupNext
  <2> QED
    BY <2>3, <2>4
<1>2. ASSUME NEW r \in Rings, publish(r) PROVE UNCHANGED dedupVars
  BY <1>2 DEF publish
<1>3. ASSUME NEW r \in Rings, NEW p \in Packets, recv(r, p) PROVE UNCHANGED dedupVars
  BY <1>3 DEF recv
<1>4. ASSUME NEW p \in Packets, inject_recovered_packet(p) PROVE UNCHANGED dedupVars
  BY <1>4 DEF inject_recovered_packet
<1>5. ASSUME consume \/ NothingToConsume \/ consume_recovered \/ try_pop \/ process_slot
             \/ UNCHANGED vars
      PROVE  UNCHANGED dedupVars
  BY <1>5 DEF consume, NothingToConsume, consume_recovered, try_pop, process_slot, vars
<1>6. Feeds \subseteq Rings /\ "recovery" \in Rings
  BY DEF Rings
<1> QED
  BY <1>1, <1>2, <1>3, <1>4, <1>5, <1>6 DEF Next, Receiver, Recovery, Merger, Parser

\* With any feeds and rings of any depth, the merger is a client of the window
\* (feed_merger.cpp:21-95).
THEOREM MergerRefines == Spec => ImplementsDedup
<1>1. Init => DedupInit
  BY DEF Init
<1> QED
  BY <1>1, InitRingTypes, NextRingTypes, NextIsDedup, PTL
     DEF Spec, ImplementsDedup, DedupSpec

\* So the merger forwards no live number twice, and takes none within a word of
\* the newest for too old, however the feeds interleave and the rings overflow.
THEOREM MergerForwardsOnce == Spec => NewOnce /\ []NotTooOld
BY MergerRefines, NoNumberTwice, NeverTooOld, PTL DEF ImplementsDedup
-----------------------------------------------------------------------------
(***************************************************************************)
(* Slots.  KeptWithinARing is not inductive: that a producer fills another *)
(* slot than the one an entry names rests on the entry being behind it.    *)
(***************************************************************************)

\* An entry is behind its producer, and its slot is kept for a ring.
Kept(e) ==
  /\ e \in Entries
  /\ e.num < write[e.ring]
  /\ write[e.ring] - e.num < Depth => Slot(e) = e.packet

KeptInv ==
  /\ RingTypes
  /\ merged \in Seq(Entries) /\ taken \in Seq(Entries)
  /\ \A e \in InFlight : Kept(e)

Held(q) == {q[i] : i \in 1 .. Len(q)}

LEMMA HeldAppend ==
  ASSUME NEW q \in Seq(Entries), NEW e \in Entries
  PROVE  Held(Append(q, e)) \subseteq Held(q) \cup {e}
<1> SUFFICES ASSUME NEW i \in 1 .. Len(Append(q, e))
             PROVE  Append(q, e)[i] \in Held(q) \cup {e}
  BY DEF Held
<1>1. CASE i = Len(q) + 1
  BY <1>1
<1>2. CASE i # Len(q) + 1
  <2>1. i \in 1 .. Len(q) /\ Append(q, e)[i] = q[i]
    BY <1>2
  <2> QED
    BY <2>1 DEF Held
<1> QED
  BY <1>1, <1>2

LEMMA HeldRest ==
  ASSUME NEW q \in Seq(Entries), q # <<>>
  PROVE  Head(q) \in Held(q) /\ Held(Tail(q)) \subseteq Held(q)
<1>1. Head(q) = q[1] /\ 1 \in 1 .. Len(q)
  OBVIOUS
<1>2. ASSUME NEW i \in 1 .. Len(Tail(q)) PROVE Tail(q)[i] \in Held(q)
  <2>1. Tail(q)[i] = q[i + 1] /\ i + 1 \in 1 .. Len(q)
    OBVIOUS
  <2> QED
    BY <2>1 DEF Held
<1> QED
  BY <1>1, <1>2 DEF Held

LEMMA HeldNone == Held(<<>>) = {}
BY DEF Held

LEMMA HeldOne == ASSUME NEW e PROVE Held(<<e>>) = {e}
BY DEF Held

LEMMA InFlightHeld ==
  InFlight = (UNION {Held(queue[r]) : r \in Rings})
               \cup Held(merged) \cup Held(hand) \cup Held(taken)
BY DEF InFlight, Held

LEMMA InitKept == Init => KeptInv
<1> SUFFICES ASSUME Init PROVE KeptInv
  OBVIOUS
<1>1. <<>> \in Seq(Entries)
  OBVIOUS
<1>2. InFlight = {}
  BY InFlightHeld, HeldNone DEF Init
<1> QED
  BY <1>1, <1>2, InitRingTypes DEF Init, KeptInv

\* Filling the claimed slot leaves those of the entries within a ring alone.
LEMMA FillKeeps ==
  ASSUME RingTypes, NEW r \in Rings, NEW p \in Packets, NEW e, Kept(e),
         slots' = [slots EXCEPT ![r][claim(r)] = p], UNCHANGED write
  PROVE  Kept(e)'
<1>1. e \in Entries /\ e.ring \in Rings /\ e.num \in Nat
  BY DEF Kept, Entries
<1>2. write[e.ring] \in Nat /\ e.num < write[e.ring]
  BY <1>1 DEF Kept, RingTypes
<1>3. SUFFICES ASSUME write[e.ring] - e.num < Depth PROVE Slot(e)' = Slot(e)
  BY <1>1, <1>2 DEF Kept
<1>4. e.num % Depth # write[e.ring] % Depth
  BY <1>1, <1>2, <1>3, MergerBounds, RemaindersDiffer
<1>5. CASE e.ring = r
  BY <1>1, <1>4, <1>5, ClaimType DEF Slot, claim, RingTypes
<1>6. CASE e.ring # r
  BY <1>1, <1>6 DEF Slot, RingTypes
<1> QED
  BY <1>5, <1>6

\* Publishing names the slot that was filled last, and moves on.
LEMMA PublishKeeps ==
  ASSUME KeptInv, NEW r \in Rings, publish(r)
  PROVE  \A e \in InFlight' : Kept(e)'
<1>1. RingTypes /\ slots[r][claim(r)] \in Packets /\ write[r] \in Nat
  BY ClaimType, Zenon DEF KeptInv, RingTypes
<1>2. PICK new \in Entries :
        new = [ring |-> r, num |-> write[r], packet |-> slots[r][claim(r)]]
  BY <1>1, Zenon DEF Entries
<1>3. \/ queue' = queue /\ write' = write
      \/ /\ queue' = [queue EXCEPT ![r] = Append(@, new)]
         /\ write' = [write EXCEPT ![r] = @ + 1]
  BY <1>1, <1>2, Zenon DEF publish, RingTypes
<1>4. UNCHANGED <<slots, hand, merged, taken>>
  BY DEF publish
<1>5. ASSUME NEW e \in InFlight PROVE Kept(e)'
  <2>1. Kept(e)
    BY DEF KeptInv
  <2>2. e \in Entries /\ e.ring \in Rings /\ e.num \in Nat
    BY <2>1 DEF Kept, Entries
  <2>3. write'[e.ring] \in {write[e.ring], write[e.ring] + 1} /\ write[e.ring] \in Nat
    BY <1>1, <1>3, <2>2 DEF RingTypes
  <2>4. Slot(e)' = Slot(e)
    BY <1>4 DEF Slot
  <2> QED
    BY <2>1, <2>2, <2>3, <2>4, MergerBounds DEF Kept
<1>6. CASE queue' = queue /\ write' = write
  <2>1. InFlight' = InFlight
    BY <1>4, <1>6 DEF InFlight
  <2> QED
    BY <1>5, <2>1
<1>7. CASE /\ queue' = [queue EXCEPT ![r] = Append(@, new)]
           /\ write' = [write EXCEPT ![r] = @ + 1]
  <2>1. \A s \in Rings : Held(queue'[s]) \subseteq Held(queue[s]) \cup {new}
    BY <1>1, <1>2, <1>7, HeldAppend DEF RingTypes
  <2>2. InFlight' \subseteq InFlight \cup {new}
    <3>1. InFlight' = (UNION {Held(queue'[s]) : s \in Rings})
                        \cup Held(merged) \cup Held(hand) \cup Held(taken)
      BY <1>4 DEF InFlight, Held
    <3> QED
      BY <2>1, <3>1, InFlightHeld
  <2>3. Kept(new)'
    <3>1. write'[r] = write[r] + 1
      BY <1>1, <1>7 DEF RingTypes
    <3>2. Slot(new)' = new.packet
      BY <1>2, <1>4 DEF Slot, claim
    <3> QED
      BY <1>1, <1>2, <3>1, <3>2 DEF Kept
  <2> QED
    BY <1>5, <2>2, <2>3
<1> QED
  BY <1>3, <1>6, <1>7

\* Merger and parser hand entries on, or drop them, and leave the slots alone.
LEMMA HandOnKeeps ==
  ASSUME KeptInv, InFlight' \subseteq InFlight, UNCHANGED <<slots, write>>
  PROVE  \A e \in InFlight' : Kept(e)'
BY DEF KeptInv, Kept, Slot

LEMMA MergerKeeps ==
  ASSUME KeptInv, Merger
  PROVE  (merged \in Seq(Entries))' /\ InFlight' \subseteq InFlight
<1> DEFINE Rest == (UNION {Held(queue'[r]) : r \in Rings})
                     \cup Held(merged') \cup Held(hand') \cup Held(taken')
<1>1. InFlight' = Rest
  BY DEF InFlight, Held
<1>2. merged \in Seq(Entries) /\ hand \in Seq(Entries)
  BY DEF KeptInv, RingTypes
<1> HIDE DEF Rest
<1>3. CASE consume
  <2>1. turn \in Rings /\ queue[turn] \in Seq(Entries) /\ queue[turn] # <<>>
    BY <1>3 DEF consume, KeptInv, RingTypes
  <2>2. Head(queue[turn]) \in Held(queue[turn])
        /\ Held(Tail(queue[turn])) \subseteq Held(queue[turn])
    BY <2>1, HeldRest
  <2>3. \A r \in Rings : Held(queue'[r]) \subseteq Held(queue[r])
    BY <1>3, <2>1, <2>2 DEF consume, KeptInv, RingTypes
  <2>4. Held(hand') = {Head(queue[turn])} /\ UNCHANGED <<merged, taken>>
    BY <1>3, HeldOne DEF consume
  <2>5. \A r \in Rings : Held(queue[r]) \subseteq InFlight
    BY InFlightHeld
  <2>6. (UNION {Held(queue'[r]) : r \in Rings}) \subseteq InFlight
    BY <2>3, <2>5
  <2>7. Held(hand') \subseteq InFlight
    BY <2>1, <2>2, <2>4, <2>5
  <2>8. Held(merged') \subseteq InFlight /\ Held(taken') \subseteq InFlight
    BY <2>4, InFlightHeld
  <2> QED
    BY <1>1, <1>2, <2>4, <2>6, <2>7, <2>8 DEF Rest
<1>4. CASE NothingToConsume
  BY <1>1, <1>2, <1>4, InFlightHeld DEF NothingToConsume, Rest
<1>5. CASE consume_recovered \/ handle_live_slot
  <2>1. hand # <<>> /\ hand' = <<>> /\ UNCHANGED <<queue, taken>>
    BY <1>5 DEF consume_recovered, handle_live_slot
  <2>2. merged' = merged \/ merged' = Append(merged, Head(hand))
    BY <1>5 DEF consume_recovered, handle_live_slot, forward
  <2>3. Head(hand) \in Entries /\ Head(hand) \in Held(hand)
    BY <1>2, <2>1, HeldRest
  <2>4. merged' \in Seq(Entries) /\ Held(merged') \subseteq Held(merged) \cup Held(hand)
    <3>1. Append(merged, Head(hand)) \in Seq(Entries)
          /\ Held(Append(merged, Head(hand))) \subseteq Held(merged) \cup {Head(hand)}
      BY <1>2, <2>3, HeldAppend
    <3> QED
      BY <1>2, <2>2, <2>3, <3>1, Zenon
  <2>5. Held(hand') = {}
    BY <2>1, HeldNone
  <2> QED
    BY <1>1, <2>1, <2>4, <2>5, InFlightHeld DEF Rest
<1> QED
  BY <1>3, <1>4, <1>5 DEF Merger

LEMMA ParserKeeps ==
  ASSUME KeptInv, Parser
  PROVE  (merged \in Seq(Entries) /\ taken \in Seq(Entries))' /\ InFlight' \subseteq InFlight
<1>1. InFlight' = (UNION {Held(queue[r]) : r \in Rings})
                    \cup Held(merged') \cup Held(hand) \cup Held(taken')
  BY DEF InFlight, Held, Parser, try_pop, process_slot
<1>2. merged \in Seq(Entries) /\ taken \in Seq(Entries) /\ <<>> \in Seq(Entries)
  BY DEF KeptInv
<1>3. CASE try_pop
  <2>1. merged # <<>> /\ merged' = Tail(merged) /\ taken' = <<Head(merged)>>
    BY <1>3 DEF try_pop
  <2>2. Head(merged) \in Entries /\ Tail(merged) \in Seq(Entries)
    BY <1>2, <2>1
  <2>3. Head(merged) \in Held(merged) /\ Held(Tail(merged)) \subseteq Held(merged)
    BY <1>2, <2>1, HeldRest
  <2>4. Held(taken') = {Head(merged)}
    BY <2>1, HeldOne
  <2>5. taken' \in Seq(Entries)
    BY <2>1, <2>2
  <2> QED
    BY <1>1, <2>1, <2>2, <2>3, <2>4, <2>5, InFlightHeld
<1>4. CASE process_slot
  <2>1. taken' = <<>> /\ merged' = merged
    BY <1>4 DEF process_slot
  <2> QED
    BY <1>1, <1>2, <2>1, InFlightHeld, HeldNone
<1> QED
  BY <1>3, <1>4 DEF Parser

LEMMA NextKept == KeptInv /\ [Next]_vars => KeptInv'
<1> SUFFICES ASSUME KeptInv, [Next]_vars PROVE KeptInv'
  OBVIOUS
<1>0. RingTypes /\ RingTypes' /\ Feeds \subseteq Rings /\ "recovery" \in Rings
  BY NextRingTypes DEF KeptInv, Rings
<1>1. ASSUME NEW r \in Rings, NEW p \in Packets,
             slots' = [slots EXCEPT ![r][claim(r)] = p],
             UNCHANGED <<write, queue, hand, merged, taken>>
      PROVE  KeptInv'
  <2>1. InFlight' = InFlight
    BY <1>1 DEF InFlight
  <2>2. \A e \in InFlight : Kept(e)'
    BY <1>0, <1>1, FillKeeps, Zenon DEF KeptInv
  <2> QED
    BY <1>0, <1>1, <2>1, <2>2 DEF KeptInv
<1>2. ASSUME NEW f \in Feeds, NEW p \in Packets, recv(f, p) PROVE KeptInv'
  BY <1>0, <1>1, <1>2, Zenon DEF recv
<1>3. ASSUME NEW p \in Packets, inject_recovered_packet(p) PROVE KeptInv'
  BY <1>0, <1>1, <1>3, Zenon DEF inject_recovered_packet
<1>4. ASSUME NEW r \in Rings, publish(r) PROVE KeptInv'
  <2>1. UNCHANGED <<merged, taken>>
    BY <1>4 DEF publish
  <2> QED
    BY <1>0, <1>4, <2>1, PublishKeeps DEF KeptInv
<1>5. CASE Merger
  <2>1. UNCHANGED <<slots, write, taken>>
    BY <1>5 DEF Merger, consume, NothingToConsume, consume_recovered,
                handle_live_slot, ringVars
  <2> QED
    BY <1>0, <1>5, <2>1, MergerKeeps, HandOnKeeps DEF KeptInv
<1>6. CASE Parser
  <2>1. UNCHANGED <<slots, write>>
    BY <1>6 DEF Parser, try_pop, process_slot, ringVars
  <2> QED
    BY <1>0, <1>6, <2>1, ParserKeeps, HandOnKeeps DEF KeptInv
<1>7. CASE UNCHANGED vars
  <2>1. UNCHANGED <<slots, write, merged, taken>> /\ InFlight' = InFlight
    BY <1>7 DEF vars, ringVars, InFlight
  <2> QED
    BY <1>0, <2>1, HandOnKeeps DEF KeptInv
<1> QED
  BY <1>0, <1>2, <1>3, <1>4, <1>5, <1>6, <1>7 DEF Next, Receiver, Recovery

\* With rings of any depth and a merged queue of any depth, an entry that waits
\* in a ring's queue, in the merger, in the merged queue or in the parser still
\* finds its packet in its slot, while the producer is less than a ring ahead
\* (receiver_thread.cpp:33-52, packet_ring.hpp:127-141).
THEOREM SlotsAreKept == Spec => []KeptWithinARing
<1>1. KeptInv => KeptWithinARing
  BY DEF KeptInv, Kept, KeptWithinARing
<1> QED
  BY <1>1, InitKept, NextKept, PTL DEF Spec
=============================================================================
