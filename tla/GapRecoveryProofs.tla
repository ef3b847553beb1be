------------------------- MODULE GapRecoveryProofs -------------------------
(***************************************************************************)
(* GapRecovery for every number of packets, any losses and delays, and     *)
(* every depth and size of the recovery path: the inductive invariant      *)
(* IInv, nothing passed over unreported, and a detector that never falls   *)
(* behind the tracker.                                                     *)
(***************************************************************************)
EXTENDS GapRecovery, RingArithmetic, SequenceTheorems, TLAPS

\* The number of a packet is one of the numbers there are.
LEMMA FirstType ==
  ASSUME NEW k \in Packets
  PROVE  /\ First(k) \in Seqs \ {0}
         /\ First(k) \in Messages(k)
<1> USE PacketsAssumption DEF Packets
<1> DEFINE lo == PerPacket * (k - 1)
           hi == PerPacket * MaxPackets
<1>1. k - 1 \in Nat /\ k - 1 < MaxPackets
  OBVIOUS
<1>2. hi >= lo + PerPacket
  BY <1>1, MultiplesApart
<1>3. lo \in Nat /\ hi \in Nat /\ (k - 1) * PerPacket = lo /\ MaxPackets * PerPacket = hi
  BY <1>1
<1> HIDE DEF lo, hi
<1> QED
  BY <1>2, <1>3 DEF First, Messages, Seqs

\* The three outcomes of try_advance.
LEMMA TryAdvance ==
  ASSUME TypeOK, NEW s \in Seqs
  PROVE  /\ s = tracker.seq + 1 => try_advance(s) = [tracker EXCEPT !.seq = s]
         /\ s > tracker.seq + 1 =>
              try_advance(s) = [seq |-> s, gaps |-> TRUE,
                                start |-> tracker.seq + 1, end |-> s - 1]
         /\ s <= tracker.seq => try_advance(s) = tracker
<1>1. tracker.seq \in Nat /\ s \in Nat
  BY PacketsAssumption DEF TypeOK, Seqs
<1>2. s = tracker.seq + 1 => ~(s > tracker.seq + 1)
  BY <1>1
<1>3. s <= tracker.seq => s # tracker.seq + 1 /\ ~(s > tracker.seq + 1)
  BY <1>1
<1> QED
  BY <1>1, <1>2, <1>3 DEF try_advance, InOrder

\* What the server answers is a sequence of packets.
LEMMA AnswerType ==
  ASSUME TypeOK, NEW g \in [Reads -> Seqs]
  PROVE  Answer(g) \in Seq(Packets)
<1> USE PacketsAssumption, BoundsAssumption
<1> DEFINE lo == IF g.from = 0 THEN 1 ELSE PacketOf(g.from)
           last == PacketOf(g.from + Count(g) - 1)
           hi == IF last <= sent THEN last ELSE sent
<1>1. g.from \in Nat /\ g.start \in Nat /\ g.end \in Nat
  BY DEF Reads, Seqs
<1>2. Count(g) \in Int
  BY <1>1 DEF Count
<1>3. \A m \in Int : PacketOf(m) \in Int /\ (m >= 1 => PacketOf(m) >= 1)
  BY DEF PacketOf
<1>4. lo \in Int /\ lo >= 1
  BY <1>1, <1>3
<1>5. last \in Int
  BY <1>1, <1>2, <1>3
<1>6. hi \in Int /\ hi <= MaxPackets
  BY <1>5 DEF TypeOK
<1>7. Answer(g) = [i \in 1 .. hi - lo + 1 |-> lo + i - 1]
  BY DEF Answer
<1> HIDE DEF lo, last, hi
<1>8. \A i \in 1 .. hi - lo + 1 : lo + i - 1 \in Packets
  BY <1>4, <1>6 DEF Packets
<1>9. CASE hi - lo + 1 \in Nat
  BY <1>7, <1>8, <1>9
<1>10. CASE hi - lo + 1 < 0
  <2>1. 1 .. hi - lo + 1 = {} /\ 1 .. 0 = {}
    BY <1>10, <1>4, <1>6
  <2>2. Answer(g) = [i \in 1 .. 0 |-> lo + i - 1]
    BY <2>1, <1>7
  <2> QED
    BY <2>1, <2>2
<1> QED
  BY <1>4, <1>6, <1>9, <1>10

-----------------------------------------------------------------------------
(***************************************************************************)
(* The parser's step.  threadRest, the recovery thread's and the network's *)
(* steps leave the tracker alone; only process_slot moves it.              *)
(***************************************************************************)

\* The facts of IInv about the tracker, the detector and what was reported.
GapInv ==
  /\ NothingSkipped
  /\ DetectorCurrent
  /\ tracker.gaps => tracker.start <= tracker.end /\ tracker.end < tracker.seq
  /\ detector.pending => tracker.gaps

\* A packet only adds to what was received.
LEMMA ReceivedGrows ==
  ASSUME TypeOK, NEW k \in Packets, process_slot(k)
  PROVE  Received \subseteq Received' /\ First(k) \in Received'
<1>1. routed' = [routed EXCEPT ![k] = IF @ = 2 THEN 2 ELSE @ + 1]
  BY DEF process_slot
<1>2. routed'[k] > 0 /\ \A j \in Packets : routed[j] > 0 => routed'[j] > 0
  BY <1>1 DEF TypeOK
<1>3. First(k) \in Messages(k)
  BY FirstType
<1> QED
  BY <1>2, <1>3 DEF Received

\* The parser's variables keep their types.
LEMMA ParserTypes ==
  ASSUME TypeOK, NEW k \in Packets, process_slot(k)
  PROVE  /\ tracker' \in [seq : Seqs, gaps : BOOLEAN, start : Seqs, end : Seqs]
         /\ detector' \in [pending : BOOLEAN, start : Seqs, end : Seqs, sent : BOOLEAN]
         /\ routed' \in [Packets -> 0 .. 2]
         /\ reported' \subseteq Seqs
<1> DEFINE s == First(k)
           t == try_advance(s)
<1>1. s \in Seqs /\ s \in Nat \ {0}
  BY FirstType, PacketsAssumption DEF Seqs
<1>2. /\ s = tracker.seq + 1 => t = [tracker EXCEPT !.seq = s]
      /\ s > tracker.seq + 1 => t = [seq |-> s, gaps |-> TRUE,
                                     start |-> tracker.seq + 1, end |-> s - 1]
      /\ s <= tracker.seq => t = tracker
  BY <1>1, TryAdvance
<1> HIDE DEF s, t
<1>3. t \in [seq : Seqs, gaps : BOOLEAN, start : Seqs, end : Seqs]
  <2>1. tracker.seq \in Nat /\ MaxPackets * PerPacket \in Nat
    BY PacketsAssumption DEF TypeOK, Seqs
  <2>2. CASE s = tracker.seq + 1
    BY <2>2, <1>1, <1>2 DEF TypeOK
  <2>3. CASE s > tracker.seq + 1
    <3>1. tracker.seq + 1 \in Seqs /\ s - 1 \in Seqs
      BY <2>1, <2>3, <1>1 DEF Seqs
    <3>2. t = [seq |-> s, gaps |-> TRUE, start |-> tracker.seq + 1, end |-> s - 1]
      BY <2>3, <1>2
    <3> QED
      BY <3>1, <3>2, <1>1
  <2>4. CASE s <= tracker.seq
    BY <2>4, <1>2 DEF TypeOK
  <2> QED
    BY <2>1, <2>2, <2>3, <2>4, <1>1
<1>4. 0 \in Seqs
  BY PacketsAssumption DEF Seqs
<1>5. /\ tracker' = t
      /\ detector' = IF InOrder(s) THEN mark_recovered(s)
                     ELSE IF t.gaps THEN on_gap(t) ELSE detector
      /\ reported' = IF ~InOrder(s) /\ t.gaps
                     THEN reported \cup (t.start .. t.end) ELSE reported
      /\ routed' = [routed EXCEPT ![k] = IF @ = 2 THEN 2 ELSE @ + 1]
  BY DEF process_slot, s, t
<1>6. detector' \in [pending : BOOLEAN, start : Seqs, end : Seqs, sent : BOOLEAN]
  BY <1>3, <1>4, <1>5 DEF mark_recovered, on_gap, NoGap, TypeOK
<1>7. t.start .. t.end \subseteq Seqs
  <2>1. t.start \in Nat /\ t.end \in Nat /\ t.end <= MaxPackets * PerPacket
    BY <1>3, PacketsAssumption DEF Seqs
  <2> QED
    BY <2>1, PacketsAssumption DEF Seqs
<1>8. reported' \subseteq Seqs
  BY <1>5, <1>7 DEF TypeOK
<1>9. routed' \in [Packets -> 0 .. 2]
  BY <1>5 DEF TypeOK
<1> QED
  BY <1>3, <1>5, <1>6, <1>8, <1>9

\* Handling a packet keeps the facts, whatever its number.
LEMMA ParserKeepsGapInv ==
  ASSUME TypeOK, GapInv, NEW k \in Packets, process_slot(k)
  PROVE  GapInv'
<1> DEFINE s == First(k)
           t == try_advance(s)
<1>1. s \in Seqs /\ s \in Nat \ {0}
  BY FirstType, PacketsAssumption DEF Seqs
<1>2. /\ s = tracker.seq + 1 => t = [tracker EXCEPT !.seq = s]
      /\ s > tracker.seq + 1 => t = [seq |-> s, gaps |-> TRUE,
                                     start |-> tracker.seq + 1, end |-> s - 1]
      /\ s <= tracker.seq => t = tracker
  BY <1>1, TryAdvance
<1>3. Received \subseteq Received' /\ s \in Received'
  BY ReceivedGrows
<1>4. /\ tracker' = t
      /\ detector' = IF s = tracker.seq + 1 THEN mark_recovered(s)
                     ELSE IF t.gaps THEN on_gap(t) ELSE detector
      /\ reported' = IF s # tracker.seq + 1 /\ t.gaps
                     THEN reported \cup (t.start .. t.end) ELSE reported
  BY DEF process_slot, InOrder
<1> HIDE DEF s, t
<1>5. /\ tracker \in [seq : Nat, gaps : BOOLEAN, start : Nat, end : Nat]
      /\ detector \in [pending : BOOLEAN, start : Nat, end : Nat, sent : BOOLEAN]
  BY PacketsAssumption DEF TypeOK, Seqs
<1>6. 1 .. tracker.seq \subseteq Received' \cup reported'
  BY <1>3, <1>4 DEF GapInv, NothingSkipped
<1>7. CASE s = tracker.seq + 1
  <2>1. tracker' = [tracker EXCEPT !.seq = s]
        /\ detector' = mark_recovered(s)
    BY <1>2, <1>4, <1>7
  <2>2. NothingSkipped'
    BY <2>1, <1>1, <1>3, <1>5, <1>6, <1>7 DEF NothingSkipped
  <2>3. tracker'.gaps => tracker'.start <= tracker'.end /\ tracker'.end < tracker'.seq
    BY <2>1, <1>5, <1>7 DEF GapInv
  <2>4. DetectorCurrent' /\ (detector'.pending => tracker'.gaps)
    <3>1. detector' = NoGap \/ detector' = detector
      BY <2>1 DEF mark_recovered
    <3> QED
      BY <3>1, <2>1, <1>5, <1>7 DEF GapInv, DetectorCurrent, NoGap
  <2> QED
    BY <2>2, <2>3, <2>4 DEF GapInv
<1>8. CASE s > tracker.seq + 1
  <2>0. t = [seq |-> s, gaps |-> TRUE, start |-> tracker.seq + 1, end |-> s - 1]
    BY <1>2, <1>8
  <2>1. /\ tracker' = [seq |-> s, gaps |-> TRUE,
                       start |-> tracker.seq + 1, end |-> s - 1]
        /\ detector' = [pending |-> TRUE, start |-> tracker.seq + 1, end |-> s - 1,
                        sent |-> FALSE]
        /\ reported' = reported \cup ((tracker.seq + 1) .. (s - 1))
    <3>1. s # tracker.seq + 1
      BY <1>1, <1>5, <1>8
    <3> QED
      BY <2>0, <3>1, <1>4 DEF on_gap
  <2>2. NothingSkipped'
    BY <2>1, <1>1, <1>3, <1>5, <1>6, <1>8 DEF NothingSkipped
  <2> QED
    BY <2>1, <2>2, <1>1, <1>5, <1>8 DEF GapInv, DetectorCurrent
<1>9. CASE s <= tracker.seq
  <2>1. /\ tracker' = tracker
        /\ detector' = IF tracker.gaps THEN on_gap(tracker) ELSE detector
    BY <1>1, <1>2, <1>4, <1>5, <1>9
  <2>2. NothingSkipped'
    BY <2>1, <1>6 DEF NothingSkipped
  <2> QED
    BY <2>1, <2>2, <1>5 DEF GapInv, DetectorCurrent, on_gap
<1> QED
  BY <1>1, <1>5, <1>7, <1>8, <1>9

-----------------------------------------------------------------------------
(***************************************************************************)
(* The invariant over every step.                                          *)
(***************************************************************************)

\* The queue and the stream when they are empty.
LEMMA EmptyType == <<>> \in Seq(Packets) /\ Len(<<>>) = 0
OBVIOUS

LEMMA InitIInv == Init => IInv
<1> SUFFICES ASSUME Init PROVE IInv
  OBVIOUS
<1>1. 0 \in Seqs
  BY PacketsAssumption DEF Seqs
<1>2. TypeOK
  <2>1. /\ tracker \in [seq : Seqs, gaps : BOOLEAN, start : Seqs, end : Seqs]
        /\ detector \in [pending : BOOLEAN, start : Seqs, end : Seqs, sent : BOOLEAN]
    BY <1>1 DEF Init, NoGap
  <2>2. gap \in [Reads -> Seqs] /\ routed \in [Packets -> 0 .. 2]
    BY <1>1 DEF Init
  <2>3. stream \in Seq(Packets) /\ recq \in Seq(Packets) /\ Len(recq) <= RecDepth
    BY EmptyType, BoundsAssumption DEF Init
  <2>4. /\ sent \in 0 .. MaxPackets /\ live \subseteq Packets
        /\ rpc = "poll" /\ unread \subseteq Reads /\ conn = "down"
        /\ reported \subseteq Seqs /\ faults \in 0 .. MaxFaults /\ failed \in BOOLEAN
    <3>1. 0 \in 0 .. MaxPackets /\ 0 \in 0 .. MaxFaults
      BY PacketsAssumption, BoundsAssumption
    <3>2. sent = 0 /\ live = {} /\ rpc = "poll" /\ unread = {} /\ conn = "down"
          /\ reported = {} /\ faults = 0 /\ failed = FALSE
      BY DEF Init
    <3> QED
      BY <3>1, <3>2
  <2> QED
    BY <2>1, <2>2, <2>3, <2>4 DEF TypeOK
<1>3. NothingSkipped /\ DetectorCurrent
  BY DEF Init, NothingSkipped, DetectorCurrent, NoGap
<1> QED
  BY <1>2, <1>3 DEF Init, IInv, NoGap

\* Whatever a step does, the variables keep their types.
LEMMA NextTypeOK == TypeOK /\ [Next]_vars => TypeOK'
<1> SUFFICES ASSUME TypeOK, [Next]_vars PROVE TypeOK'
  OBVIOUS
<1> USE PacketsAssumption, BoundsAssumption
<1>1. CASE Multicast
  BY <1>1 DEF Multicast, TypeOK, Packets, parserVars, threadVars
<1>2. ASSUME NEW k \in Packets, ParseLive(k) PROVE TypeOK'
  <2>1. process_slot(k)
    BY <1>2 DEF ParseLive
  <2> QED
    BY <1>2, <2>1, ParserTypes DEF ParseLive, TypeOK, threadVars
<1>3. CASE ParseRecovered
  <2>1. Head(recq) \in Packets /\ Tail(recq) \in Seq(Packets) /\ Len(Tail(recq)) <= RecDepth
    BY <1>3 DEF ParseRecovered, TypeOK
  <2>2. process_slot(Head(recq))
    BY <1>3 DEF ParseRecovered
  <2> QED
    BY <1>3, <2>1, <2>2, ParserTypes DEF ParseRecovered, TypeOK, threadVars
<1>4. CASE should_request_recovery
  BY <1>4 DEF should_request_recovery, TypeOK, threadRest, parserVars
<1>5. CASE NotDue
  BY <1>5 DEF NotDue, TypeOK, threadRest, parserVars
<1>6. CASE connect_to
  BY <1>6 DEF connect_to, TypeOK, threadRest, parserVars
<1>7. CASE ConnectFails
  BY <1>7 DEF ConnectFails, TypeOK, threadRest, parserVars
<1>8. CASE login
  <2>1. stream' \in Seq(Packets) /\ failed' \in BOOLEAN
    BY <1>8, EmptyType DEF login, ExitProcess, TypeOK
  <2> QED
    BY <1>8, <2>1 DEF login, ExitProcess, TypeOK, threadRest, parserVars
<1>9. ASSUME NEW result \in {"Accepted", "Rejected", "Error"}, recv_response(result)
      PROVE  TypeOK'
  <2>1. stream' \in Seq(Packets) /\ failed' \in BOOLEAN
    BY <1>9, EmptyType DEF recv_response, ExitProcess, TypeOK
  <2> QED
    BY <1>9, <2>1 DEF recv_response, ExitProcess, TypeOK, threadRest, parserVars
<1>10. ASSUME NEW f \in Reads, pending_gap(f) PROVE TypeOK'
  BY <1>10 DEF pending_gap, TypeOK, threadRest, parserVars
<1>11. CASE request
  <2>1. gap \in [Reads -> Seqs] /\ stream \in Seq(Packets)
    BY DEF TypeOK
  <2>2. stream \o Answer(gap) \in Seq(Packets)
    BY <2>1, AnswerType
  <2>3. stream' \in Seq(Packets) /\ failed' \in BOOLEAN /\ rpc' = "mark"
    BY <1>11, <2>1, <2>2 DEF request
  <2> QED
    BY <1>11, <2>3 DEF request, TypeOK, threadRest, parserVars
<1>12. CASE mark_recovery_sent
  BY <1>12 DEF mark_recovery_sent, TypeOK, threadRest, parserVars
<1>13. ASSUME NEW n \in 1 .. MaxChunk, inject_recovered_packet(n) PROVE TypeOK'
  <2>1. /\ n \in 1 .. Len(stream) /\ stream \in Seq(Packets)
        /\ recq \in Seq(Packets) /\ Len(recq) \in Nat /\ Len(recq) <= RecDepth
    BY <1>13 DEF inject_recovered_packet, TypeOK
  <2>2. SubSeq(stream, n + 1, Len(stream)) \in Seq(Packets)
    BY <2>1, SubSeqProperties
  <2>3. Head(stream) \in Packets
    BY <2>1
  <2>4. recq' \in Seq(Packets) /\ Len(recq') <= RecDepth
    <3>1. CASE Len(recq) < RecDepth
      BY <3>1, <2>1, <2>3, <1>13 DEF inject_recovered_packet
    <3>2. CASE ~(Len(recq) < RecDepth)
      BY <3>2, <2>1, <1>13 DEF inject_recovered_packet
    <3> QED
      BY <3>1, <3>2
  <2>5. stream' \in Seq(Packets) /\ failed' \in BOOLEAN
    BY <2>2, <1>13 DEF inject_recovered_packet
  <2> QED
    BY <1>13, <2>4, <2>5 DEF inject_recovered_packet, TypeOK, threadRest, parserVars, threadVars
<1>14. CASE RecvDone
  BY <1>14 DEF RecvDone, TypeOK, threadRest, parserVars
<1>15. CASE disconnect
  BY <1>15 DEF disconnect, TypeOK, threadRest, parserVars
<1>16. CASE ServerGone
  <2>1. stream' \in Seq(Packets) /\ failed' \in BOOLEAN
    BY <1>16, EmptyType DEF ServerGone, TypeOK
  <2> QED
    BY <1>16, <2>1 DEF ServerGone, TypeOK, threadRest, parserVars, threadVars
<1>17. CASE UNCHANGED vars
  BY <1>17 DEF vars, TypeOK, parserVars, threadVars
<1> QED
  BY <1>1, <1>2, <1>3, <1>4, <1>5, <1>6, <1>7, <1>8, <1>9, <1>10, <1>11, <1>12,
     <1>13, <1>14, <1>15, <1>16, <1>17
     DEF Next, Parser, Recovery

\* Only the parser moves the tracker, and only mark_recovery_sent touches the
\* detector besides it, to set its sent flag.
LEMMA OthersLeaveGapAlone ==
  ASSUME TypeOK, [Next]_vars
  PROVE  \/ \E k \in Packets : process_slot(k)
         \/ /\ UNCHANGED <<tracker, routed, reported>>
            /\ detector' \in {detector, [detector EXCEPT !.sent = TRUE]}
<1>1. ASSUME ParseRecovered PROVE \E k \in Packets : process_slot(k)
  <2>1. Head(recq) \in Packets
    BY <1>1 DEF ParseRecovered, TypeOK
  <2> QED
    BY <1>1, <2>1 DEF ParseRecovered
<1>2. ASSUME NEW k \in Packets, ParseLive(k) PROVE process_slot(k)
  BY <1>2 DEF ParseLive
<1>3. ASSUME Recovery
      PROVE  /\ UNCHANGED <<tracker, routed, reported>>
             /\ detector' \in {detector, [detector EXCEPT !.sent = TRUE]}
  BY <1>3 DEF Recovery, should_request_recovery, NotDue, connect_to, ConnectFails,
    login, recv_response, pending_gap, request, mark_recovery_sent,
    inject_recovered_packet, RecvDone, disconnect, threadRest, parserVars
<1>4. ASSUME Multicast \/ ServerGone \/ UNCHANGED vars
      PROVE  UNCHANGED <<tracker, routed, reported, detector>>
  BY <1>4 DEF Multicast, ServerGone, vars, threadRest, parserVars
<1> QED
  BY <1>1, <1>2, <1>3, <1>4 DEF Next, Parser

LEMMA NextIInv == IInv /\ [Next]_vars => IInv'
<1> SUFFICES ASSUME IInv, [Next]_vars PROVE IInv'
  OBVIOUS
<1>1. TypeOK /\ TypeOK' /\ GapInv
  BY NextTypeOK DEF IInv, GapInv
<1>2. ASSUME NEW k \in Packets, process_slot(k) PROVE GapInv'
  BY <1>1, <1>2, ParserKeepsGapInv
<1>3. ASSUME UNCHANGED <<tracker, routed, reported>>,
             detector' \in {detector, [detector EXCEPT !.sent = TRUE]}
      PROVE  GapInv'
  <2>1. /\ detector'.pending = detector.pending
        /\ detector'.start = detector.start /\ detector'.end = detector.end
    BY <1>1, <1>3 DEF TypeOK
  <2>2. Received' = Received
    BY <1>3 DEF Received
  <2> QED
    BY <1>1, <1>3, <2>1, <2>2 DEF GapInv, NothingSkipped, DetectorCurrent
<1>4. GapInv'
  BY <1>1, <1>2, <1>3, OthersLeaveGapAlone
<1> QED
  BY <1>1, <1>4 DEF IInv, GapInv

\* The inductive invariant of gap detection, whatever is lost, late, or sent
\* again.
THEOREM Invariance == Spec => []IInv
BY InitIInv, NextIInv, PTL DEF Spec

\* For any number of packets of any size, every number up to the tracker's own
\* was received or was handed to the detector (sequence_tracker.cpp:16-32,
\* parser_thread.cpp:72-75).
THEOREM NothingIsSkipped == Spec => []NothingSkipped
<1>1. IInv => NothingSkipped
  BY DEF IInv
<1> QED
  BY <1>1, Invariance, PTL

\* For any number of packets of any size, a pending gap is the last one the
\* tracker saw (parser_thread.cpp:61-75, gap_detector.cpp:7-24).
THEOREM DetectorIsCurrent == Spec => []DetectorCurrent
<1>1. IInv => DetectorCurrent
  BY DEF IInv
<1> QED
  BY <1>1, Invariance, PTL
=============================================================================
