---------------------------- MODULE GapRecovery ----------------------------
(***************************************************************************)
(* Gap detection and recovery: SequenceTracker and GapDetector as the      *)
(* parser thread drives them (src/workers/parser_thread.cpp), the recovery *)
(* thread that asks a server for what is missing                           *)
(* (src/workers/recovery_thread.cpp, src/recovery/retransmit_client.cpp),  *)
(* and the queue that carries the answers back to the parser.              *)
(*                                                                         *)
(* The exchange numbers messages and multicasts them PerPacket to a        *)
(* packet; a packet's sequence number is that of its first message.  Live  *)
(* packets may be lost and late; the feed merger forwards each at most     *)
(* once.  A packet forwarded before another was injected is still ahead of *)
(* it, so the parser meets the two streams in any interleaving.            *)
(*                                                                         *)
(* The detector is shared by the two threads without a lock.  The parser   *)
(* handles a packet in one step; the recovery thread holds a reference to  *)
(* the gap while it connects and logs in, and then reads it three times:   *)
(* the end and the start for the count, and the start once more for the    *)
(* request.  Each read is a step of its own, in any order, which yields    *)
(* every mixture of old and new values the unsynchronised reads may yield. *)
(***************************************************************************)
EXTENDS Integers, Sequences

CONSTANTS
  MaxPackets,   \* bound: the packets the exchange multicasts
  PerPacket,    \* messages per packet
  Losable,      \* the packets the network may lose
  Late,         \* the packets that may arrive after younger ones
  MaxCount,     \* the largest count of one request, UINT16_MAX in the code
  RecDepth,     \* RECOVERY_RING_DEPTH
  MaxChunk,     \* how many packets of the stream one recv may return together
  MaxStream,    \* bound: the answers in the TCP stream when a gap is requested
  RequireLogin, \* creds_.require_login
  HasSecondary, \* a secondary server is configured
  MaxFaults     \* bound: connection and login failures

Packets == 1 .. MaxPackets

ASSUME PacketsAssumption == MaxPackets \in Nat /\ PerPacket \in Nat \ {0}
ASSUME NetworkAssumption == Losable \subseteq Packets /\ Late \subseteq Packets
ASSUME BoundsAssumption ==
  /\ MaxCount \in Nat \ {0}
  /\ RecDepth \in Nat \ {0}
  /\ MaxChunk \in Nat \ {0}
  /\ MaxStream \in Nat
  /\ RequireLogin \in BOOLEAN /\ HasSecondary \in BOOLEAN
  /\ MaxFaults \in Nat

VARIABLES
  sent,       \* the packets multicast so far
  live,       \* the live packets that have arrived and are not yet parsed
  tracker,    \* SequenceTracker: seq_, gap_count_ > 0, last_gap_start_ and _end_
  detector,   \* GapDetector: pending_, gap_
  rpc,        \* where the recovery thread is, or "exited": the process is gone
  gap,        \* what it read of the pending gap: start and end for the count,
              \* from for the request
  unread,     \* the reads it still has to make
  conn,       \* the connection: "down", "up", or "gone" (fd_ open, peer gone)
  stream,     \* the packets the server has sent that are not yet received
  recq,       \* recovery_queue, the slots' packets in place of their indices
  routed,     \* how often each packet was handed to the shards: 0, 1 or more
  reported,   \* the sequence numbers ever handed to on_gap (history)
  faults,     \* the connection and login failures so far
  failed      \* a request or an answer was cut, lost, or marked for another
              \* gap (history)

threadVars == <<rpc, gap, unread>>
parserVars == <<tracker, routed, reported>>
vars == <<sent, live, parserVars, detector, threadVars, conn, stream, recq, faults, failed>>

First(k) == (k - 1) * PerPacket + 1
Messages(k) == First(k) .. First(k) + PerPacket - 1
Received == UNION {Messages(k) : k \in {j \in Packets : routed[j] > 0}}

Seqs == 0 .. MaxPackets * PerPacket
Reads == {"start", "end", "from"}
NoGap == [pending |-> FALSE, start |-> 0, end |-> 0, sent |-> FALSE]

TypeOK ==
  /\ sent \in 0 .. MaxPackets
  /\ live \subseteq Packets
  /\ tracker \in [seq : Seqs, gaps : BOOLEAN, start : Seqs, end : Seqs]
  /\ detector \in [pending : BOOLEAN, start : Seqs, end : Seqs, sent : BOOLEAN]
  /\ rpc \in {"poll", "primary", "secondary", "login", "reply", "copy",
              "request", "mark", "recv", "exited"}
  /\ gap \in [Reads -> Seqs]
  /\ unread \subseteq Reads
  /\ conn \in {"down", "up", "gone"}
  /\ stream \in Seq(Packets)
  /\ recq \in Seq(Packets) /\ Len(recq) <= RecDepth
  /\ routed \in [Packets -> 0 .. 2]
  /\ reported \subseteq Seqs
  /\ faults \in 0 .. MaxFaults
  /\ failed \in BOOLEAN

Init ==
  /\ sent = 0 /\ live = {}
  /\ tracker = [seq |-> 0, gaps |-> FALSE, start |-> 0, end |-> 0]
  /\ detector = NoGap
  /\ rpc = "poll" /\ gap = [f \in Reads |-> 0] /\ unread = {}
  /\ conn = "down" /\ stream = <<>> /\ recq = <<>>
  /\ routed = [k \in Packets |-> 0]
  /\ reported = {} /\ faults = 0
  /\ failed = FALSE

-----------------------------------------------------------------------------
(* The exchange and the network. *)

Multicast ==
  /\ sent < MaxPackets
  /\ sent' = sent + 1
  /\ live' \in {live \cup {sent + 1}} \cup {live : k \in Losable \cap {sent + 1}}
  /\ UNCHANGED <<parserVars, detector, threadVars, conn, stream, recq,
                 faults, failed>>

-----------------------------------------------------------------------------
(* The parser thread. *)

InOrder(s) == s = tracker.seq + 1

\* A bug the properties must catch: a gap of one packet passes for in order.
try_advance_tolerant(s) ==
  CASE s \in {tracker.seq + 1, tracker.seq + 2} -> [tracker EXCEPT !.seq = s]
    [] s > tracker.seq + 2 -> [seq |-> s, gaps |-> TRUE,
                               start |-> tracker.seq + 1, end |-> s - 1]
    [] OTHER -> tracker

\* A bug the properties must catch: the gap is taken to start at the packet
\* before it.
try_advance_off_by_one(s) ==
  CASE InOrder(s) -> [tracker EXCEPT !.seq = s]
    [] s > tracker.seq + 1 -> [seq |-> s, gaps |-> TRUE,
                               start |-> tracker.seq, end |-> s - 1]
    [] OTHER -> tracker

\* The tracker after a packet numbered s.  A gap is recorded and jumped over;
\* a number at or below seq leaves everything but a counter alone.
try_advance(s) ==
  CASE InOrder(s) -> [tracker EXCEPT !.seq = s]
    [] s > tracker.seq + 1 -> [seq |-> s, gaps |-> TRUE,
                               start |-> tracker.seq + 1, end |-> s - 1]
    [] OTHER -> tracker

\* A bug the properties must catch: a gap that is pending is not replaced.
on_gap_first_only(t) ==
  IF detector.pending
  THEN [detector EXCEPT !.sent = FALSE]
  ELSE [pending |-> TRUE, start |-> t.start, end |-> t.end, sent |-> FALSE]

on_gap(t) ==
  [pending |-> TRUE, start |-> t.start, end |-> t.end, sent |-> FALSE]

mark_recovered(s) ==
  IF detector.pending /\ s >= detector.end THEN NoGap ELSE detector

\* A packet that is not in order is taken for a gap whenever there has ever
\* been one, and the last gap is handed to the detector (again).  Whatever
\* its number, the packet's messages are routed.
process_slot(k) ==
  LET s == First(k)
      t == try_advance(s)
  IN  /\ tracker' = t
      /\ detector' = IF InOrder(s) THEN mark_recovered(s)
                     ELSE IF t.gaps THEN on_gap(t) ELSE detector
      /\ reported' = IF ~InOrder(s) /\ t.gaps
                     THEN reported \cup (t.start .. t.end) ELSE reported
      /\ routed' = [routed EXCEPT ![k] = IF @ = 2 THEN 2 ELSE @ + 1]

ParseLive(k) ==
  /\ rpc # "exited" /\ k \in live
  /\ k \in Late \/ \A j \in live : k <= j
  /\ live' = live \ {k}
  /\ process_slot(k)
  /\ UNCHANGED <<sent, threadVars, conn, stream, recq, faults, failed>>

ParseRecovered ==
  /\ rpc # "exited" /\ recq # <<>>
  /\ recq' = Tail(recq)
  /\ process_slot(Head(recq))
  /\ UNCHANGED <<sent, live, threadVars, conn, stream, faults, failed>>

-----------------------------------------------------------------------------
(* The recovery thread: handle_recovery, then recv_retransmitted, for ever. *)

threadRest == <<sent, live, parserVars>>

\* A pending gap is requested when its timeout has passed and it is not
\* marked sent, on the connection there is or on a new one.
should_request_recovery ==
  /\ rpc = "poll"
  /\ detector.pending /\ ~detector.sent
  /\ Len(stream) <= MaxStream
  /\ rpc' = IF conn = "down" THEN "primary" ELSE "copy"
  /\ unread' = Reads
  /\ UNCHANGED <<threadRest, detector, gap, conn, stream, recq, faults, failed>>

\* No gap is pending, it was requested already, or its timeout has not passed.
NotDue ==
  /\ rpc = "poll"
  /\ rpc' = "recv"
  /\ UNCHANGED <<threadRest, detector, gap, unread, conn, stream, recq,
                 faults, failed>>

\* A server accepts the TCP connection.
connect_to ==
  /\ rpc \in {"primary", "secondary"}
  /\ conn' = "up"
  /\ rpc' = IF RequireLogin THEN "login" ELSE "copy"
  /\ UNCHANGED <<threadRest, detector, gap, unread, stream, recq, faults, failed>>

\* A server cannot be reached: connect tries the secondary after the primary,
\* and after that handle_recovery returns.
ConnectFails ==
  /\ rpc \in {"primary", "secondary"}
  /\ faults < MaxFaults /\ faults' = faults + 1
  /\ rpc' = IF rpc = "primary" /\ HasSecondary THEN "secondary" ELSE "recv"
  /\ UNCHANGED <<threadRest, detector, gap, unread, conn, stream, recq, failed>>

\* exit(1), in the recovery thread: every thread of the process is gone.
ExitProcess ==
  /\ rpc' = "exited"
  /\ conn' = "down" /\ stream' = <<>>
  /\ failed' = TRUE

\* The login request goes out, or the peer is gone and it does not.
login ==
  /\ rpc = "login"
  /\ \/ rpc' = "reply" /\ UNCHANGED <<conn, stream, failed>>
     \/ conn = "gone" /\ ExitProcess
  /\ UNCHANGED <<threadRest, detector, gap, unread, recq, faults>>

\* The answer to it: accepted; or rejected, unreadable, of another type, or
\* not there within five seconds, none of which login tells apart.
recv_response(result) ==
  /\ rpc = "reply"
  /\ \/ /\ result = "Accepted"
        /\ rpc' = "copy"
        /\ UNCHANGED <<conn, stream, faults, failed>>
     \/ /\ result \in {"Rejected", "Error"}
        /\ faults < MaxFaults \/ conn = "gone"
        /\ faults' = IF conn = "gone" THEN faults ELSE faults + 1
        /\ ExitProcess
  /\ UNCHANGED <<threadRest, detector, gap, unread, recq>>

pending_gap(f) ==
  /\ rpc = "copy" /\ f \in unread
  /\ gap' = [gap EXCEPT ![f] = detector[IF f = "end" THEN "end" ELSE "start"]]
  /\ unread' = unread \ {f}
  /\ rpc' = IF unread = {f} THEN "request" ELSE "copy"
  /\ UNCHANGED <<threadRest, detector, conn, stream, recq, faults, failed>>

\* A bug the properties must catch: the last packet of a gap is not counted.
CountShort(g) ==
  IF g.end >= g.start /\ g.end - g.start <= MaxCount
  THEN g.end - g.start
  ELSE MaxCount

\* end_seq - start_seq + 1 is unsigned, so a range that ends before it starts
\* (a mixture of two gaps) counts as a huge one.
Count(g) ==
  IF g.end + 1 >= g.start /\ g.end - g.start + 1 <= MaxCount
  THEN g.end - g.start + 1
  ELSE MaxCount

\* The packet that holds message m.
PacketOf(m) == (m - 1) \div PerPacket + 1

\* The server answers with the packets that hold the messages asked for, as
\* far as they exist.
Answer(g) ==
  LET lo == IF g.from = 0 THEN 1 ELSE PacketOf(g.from)
      last == PacketOf(g.from + Count(g) - 1)
      hi == IF last <= sent THEN last ELSE sent
  IN  [i \in 1 .. hi - lo + 1 |-> lo + i - 1]

\* What request returns is ignored, so a request on a dead connection counts
\* as one that was made.
request ==
  /\ rpc = "request"
  /\ IF conn = "up"
     THEN stream' = stream \o Answer(gap)
     ELSE UNCHANGED stream
  /\ failed' = (failed \/ conn # "up" \/ gap.end - gap.start >= MaxCount)
  /\ rpc' = "mark"
  /\ UNCHANGED <<threadRest, detector, gap, unread, conn, recq, faults>>

mark_recovery_sent ==
  /\ rpc = "mark"
  /\ detector' = [detector EXCEPT !.sent = TRUE]
  /\ failed' = (failed \/ gap # [start |-> detector.start, end |-> detector.end,
                                    from |-> detector.start])
  /\ rpc' = "recv"
  /\ UNCHANGED <<threadRest, gap, unread, conn, stream, recq, faults>>

\* recv reads a byte stream: what it returns may hold several packets, and
\* only the header of the first is ever looked at.  A packet that finds
\* recovery_queue full is dropped.
inject_recovered_packet(n) ==
  /\ rpc = "recv" /\ conn # "down"
  /\ n <= Len(stream)
  /\ recq' = IF Len(recq) < RecDepth THEN Append(recq, Head(stream)) ELSE recq
  /\ stream' = SubSeq(stream, n + 1, Len(stream))
  /\ failed' = (failed \/ n > 1 \/ Len(recq) = RecDepth)
  /\ UNCHANGED <<threadRest, detector, threadVars, conn, faults>>

\* Not connected, nothing there yet, an error, or the sixty-fourth packet.
RecvDone ==
  /\ rpc = "recv"
  /\ rpc' = "poll"
  /\ UNCHANGED <<threadRest, detector, gap, unread, conn, stream, recq,
                 faults, failed>>

\* The end of the stream: recv closes the connection.
disconnect ==
  /\ rpc = "recv" /\ conn = "gone" /\ stream = <<>>
  /\ conn' = "down" /\ rpc' = "poll"
  /\ UNCHANGED <<threadRest, detector, gap, unread, stream, recq, faults, failed>>

\* The server closes or resets the connection; a reset loses what is in it.
ServerGone ==
  /\ conn = "up"
  /\ faults < MaxFaults /\ faults' = faults + 1
  /\ conn' = "gone"
  /\ stream' \in {stream, <<>>}
  /\ failed' = (failed \/ stream' # stream)
  /\ UNCHANGED <<threadRest, detector, threadVars, recq>>

-----------------------------------------------------------------------------
Parser == ParseRecovered \/ \E k \in Packets : ParseLive(k)

Recovery ==
  \/ should_request_recovery \/ NotDue
  \/ connect_to \/ ConnectFails
  \/ login \/ \E result \in {"Accepted", "Rejected", "Error"} : recv_response(result)
  \/ \E f \in Reads : pending_gap(f)
  \/ request \/ mark_recovery_sent
  \/ \E n \in 1 .. MaxChunk : inject_recovered_packet(n)
  \/ RecvDone \/ disconnect

Next == Multicast \/ Parser \/ Recovery \/ ServerGone

Spec == Init /\ [][Next]_vars

\* The parser and the recovery thread keep running.  The timeout of a gap
\* passes at last, and what the server sent arrives at last, at some poll of
\* the recovery thread; between two polls neither need be so, hence the
\* strong fairness.
FairSpec ==
  /\ Spec
  /\ WF_vars(Parser) /\ WF_vars(Recovery)
  /\ SF_vars(should_request_recovery)
  /\ SF_vars(\E n \in 1 .. MaxChunk : inject_recovered_packet(n))

-----------------------------------------------------------------------------
(* Properties. *)

\* Every sequence number up to the tracker's own was received, or lies in a
\* gap that was handed to the GapDetector: try_advance jumps over nothing
\* that on_gap is not told of (src/protocol/sequence_tracker.cpp:16-32,
\* src/workers/parser_thread.cpp:72-75).
NothingSkipped == 1 .. tracker.seq \subseteq Received \cup reported

\* The detector never falls behind the tracker: a pending gap is the last gap
\* the tracker saw, and lies below the tracker's sequence number
\* (parser_thread.cpp:61-75, gap_detector.cpp:7-24).
DetectorCurrent ==
  detector.pending =>
    /\ detector.start = tracker.start /\ detector.end = tracker.end
    /\ detector.start <= detector.end /\ detector.end < tracker.seq

\* What a step needs to preserve the two: the last gap lies below the tracker's
\* sequence number, and the detector has a gap only if the tracker has.
IInv ==
  /\ TypeOK
  /\ NothingSkipped
  /\ DetectorCurrent
  /\ tracker.gaps => tracker.start <= tracker.end /\ tracker.end < tracker.seq
  /\ detector.pending => tracker.gaps

\* A packet that the pending gap covers is at last received, unless the gap is
\* replaced or cleared first, or one of the ways to fail that `failed' lists was
\* met: a connection that cannot be made is made at last, and nothing else on
\* the way from the request to the parser loses it
\* (recovery_thread.cpp:79-133, packet_ring.hpp:156-184).
GapHealed ==
  \A k \in Packets :
    First(k) \in detector.start .. detector.end ~>
      \/ First(k) \in Received \/ First(k) \notin detector.start .. detector.end
      \/ failed

\* "first missing sequence number" and "last missing sequence number
\* (inclusive)" (sequence_tracker.hpp:9-10): a gap, when it is recorded, covers
\* only messages that were not received.
GapsAreMissing ==
  [][tracker'.seq > tracker.seq + 1
       => (tracker'.start .. tracker'.end) \cap Received = {}]_vars

=============================================================================
