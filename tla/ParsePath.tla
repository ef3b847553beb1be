------------------------------ MODULE ParsePath ------------------------------
(***************************************************************************)
(* A packet from its slot to the shards' queues: SocketReceiver::recv and  *)
(* RecoveryThread fill slots, ParserThread::process_slot decodes them      *)
(* (PacketParser) and times each message with parse_lat_                   *)
(* (LatencyHistogram), whose percentiles the MetricsReporter prints.       *)
(* Sequence tracking and routing are in GapRecovery and SessionShards.     *)
(*                                                                         *)
(* ReceiverThread::run hands recv a PacketSlot as if it were a RawPacket.  *)
(* RawPacket is packed: its recv_timestamp_ns lies over the padding of     *)
(* PacketSlot, ahead of recv_ts.                                           *)
(***************************************************************************)
EXTENDS LatencyHistogram, PacketParser

CONSTANTS
  Packets,     \* the datagrams that are sent: count, blocks and length
  MaxPayload,  \* MAX_UDP_PAYLOAD
  Latencies,   \* the latencies that occur
  MaxPackets   \* bound: the number of packets received

ASSUME ParsePathAssumption ==
  MaxPayload \in Nat /\ Latencies \subseteq Nat /\ MaxPackets \in Nat

VARIABLES
  slot,     \* the slot being processed
  at,       \* where ParserThread is in process_slot
  msg_buf,  \* the messages still to be routed
  packets   \* the number of packets received

vars == <<histVars, slot, at, msg_buf, packets>>

Stamp == 1
EmptySlot == [pkt |-> [count |-> 0, blocks |-> <<>>, length |-> 0],
              pad |-> 0, recv_ts |-> 0]

Init ==
  /\ HistInit
  /\ slot = EmptySlot /\ at = "idle"
  /\ msg_buf = <<>> /\ packets = 0

\* recvmsg cuts a datagram to the size of data; the stamp goes where RawPacket
\* has it.
recv(pkt) ==
  [pkt |-> [pkt EXCEPT !.length = IF @ < MaxPayload THEN @ ELSE MaxPayload],
   pad |-> Stamp, recv_ts |-> 0]

\* inject_recovered_packet fills the members of a PacketSlot.
inject(pkt) ==
  [pkt |-> [pkt EXCEPT !.length = IF @ < MaxPayload THEN @ ELSE MaxPayload],
   pad |-> 0, recv_ts |-> Stamp]

Receive ==
  /\ at = "idle" /\ packets < MaxPackets
  /\ \E pkt \in Packets : slot' \in {recv(pkt), inject(pkt)}
  /\ at' = "taken" /\ packets' = packets + 1
  /\ UNCHANGED <<histVars, msg_buf>>

\* process_slot up to the loop over the messages.
Parse ==
  /\ at = "taken"
  /\ LET mold == MoldParse(slot.pkt)
     IN  msg_buf' = IF mold.valid /\ ~mold.heartbeat THEN ItchParse(slot.pkt)
                                                     ELSE <<>>
  /\ at' = "parsed"
  /\ UNCHANGED <<histVars, slot, packets>>

\* The top of the loop.  What is left of the slot is its stamp.  The latency is
\* taken unless there is no stamp or the two clocks disagree.
Measure ==
  /\ at \in {"parsed", "loop"} /\ rec.at = "idle"
  /\ slot' = [EmptySlot EXCEPT !.recv_ts = slot.recv_ts]
  /\ \/ /\ msg_buf = <<>>
        /\ at' = "idle"
        /\ UNCHANGED <<rec, msg_buf>>
     \/ /\ msg_buf # <<>>
        /\ at' = "measured"
        /\ UNCHANGED msg_buf
        /\ \/ slot.recv_ts > 0 /\ \E ns \in Latencies : record(ns)
           \/ UNCHANGED rec
  /\ UNCHANGED <<memory, rd, before, strayed, packets>>

Route ==
  /\ at = "measured" /\ rec.at = "idle"
  /\ msg_buf' = Tail(msg_buf)
  /\ at' = "loop"
  /\ UNCHANGED <<histVars, slot, packets>>

Next ==
  \/ Receive \/ Parse \/ Measure \/ Route
  \/ Recording /\ UNCHANGED <<slot, at, msg_buf, packets>>
  \/ Reporting /\ UNCHANGED <<slot, at, msg_buf, packets>>

Spec == Init /\ [][Next]_vars

-----------------------------------------------------------------------------
(***************************************************************************)
(* Properties.                                                             *)
(***************************************************************************)

\* A slot yields the messages its datagram carries, in order, each once: those
\* whose blocks arrived whole, however the datagram was cut, and none of a
\* heartbeat or of a packet shorter than its header (itch_parser.cpp:7-42).
ParsedAsCarried == at = "parsed" => msg_buf = Carried(slot.pkt)
=============================================================================
