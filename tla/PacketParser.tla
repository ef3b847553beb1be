---------------------------- MODULE PacketParser ----------------------------
(***************************************************************************)
(* MoldUDP64Parser::parse (src/protocol/moldudp64_parser.cpp) and          *)
(* ItchParser::parse (src/protocol/itch_parser.cpp): from a datagram to    *)
(* the messages in it.                                                     *)
(*                                                                         *)
(* A datagram is its length, the message count of its header, and the      *)
(* blocks the sender laid out after the header: each a two-byte length,    *)
(* and as many bytes of payload that begin with the message type.  The     *)
(* length says how much of that arrived.  Of a message only the type is    *)
(* kept; its other fields do not steer the parser.                         *)
(***************************************************************************)
EXTENDS Integers, Sequences, SequencesExt, TLC

CONSTANTS
  MaxMsgs   \* MAX_MSGS_PER_PACKET

ASSUME MaxMsgsAssumption == MaxMsgs \in Nat \ {0}

HeaderLen == 20      \* sizeof(MoldUDP64Header)
BlockLen == 2        \* sizeof(MoldUDP64MessageBlock)
Heartbeat == 65535   \* MOLDUDP64_HEARTBEAT

be16(bytes) == bytes[1] * 256 + bytes[2]

\* The sizes of the wire structures of the types whose fields are decoded.
AdminSize == "S" :> 12 @@ "R" :> 39 @@ "H" :> 25 @@ "Y" :> 20

OrderSize ==
  "A" :> 36 @@ "F" :> 40 @@ "E" :> 31 @@ "C" :> 36 @@ "X" :> 23 @@ "D" :> 19
    @@ "U" :> 35 @@ "P" :> 44 @@ "Q" :> 40 @@ "B" :> 19 @@ "I" :> 50 @@ "N" :> 20

\* The types that are accepted as they are, at any length.
Discarded == {"L", "V", "W", "K", "J", "h"}

Decodes(sizes, type, len) == type \in DOMAIN sizes /\ len >= sizes[type]

DecodesOrder(type, len) == Decodes(OrderSize, type, len)

parse_message(type, len) ==
  \/ Decodes(AdminSize, type, len)
  \/ type \in Discarded
  \/ DecodesOrder(type, len)

MoldParse(pkt) ==
  [valid |-> pkt.length >= HeaderLen,
   heartbeat |-> pkt.count = Heartbeat,
   messages_length |->
     IF pkt.length < HeaderLen \/ pkt.count = Heartbeat
       THEN 0 ELSE pkt.length - HeaderLen]

\* A bug the properties must catch: a message that ends with the packet is
\* taken for one that is cut off.
TruncatedAtEnd(msg_len, remaining) == msg_len >= remaining - BlockLen

Truncated(msg_len, remaining) == msg_len > remaining - BlockLen

\* The walk along the blocks: it ends at the end of the packet, at a length of
\* zero, at a block that is cut off, or when the buffer is full.  A message
\* that is refused is stepped over.
ItchParse(pkt) ==
  LET walk[i \in 1 .. Len(pkt.blocks) + 1,
           remaining \in 0 .. pkt.length, count \in 0 .. MaxMsgs] ==
        IF i > Len(pkt.blocks) \/ remaining < BlockLen \/ count = MaxMsgs
          THEN <<>>
          ELSE LET block == pkt.blocks[i]
                   msg_len == be16(block.len)
               IN  IF msg_len = 0 \/ Truncated(msg_len, remaining)
                     THEN <<>>
                     ELSE LET rest(n) ==
                                walk[i + 1, remaining - (BlockLen + msg_len), n]
                          IN  IF parse_message(block.type, msg_len)
                                THEN <<block.type>> \o rest(count + 1)
                                ELSE rest(count)
  IN  walk[1, MoldParse(pkt).messages_length, 0]

(***************************************************************************)
(* What a packet carries, without walking it: the blocks that arrived      *)
(* whole, up to the first of length zero, as far as the types are known    *)
(* and long enough, and no more of them than the buffer holds.             *)
(***************************************************************************)
EndOf(pkt, i) ==
  HeaderLen + FoldSeq(LAMBDA b, sum : sum + BlockLen + be16(b.len), 0,
                      SubSeq(pkt.blocks, 1, i))

Arrived(pkt) ==
  {i \in DOMAIN pkt.blocks :
     /\ EndOf(pkt, i) <= pkt.length
     /\ \A j \in 1 .. i : be16(pkt.blocks[j].len) # 0}

Carried(pkt) ==
  LET whole == SelectSeq(SubSeq(pkt.blocks, 1, Cardinality(Arrived(pkt))),
                 LAMBDA b : parse_message(b.type, be16(b.len)))
  IN  IF pkt.count = Heartbeat
        THEN <<>>
        ELSE [i \in 1 .. (IF Len(whole) < MaxMsgs THEN Len(whole) ELSE MaxMsgs)
                |-> whole[i].type]
=============================================================================
