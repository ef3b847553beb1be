---------------------------- MODULE MC_ParsePath ----------------------------
(***************************************************************************)
(* ParsePath for TLC: up to four blocks of every kind the walk tells      *)
(* apart, sent whole, a byte short, or as little more than a header.       *)
(***************************************************************************)
EXTENDS ParsePath

Block(type, len) == [type |-> type, len |-> <<len \div 256, len % 256>>]

Blocks ==
  {Block("S", 12), Block("S", 11), Block("D", 25), Block("L", 1),
   Block("?", 300), Block("S", 0)}

BlockSeqs == UNION {[1 .. n -> Blocks] : n \in 0 .. 4}

Lengths(blocks) ==
  LET end == EndOf([blocks |-> blocks], Len(blocks))
  IN  {HeaderLen - 1, HeaderLen + 1, end - 1, end}

MC_Packets ==
  UNION {[count : {Len(b)}, blocks : {b}, length : Lengths(b)] : b \in BlockSeqs}
    \cup [count : {Heartbeat}, blocks : {<<Block("S", 12)>>}, length : {20, 34}]
=============================================================================
