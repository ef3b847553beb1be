----------------------------- MODULE SpscQueue -----------------------------
(***************************************************************************)
(* The lock-free single-producer single-consumer ring queue that carries   *)
(* every packet index, message and sequence record between two threads     *)
(* (include/concurrency/spsc_queue.hpp).                                   *)
(*                                                                         *)
(* Each step is one access to memory the other thread can touch: a load or *)
(* store of write_pos_ / read_pos_, or a copy to or from a buffer slot.    *)
(* The stores that publish a position are release and the loads that       *)
(* refresh a cached position are acquire, so interleaving these steps is   *)
(* what the C++ memory model allows.  Positions are 64-bit counters that   *)
(* never wrap in practice and are natural numbers here; Capacity is a      *)
(* power of two in the code, which makes "& (Capacity - 1)" the remainder. *)
(***************************************************************************)
EXTENDS Integers, Sequences

CONSTANTS
  Items,     \* the values that can be queued
  Capacity,  \* the number of slots in the buffer
  MaxPos     \* bound: the producer publishes at most this many items

ASSUME CapacityAssumption == Capacity \in Nat \ {0}
ASSUME MaxPosAssumption == MaxPos \in Nat
ASSUME ItemsAssumption == Items # {}

VARIABLES
  write_pos,     \* next position the producer fills (atomic)
  read_pos,      \* next position the consumer takes (atomic)
  cached_read,   \* the producer's stale copy of read_pos
  cached_write,  \* the consumer's stale copy of write_pos
  buffer,        \* the Capacity slots
  ppc,           \* where the producer is in try_push / size_approx
  pitem,         \* the argument of the try_push under way
  size_arg,      \* the first position loaded by the size_approx under way
  size_ret,      \* the last answer of size_approx
  push_ret,      \* the last answer of try_push
  cpc,           \* where the consumer is in try_pop
  citem,         \* the item the try_pop under way has copied out
  pop_ret        \* the last answer of try_pop: <<item>>, or <<>> for false

producerVars == <<ppc, pitem, size_arg, size_ret, push_ret, cached_read>>
consumerVars == <<cpc, citem, pop_ret, cached_write>>
vars == <<write_pos, read_pos, buffer, producerVars, consumerVars>>

Slots == 0 .. Capacity - 1
SlotOf(pos) == pos % Capacity

TypeOK ==
  /\ write_pos \in Nat /\ read_pos \in Nat
  /\ cached_read \in Nat /\ cached_write \in Nat
  /\ buffer \in [Slots -> Items]
  /\ ppc \in {"idle", "reload", "write", "publish", "size_w", "size_r"}
  /\ pitem \in Items
  /\ size_arg \in Nat
  /\ size_ret \in Int
  /\ push_ret \in {"ok", "full"}
  /\ cpc \in {"idle", "reload", "read", "publish"}
  /\ citem \in Items
  /\ pop_ret \in {<<>>} \cup {<<x>> : x \in Items}

\* buffer_ is not initialised by the constructor: its first contents are
\* arbitrary, as are those of locals that no call has set yet.
Init ==
  /\ write_pos = 0 /\ read_pos = 0
  /\ cached_read = 0 /\ cached_write = 0
  /\ buffer \in [Slots -> Items]
  /\ ppc = "idle" /\ pitem \in Items /\ push_ret = "ok"
  /\ size_arg = 0 /\ size_ret = 0
  /\ cpc = "idle" /\ citem \in Items /\ pop_ret = <<>>

(***************************************************************************)
(* try_push, run by the producer.                                          *)
(***************************************************************************)

\* Entry: the full test against the cached read position.
PushStart(x) ==
  /\ ppc = "idle"
  /\ write_pos < MaxPos
  /\ pitem' = x
  /\ ppc' = IF write_pos - cached_read >= Capacity THEN "reload" ELSE "write"
  /\ UNCHANGED <<write_pos, read_pos, buffer, size_arg, size_ret, push_ret,
                 cached_read, consumerVars>>

\* A bug the properties must catch: the full test is off by one.
PushReloadOffByOne ==
  /\ ppc = "reload"
  /\ cached_read' = read_pos
  /\ IF write_pos - read_pos > Capacity
       THEN ppc' = "idle" /\ push_ret' = "full"
       ELSE ppc' = "write" /\ UNCHANGED push_ret
  /\ UNCHANGED <<write_pos, read_pos, buffer, pitem, size_arg, size_ret,
                 consumerVars>>

\* The cache says full: load read_pos_, keep it, test again.
PushReload ==
  /\ ppc = "reload"
  /\ cached_read' = read_pos
  /\ IF write_pos - read_pos >= Capacity
       THEN ppc' = "idle" /\ push_ret' = "full"
       ELSE ppc' = "write" /\ UNCHANGED push_ret
  /\ UNCHANGED <<write_pos, read_pos, buffer, pitem, size_arg, size_ret,
                 consumerVars>>

PushWrite ==
  /\ ppc = "write"
  /\ buffer' = [buffer EXCEPT ![SlotOf(write_pos)] = pitem]
  /\ ppc' = "publish"
  /\ UNCHANGED <<write_pos, read_pos, pitem, size_arg, size_ret, push_ret,
                 cached_read, consumerVars>>

PushPublish ==
  /\ ppc = "publish"
  /\ write_pos' = write_pos + 1
  /\ push_ret' = "ok"
  /\ ppc' = "idle"
  /\ UNCHANGED <<read_pos, buffer, pitem, size_arg, size_ret, cached_read,
                 consumerVars>>

(***************************************************************************)
(* size_approx and is_pressure_high, which only producers call: two loads  *)
(* and a subtraction.  C++ does not fix the order of the two loads.        *)
(***************************************************************************)
SizeLoadWrite ==
  /\ ppc = "idle"
  /\ size_arg' = write_pos
  /\ ppc' = "size_w"
  /\ UNCHANGED <<write_pos, read_pos, buffer, pitem, size_ret, push_ret,
                 cached_read, consumerVars>>

SizeLoadRead ==
  /\ ppc = "idle"
  /\ size_arg' = read_pos
  /\ ppc' = "size_r"
  /\ UNCHANGED <<write_pos, read_pos, buffer, pitem, size_ret, push_ret,
                 cached_read, consumerVars>>

SizeReturn ==
  /\ \/ ppc = "size_w" /\ size_ret' = size_arg - read_pos
     \/ ppc = "size_r" /\ size_ret' = write_pos - size_arg
  /\ ppc' = "idle"
  /\ UNCHANGED <<write_pos, read_pos, buffer, pitem, size_arg, push_ret,
                 cached_read, consumerVars>>

(***************************************************************************)
(* try_pop, run by the consumer.                                           *)
(***************************************************************************)

\* A bug the properties must catch: no empty test before the copy.
PopStartUntested ==
  /\ cpc = "idle"
  /\ cpc' = "read"
  /\ UNCHANGED <<write_pos, read_pos, buffer, producerVars, citem, pop_ret,
                 cached_write>>

PopStart ==
  /\ cpc = "idle"
  /\ cpc' = IF read_pos = cached_write THEN "reload" ELSE "read"
  /\ UNCHANGED <<write_pos, read_pos, buffer, producerVars, citem, pop_ret,
                 cached_write>>

\* A bug the properties must catch: the cached position is never refreshed.
PopReloadStale ==
  /\ cpc = "reload"
  /\ IF read_pos = cached_write
       THEN cpc' = "idle" /\ pop_ret' = <<>>
       ELSE cpc' = "read" /\ UNCHANGED pop_ret
  /\ UNCHANGED <<write_pos, read_pos, buffer, producerVars, citem,
                 cached_write>>

PopReload ==
  /\ cpc = "reload"
  /\ cached_write' = write_pos
  /\ IF read_pos = write_pos
       THEN cpc' = "idle" /\ pop_ret' = <<>>
       ELSE cpc' = "read" /\ UNCHANGED pop_ret
  /\ UNCHANGED <<write_pos, read_pos, buffer, producerVars, citem>>

PopRead ==
  /\ cpc = "read"
  /\ citem' = buffer[SlotOf(read_pos)]
  /\ cpc' = "publish"
  /\ UNCHANGED <<write_pos, read_pos, buffer, producerVars, pop_ret,
                 cached_write>>

PopPublish ==
  /\ cpc = "publish"
  /\ read_pos' = read_pos + 1
  /\ pop_ret' = <<citem>>
  /\ cpc' = "idle"
  /\ UNCHANGED <<write_pos, buffer, producerVars, citem, cached_write>>

Producer ==
  \/ \E x \in Items : PushStart(x)
  \/ PushReload \/ PushWrite \/ PushPublish
  \/ SizeLoadWrite \/ SizeLoadRead \/ SizeReturn

Consumer == PopStart \/ PopReload \/ PopRead \/ PopPublish

Next == Producer \/ Consumer

Spec == Init /\ [][Next]_vars

\* Every consumer of a SpscQueue calls try_pop in an endless loop.
FairSpec == Spec /\ WF_vars(Consumer)

-----------------------------------------------------------------------------
(***************************************************************************)
(* Properties.                                                             *)
(***************************************************************************)

\* The items between the two positions, oldest first.
Contents ==
  [i \in 1 .. write_pos - read_pos |-> buffer[SlotOf(read_pos + i - 1)]]

Fifo == INSTANCE BoundedFifo WITH queue <- Contents

\* try_push and try_pop on the ring, with their stale cached positions,
\* implement an atomic bounded FIFO: nothing is lost, duplicated or
\* reordered, and "full" and "empty" are never answered wrongly.
ImplementsFifo == Fifo!FifoSpec

\* The producer and the consumer are never inside the same buffer slot at
\* once: the non-atomic copies of spsc_queue.hpp:32 and :47 never race.
NoSlotRace ==
  ppc \in {"write", "publish"} /\ cpc \in {"read", "publish"}
    => SlotOf(write_pos) # SlotOf(read_pos)

\* Stale cached positions err only on the safe side: the producer's copy
\* never runs ahead of read_pos_, the consumer's never ahead of write_pos_.
CachesAreSafe ==
  /\ cached_read <= read_pos /\ read_pos <= cached_write
  /\ cached_write <= write_pos /\ write_pos <= cached_read + Capacity

\* size_approx, whichever position it loads first, answers a number between
\* 0 and Capacity when the producer asks: the subtraction never wraps.
SizeInRange == size_ret \in 0 .. Capacity

\* No step changes a slot whose item has been published and not yet taken.
UnreadKept ==
  [][\A p \in read_pos .. write_pos - 1 :
        buffer'[SlotOf(p)] = buffer[SlotOf(p)]]_vars

\* Every item that is published is eventually taken, as long as the
\* consumer keeps polling.
Drained == \A n \in 1 .. MaxPos : write_pos >= n ~> read_pos >= n

(***************************************************************************)
(* The inductive invariant behind them.                                    *)
(***************************************************************************)
PositionsInv ==
  /\ read_pos <= write_pos /\ write_pos <= read_pos + Capacity
  /\ CachesAreSafe

ProducerInv ==
  /\ ppc \in {"write", "publish"} => write_pos < cached_read + Capacity
  /\ ppc = "publish" => buffer[SlotOf(write_pos)] = pitem
  /\ ppc = "size_w" => size_arg = write_pos
  /\ ppc = "size_r" => size_arg <= read_pos /\ write_pos <= size_arg + Capacity

ConsumerInv ==
  /\ cpc \in {"read", "publish"} => read_pos < cached_write
  /\ cpc = "publish" => citem = buffer[SlotOf(read_pos)]

IInv == TypeOK /\ PositionsInv /\ ProducerInv /\ ConsumerInv /\ SizeInRange
=============================================================================
