-------------------------- MODULE SpscQueueProofs --------------------------
(***************************************************************************)
(* SpscQueue for every capacity, item set and number of pushes: the        *)
(* inductive invariant IInv, the safety properties that follow from it,    *)
(* and the refinement of BoundedFifo.                                      *)
(***************************************************************************)
EXTENDS SpscQueue, RingArithmetic, SequenceTheorems, TLAPS

\* A position has a slot ("& (Capacity - 1)" stays inside buffer_).
LEMMA SlotOfType ==
  ASSUME NEW p \in Nat
  PROVE  SlotOf(p) \in Slots
BY CapacityAssumption DEF SlotOf, Slots

\* Two positions less than Capacity apart have different slots.
LEMMA SlotOfDistinct ==
  ASSUME NEW p \in Nat, NEW q \in Nat, p < q, q < p + Capacity
  PROVE  SlotOf(p) # SlotOf(q)
BY CapacityAssumption, RemaindersDiffer DEF SlotOf

-----------------------------------------------------------------------------
(***************************************************************************)
(* Type correctness.                                                       *)
(***************************************************************************)

\* One step keeps the types.
LEMMA NextTypeOK == TypeOK /\ [Next]_vars => TypeOK'
<1> SUFFICES ASSUME TypeOK, [Next]_vars PROVE TypeOK'
  OBVIOUS
<1> USE SlotOfType, CapacityAssumption DEF TypeOK
<1>1. ASSUME NEW x \in Items, PushStart(x) PROVE TypeOK'
  BY <1>1 DEF PushStart, consumerVars
<1>2. CASE PushReload
  BY <1>2 DEF PushReload, consumerVars
<1>3. CASE PushWrite
  BY <1>3 DEF PushWrite, consumerVars
<1>4. CASE PushPublish
  BY <1>4 DEF PushPublish, consumerVars
<1>5. CASE SizeLoadWrite
  BY <1>5 DEF SizeLoadWrite, consumerVars
<1>6. CASE SizeLoadRead
  BY <1>6 DEF SizeLoadRead, consumerVars
<1>7. CASE SizeReturn
  BY <1>7 DEF SizeReturn, consumerVars
<1>8. CASE PopStart
  BY <1>8 DEF PopStart, producerVars
<1>9. CASE PopReload
  BY <1>9 DEF PopReload, producerVars
<1>10. CASE PopRead
  BY <1>10 DEF PopRead, producerVars
<1>11. CASE PopPublish
  BY <1>11 DEF PopPublish, producerVars
<1>12. CASE UNCHANGED vars
  BY <1>12 DEF vars, producerVars, consumerVars
<1> QED
  BY <1>1, <1>2, <1>3, <1>4, <1>5, <1>6, <1>7, <1>8, <1>9, <1>10, <1>11,
     <1>12 DEF Next, Producer, Consumer

\* Every variable of the queue keeps its type under every step of the two
\* threads; in particular every slot access stays inside buffer_.
THEOREM TypeCorrect == Spec => []TypeOK
<1>1. Init => TypeOK
  BY DEF Init, TypeOK
<1> QED
  BY <1>1, NextTypeOK, PTL DEF Spec

-----------------------------------------------------------------------------
(***************************************************************************)
(* The inductive invariant.                                                *)
(***************************************************************************)

\* A fresh queue satisfies the invariant.
LEMMA InitIInv == Init => IInv
BY CapacityAssumption
   DEF Init, IInv, TypeOK, PositionsInv, CachesAreSafe, ProducerInv,
       ConsumerInv, SizeInRange

\* One step of either thread preserves the invariant.  The only step that
\* writes a slot is PushWrite, and SlotOfDistinct keeps it away from the
\* slot the consumer may have copied from.
LEMMA NextIInv == IInv /\ [Next]_vars => IInv'
<1> SUFFICES ASSUME IInv, [Next]_vars PROVE IInv'
  OBVIOUS
<1>t. TypeOK'
  BY NextTypeOK DEF IInv
<1> USE CapacityAssumption
    DEF IInv, TypeOK, PositionsInv, CachesAreSafe, ProducerInv, ConsumerInv,
        SizeInRange
<1>1. ASSUME NEW x \in Items, PushStart(x) PROVE IInv'
  BY <1>1, <1>t DEF PushStart, consumerVars
<1>2. CASE PushReload
  BY <1>2, <1>t DEF PushReload, consumerVars
<1>3. CASE PushWrite
  <2>1. SlotOf(write_pos) \in Slots
    BY SlotOfType
  <2>2. buffer'[SlotOf(write_pos)] = pitem
    BY <2>1, <1>3 DEF PushWrite
  <2>3. cpc = "publish" => SlotOf(read_pos) # SlotOf(write_pos)
    BY SlotOfDistinct, <1>3 DEF PushWrite
  <2>4. cpc = "publish" => citem = buffer'[SlotOf(read_pos)]
    BY <2>1, <2>3, SlotOfType, <1>3 DEF PushWrite
  <2>5. (PositionsInv /\ SizeInRange)'
    BY <1>3 DEF PushWrite, consumerVars
  <2>6. ProducerInv'
    BY <2>2, <1>3 DEF PushWrite, consumerVars
  <2>7. ConsumerInv'
    BY <2>4, <1>3 DEF PushWrite, consumerVars
  <2> QED
    BY <1>t, <2>5, <2>6, <2>7
<1>4. CASE PushPublish
  BY <1>4, <1>t DEF PushPublish, consumerVars
<1>5. CASE SizeLoadWrite
  BY <1>5, <1>t DEF SizeLoadWrite, consumerVars
<1>6. CASE SizeLoadRead
  BY <1>6, <1>t DEF SizeLoadRead, consumerVars
<1>7. CASE SizeReturn
  BY <1>7, <1>t DEF SizeReturn, consumerVars
<1>8. CASE PopStart
  BY <1>8, <1>t DEF PopStart, producerVars
<1>9. CASE PopReload
  BY <1>9, <1>t DEF PopReload, producerVars
<1>10. CASE PopRead
  BY <1>10, <1>t DEF PopRead, producerVars
<1>11. CASE PopPublish
  BY <1>11, <1>t DEF PopPublish, producerVars
<1>12. CASE UNCHANGED vars
  BY <1>12, <1>t DEF vars, producerVars, consumerVars
<1> QED
  BY <1>1, <1>2, <1>3, <1>4, <1>5, <1>6, <1>7, <1>8, <1>9, <1>10, <1>11,
     <1>12 DEF Next, Producer, Consumer

\* The positions, the stale caches and the values in flight stay related
\* through every interleaving of try_push, size_approx and try_pop.
THEOREM Invariance == Spec => []IInv
BY InitIInv, NextIInv, PTL DEF Spec

-----------------------------------------------------------------------------
(***************************************************************************)
(* What follows from the invariant.                                        *)
(***************************************************************************)

\* The two non-atomic slot copies never touch the same slot at once.
THEOREM SlotRaceFreedom == Spec => []NoSlotRace
<1>1. IInv => NoSlotRace
  BY SlotOfDistinct, CapacityAssumption
     DEF IInv, TypeOK, PositionsInv, CachesAreSafe, ProducerInv, ConsumerInv,
         NoSlotRace
<1> QED
  BY <1>1, Invariance, PTL

\* The cached positions are always on the safe side.
THEOREM CacheSafety == Spec => []CachesAreSafe
<1>1. IInv => CachesAreSafe
  BY DEF IInv, PositionsInv
<1> QED
  BY <1>1, Invariance, PTL

\* size_approx never wraps when the producer calls it.
THEOREM SizeSafety == Spec => []SizeInRange
<1>1. IInv => SizeInRange
  BY DEF IInv
<1> QED
  BY <1>1, Invariance, PTL

\* A published item stays in its slot until the consumer has taken it.
LEMMA StepKeepsUnread ==
  ASSUME IInv, [Next]_vars, NEW p \in read_pos .. write_pos - 1
  PROVE  buffer'[SlotOf(p)] = buffer[SlotOf(p)]
<1> USE CapacityAssumption
    DEF IInv, TypeOK, PositionsInv, CachesAreSafe, ProducerInv
<1>1. CASE PushWrite
  <2>1. p \in Nat /\ p < write_pos /\ write_pos < p + Capacity
    BY <1>1 DEF PushWrite
  <2>2. SlotOf(p) # SlotOf(write_pos)
    BY <2>1, SlotOfDistinct
  <2>3. SlotOf(p) \in Slots /\ SlotOf(write_pos) \in Slots
    BY <2>1, SlotOfType
  <2> QED
    BY <2>2, <2>3, <1>1 DEF PushWrite
<1>2. CASE ~PushWrite
  <2>1. buffer' = buffer
    BY <1>2 DEF Next, Producer, Consumer, PushStart, PushReload, PushPublish,
        SizeLoadWrite, SizeLoadRead, SizeReturn, PopStart, PopReload, PopRead,
        PopPublish, vars
  <2> QED
    BY <2>1
<1> QED
  BY <1>1, <1>2

\* No step of either thread changes a published, unread slot.
THEOREM UnreadSafety == Spec => UnreadKept
<1>1. IInv /\ [Next]_vars
        => [\A p \in read_pos .. write_pos - 1 :
              buffer'[SlotOf(p)] = buffer[SlotOf(p)]]_vars
  BY StepKeepsUnread
<1> QED
  BY <1>1, Invariance, PTL DEF Spec, UnreadKept

-----------------------------------------------------------------------------
(***************************************************************************)
(* The ring implements an atomic bounded FIFO.  A push takes effect when   *)
(* write_pos_ is stored, a pop when read_pos_ is stored, and the answers   *)
(* "full" and "empty" when the other side's position is loaded.            *)
(***************************************************************************)

\* A function on 1 .. k is a sequence of length k.
LEMMA FunctionIsSeq ==
  ASSUME NEW k \in Nat, NEW f \in [1 .. k -> Items]
  PROVE  f \in Seq(Items) /\ Len(f) = k
  OBVIOUS

\* Contents is a sequence of items, as long as the positions are apart.
LEMMA ContentsType ==
  ASSUME IInv
  PROVE  /\ Contents \in Seq(Items)
         /\ Len(Contents) = write_pos - read_pos
<1> USE CapacityAssumption DEF IInv, TypeOK, PositionsInv
<1>1. write_pos - read_pos \in Nat
  OBVIOUS
<1>2. \A i \in 1 .. write_pos - read_pos : SlotOf(read_pos + i - 1) \in Slots
  BY SlotOfType
<1>3. Contents \in [1 .. write_pos - read_pos -> Items]
  BY <1>2 DEF Contents
<1> QED
  BY <1>1, <1>3 DEF Contents

\* A step that moves neither position leaves the queue as it was.
LEMMA ContentsStable ==
  ASSUME IInv, [Next]_vars, UNCHANGED <<write_pos, read_pos>>
  PROVE  Contents' = Contents
<1>1. \A i \in 1 .. write_pos - read_pos :
        buffer'[SlotOf(read_pos + i - 1)] = buffer[SlotOf(read_pos + i - 1)]
  <2> TAKE i \in 1 .. write_pos - read_pos
  <2>1. read_pos + i - 1 \in read_pos .. write_pos - 1
    BY DEF IInv, TypeOK
  <2> QED
    BY <2>1, StepKeepsUnread
<1> QED
  BY <1>1 DEF Contents, SlotOf

\* Storing write_pos_ appends the item that PushWrite left in its slot.
LEMMA PublishAppends ==
  ASSUME IInv, PushPublish
  PROVE  Contents' = Append(Contents, pitem)
<1> DEFINE n == write_pos - read_pos
           appended == Append(Contents, pitem)
<1>1. /\ write_pos \in Nat /\ read_pos \in Nat /\ read_pos <= write_pos
      /\ buffer \in [Slots -> Items] /\ pitem \in Items
      /\ buffer[SlotOf(write_pos)] = pitem
  BY DEF IInv, TypeOK, PositionsInv, CachesAreSafe, ProducerInv, PushPublish
<1>2. write_pos' = write_pos + 1 /\ read_pos' = read_pos /\ buffer' = buffer
  BY DEF PushPublish
<1>3. n \in Nat /\ n + 1 \in Nat /\ write_pos' - read_pos' = n + 1
  BY <1>1, <1>2
<1>4. Len(Contents) = n /\ Contents \in Seq(Items)
  BY ContentsType
<1>5. Contents' = [i \in 1 .. n + 1 |-> buffer[SlotOf(read_pos + i - 1)]]
  BY <1>2, <1>3 DEF Contents, SlotOf
<1>6. read_pos + (n + 1) - 1 = write_pos
  BY <1>1
<1> HIDE DEF n
<1>7. Len(Contents') = n + 1 /\ Contents' \in Seq(Items)
  <2>1. \A i \in 1 .. n + 1 : SlotOf(read_pos + i - 1) \in Slots
    BY <1>1, <1>3, SlotOfType
  <2>2. Contents' \in [1 .. n + 1 -> Items]
    BY <1>1, <1>5, <2>1
  <2> QED
    BY <1>3, <2>2, FunctionIsSeq
<1>8. /\ appended \in Seq(Items)
      /\ Len(appended) = n + 1
      /\ \A i \in 1 .. n : appended[i] = Contents[i]
      /\ appended[n + 1] = pitem
  BY <1>1, <1>4, AppendProperties
<1> HIDE DEF appended
<1>9. ASSUME NEW i \in 1 .. n + 1
      PROVE  Contents'[i] = appended[i]
  <2>1. CASE i = n + 1
    BY <2>1, <1>1, <1>5, <1>6, <1>8
  <2>2. CASE i # n + 1
    <3>1. i \in 1 .. n
      BY <2>2, <1>3
    <3>2. Contents[i] = buffer[SlotOf(read_pos + i - 1)]
      BY <3>1 DEF Contents, n
    <3> QED
      BY <3>1, <3>2, <1>5, <1>8
  <2> QED
    BY <2>1, <2>2
<1>10. Contents' = appended
  BY <1>7, <1>8, <1>9, SeqEqual
<1> QED
  BY <1>10 DEF appended

\* Storing read_pos_ removes the oldest item.
LEMMA TakeRemovesHead ==
  ASSUME IInv, PopPublish
  PROVE  /\ Contents # <<>>
         /\ Head(Contents) = citem
         /\ Contents' = Tail(Contents)
<1> DEFINE n == write_pos - read_pos
           rest == Tail(Contents)
<1>1. /\ write_pos \in Nat /\ read_pos \in Nat /\ read_pos < write_pos
      /\ buffer \in [Slots -> Items]
      /\ citem = buffer[SlotOf(read_pos)]
  BY DEF IInv, TypeOK, PositionsInv, CachesAreSafe, ConsumerInv, PopPublish
<1>2. write_pos' = write_pos /\ read_pos' = read_pos + 1 /\ buffer' = buffer
  BY DEF PopPublish
<1>3. n \in Nat /\ n - 1 \in Nat /\ write_pos' - read_pos' = n - 1
  BY <1>1, <1>2
<1>4. Len(Contents) = n /\ Contents \in Seq(Items)
  BY ContentsType
<1>5. Contents' = [i \in 1 .. n - 1 |-> buffer[SlotOf(read_pos + 1 + i - 1)]]
  BY <1>2, <1>3 DEF Contents, SlotOf
<1>6. Contents = [i \in 1 .. n |-> buffer[SlotOf(read_pos + i - 1)]]
  BY DEF Contents
<1> HIDE DEF n
<1>7. Len(Contents') = n - 1 /\ Contents' \in Seq(Items)
  <2>1. \A i \in 1 .. n - 1 : SlotOf(read_pos + 1 + i - 1) \in Slots
    BY <1>1, <1>3, SlotOfType
  <2>2. Contents' \in [1 .. n - 1 -> Items]
    BY <1>1, <1>5, <2>1
  <2> QED
    BY <1>3, <2>2, FunctionIsSeq
<1>8. Contents # <<>>
  BY <1>3, <1>4
<1>9. Head(Contents) = citem
  <2>1. Head(Contents) = Contents[1]
    BY <1>4, <1>8, HeadTailProperties
  <2>2. Contents[1] = buffer[SlotOf(read_pos + 1 - 1)]
    BY <1>3, <1>6
  <2>3. read_pos + 1 - 1 = read_pos
    BY <1>1
  <2> QED
    BY <1>1, <2>1, <2>2, <2>3
<1>10. /\ rest \in Seq(Items)
       /\ Len(rest) = n - 1
       /\ \A i \in 1 .. Len(rest) : rest[i] = Contents[i + 1]
  BY <1>4, <1>8, HeadTailProperties
<1> HIDE DEF rest
<1>11. ASSUME NEW i \in 1 .. n - 1
       PROVE  Contents'[i] = rest[i]
  <2>1. Contents[i + 1] = buffer[SlotOf(read_pos + (i + 1) - 1)]
    BY <1>3, <1>6
  <2>2. read_pos + 1 + i - 1 = read_pos + (i + 1) - 1
    BY <1>1, <1>3
  <2> QED
    BY <1>5, <1>10, <2>1, <2>2
<1>12. Contents' = rest
  BY <1>7, <1>10, <1>11, SeqEqual
<1> QED
  BY <1>8, <1>9, <1>12 DEF rest

\* The initial ring is the empty FIFO.
LEMMA InitRefines == Init => Fifo!FifoInit
<1> SUFFICES ASSUME Init PROVE Fifo!FifoInit
  OBVIOUS
<1>1. IInv
  BY InitIInv
<1>2. Contents = <<>>
  BY <1>1, ContentsType DEF Init
<1> QED
  BY <1>2 DEF Init, Fifo!FifoInit

\* Every step of the ring is a step of the FIFO or changes nothing of it.
LEMMA NextRefines ==
  ASSUME IInv, [Next]_vars
  PROVE  [Fifo!FifoNext]_(Fifo!fifoVars)
<1> USE CapacityAssumption
    DEF IInv, TypeOK, PositionsInv, CachesAreSafe, ProducerInv, ConsumerInv
<1>1. CASE PushPublish
  <2>1. Contents' = Append(Contents, pitem)
    BY <1>1, PublishAppends
  <2>2. Len(Contents) < Capacity
    BY <1>1, ContentsType DEF PushPublish
  <2>3. Fifo!Push(pitem)
    BY <2>1, <2>2, <1>1 DEF PushPublish, consumerVars, Fifo!Push
  <2> QED
    BY <2>3 DEF Fifo!FifoNext
<1>2. CASE PopPublish
  <2>1. Fifo!Pop
    BY <1>2, TakeRemovesHead DEF PopPublish, producerVars, Fifo!Pop
  <2> QED
    BY <2>1 DEF Fifo!FifoNext
<1>3. CASE PushReload
  <2>1. Contents' = Contents
    BY <1>3, ContentsStable DEF PushReload
  <2>2. CASE write_pos - read_pos >= Capacity
    <3>1. Len(Contents) = Capacity
      BY <2>2, ContentsType
    <3>2. Fifo!PushFull
      BY <2>1, <2>2, <3>1, <1>3 DEF PushReload, consumerVars, Fifo!PushFull
    <3> QED
      BY <3>2 DEF Fifo!FifoNext
  <2>3. CASE ~(write_pos - read_pos >= Capacity)
    BY <2>1, <2>3, <1>3 DEF PushReload, consumerVars, Fifo!fifoVars
  <2> QED
    BY <2>2, <2>3
<1>4. CASE PopReload
  <2>1. Contents' = Contents
    BY <1>4, ContentsStable DEF PopReload
  <2>2. CASE read_pos = write_pos
    <3>1. Contents = <<>>
      BY <2>2, ContentsType
    <3>2. Fifo!PopEmpty
      BY <2>1, <2>2, <3>1, <1>4 DEF PopReload, producerVars, Fifo!PopEmpty
    <3> QED
      BY <3>2 DEF Fifo!FifoNext
  <2>3. CASE read_pos # write_pos
    BY <2>1, <2>3, <1>4 DEF PopReload, producerVars, Fifo!fifoVars
  <2> QED
    BY <2>2, <2>3
<1>5. CASE ~(PushPublish \/ PopPublish \/ PushReload \/ PopReload)
  <2>1. UNCHANGED <<write_pos, read_pos, push_ret, pop_ret>>
    BY <1>5 DEF Next, Producer, Consumer, PushStart, PushWrite, SizeLoadWrite,
        SizeLoadRead, SizeReturn, PopStart, PopRead, vars, producerVars,
        consumerVars
  <2> QED
    BY <2>1, ContentsStable DEF Fifo!fifoVars
<1> QED
  BY <1>1, <1>2, <1>3, <1>4, <1>5

\* SpscQueue implements the atomic bounded FIFO its users rely on.
THEOREM Refinement == Spec => ImplementsFifo
<1>1. Init => Fifo!FifoInit
  BY InitRefines
<1>2. IInv /\ [Next]_vars => [Fifo!FifoNext]_(Fifo!fifoVars)
  BY NextRefines
<1> QED
  BY <1>1, <1>2, Invariance, PTL DEF Spec, ImplementsFifo, Fifo!FifoSpec
=============================================================================
