--------------------------- MODULE SeqLockProofs ---------------------------
(***************************************************************************)
(* SeqLock with one writer, for every set of readers, every number of      *)
(* words and every even modulus of seq_: the inductive invariant IInv, no  *)
(* torn reads, and the refinement of AtomicRegister.                       *)
(***************************************************************************)
EXTENDS SeqLock, RingArithmetic, TLAPS

\* The modulus as the remainder lemmas want it.
LEMMA SeqModType == SeqMod \in Nat \ {0} /\ SeqMod % 2 = 0
BY SeqModAssumption

\* Advancing a wrapped counter by d is advancing it before it wraps.
LEMMA WrappedAdvance ==
  ASSUME NEW c \in Nat, NEW d \in Nat
  PROVE  (((2 * c) % SeqMod) + d) % SeqMod = (2 * c + d) % SeqMod
<1>1. 2 * c \in Nat
  OBVIOUS
<1> QED
  BY <1>1, SeqModType, AddToRemainder

\* The types hold whatever the number of writers.
LEMMA NextTypeOK == TypeOK /\ [Next]_vars => TypeOK'
<1> SUFFICES ASSUME TypeOK, [Next]_vars PROVE TypeOK'
  OBVIOUS
<1> USE SeqModAssumption, MaxStoresAssumption DEF TypeOK, Versions, Snapshots
<1>1. ASSUME NEW w \in Writers, StoreBegin(w) PROVE TypeOK'
  BY <1>1 DEF StoreBegin, readerVars
<1>2. ASSUME NEW w \in Writers, NEW i \in Words, StoreWord(w, i) PROVE TypeOK'
  BY <1>2 DEF StoreWord, readerVars
<1>3. ASSUME NEW w \in Writers, StoreEnd(w) PROVE TypeOK'
  BY <1>3 DEF StoreEnd, readerVars
<1>4. ASSUME NEW r \in Readers, LoadBegin(r) PROVE TypeOK'
  BY <1>4 DEF LoadBegin, writerVars
<1>5. ASSUME NEW r \in Readers, LoadSeq1(r) PROVE TypeOK'
  BY <1>5 DEF LoadSeq1, writerVars
<1>6. ASSUME NEW r \in Readers, NEW i \in Words, LoadWord(r, i) PROVE TypeOK'
  BY <1>6 DEF LoadWord, writerVars
<1>7. ASSUME NEW r \in Readers, LoadSeq2(r) PROVE TypeOK'
  BY <1>7 DEF LoadSeq2, writerVars
<1>8. CASE UNCHANGED vars
  BY <1>8 DEF vars, writerVars, readerVars
<1> QED
  BY <1>1, <1>2, <1>3, <1>4, <1>5, <1>6, <1>7, <1>8 DEF Next, Copying, Loading

\* Every variable of the slot keeps its type, with any number of writers.
THEOREM TypeCorrect == Spec => []TypeOK
<1>1. Init => TypeOK
  BY SeqModAssumption, MaxStoresAssumption DEF Init, TypeOK, Versions, Snapshots
<1> QED
  BY <1>1, NextTypeOK, PTL DEF Spec

-----------------------------------------------------------------------------
(***************************************************************************)
(* The invariant of a slot with one writer.                                *)
(***************************************************************************)

\* A fresh slot satisfies it.
LEMMA InitIInv == Init => IInv
<1> SUFFICES ASSUME Init PROVE IInv
  OBVIOUS
<1>1. TypeOK
  BY SeqModAssumption, MaxStoresAssumption DEF Init, TypeOK, Versions, Snapshots
<1>2. ~Storing
  BY DEF Init, Storing
<1>3. 0 % SeqMod = 0
  BY SeqModAssumption
<1> QED
  BY <1>1, <1>2, <1>3
     DEF Init, IInv, CounterInv, Ticks, WriterInv, RestInv, ReaderInv, NoTornRead

\* What seq2 = seq1 tells a reader: no store has begun since seq1 was loaded,
\* and its copy is the committed snapshot.
LEMMA UnchangedSeqMeansCommitted ==
  ASSUME IInv, NEW r \in Readers, rpc[r] = "copy", rleft[r] = {}, seq1[r] = seq
  PROVE  ~Storing /\ \A i \in Words : value[r][i] = committed
<1>0. CounterInv /\ ReaderInv
  BY DEF IInv
<1>1. /\ since[r] \in Nat /\ committed \in Nat /\ stores \in Nat
      /\ since[r] <= committed
      /\ 2 * (stores - since[r]) < SeqMod
  BY <1>0, MaxStoresAssumption DEF IInv, TypeOK, Versions, ReaderInv
<1>2. SeqMod \in Nat \ {0}
  BY SeqModType
<1>same. (2 * since[r]) % SeqMod = Ticks % SeqMod
  BY <1>0 DEF ReaderInv, CounterInv
<1>3. ASSUME Storing PROVE FALSE
  <2>1. Ticks = 2 * committed + 1 /\ stores = committed + 1
    BY <1>0, <1>3 DEF CounterInv, Ticks
  <2>2. \A s, c \in Nat : 2 * ((c + 1) - s) < SeqMod /\ s <= c
                           => 2 * s < 2 * c + 1 /\ 2 * c + 1 < 2 * s + SeqMod
    BY <1>2
  <2>3. 2 * since[r] < Ticks /\ Ticks < 2 * since[r] + SeqMod
    BY <2>1, <2>2, <1>1
  <2>4. 2 * since[r] \in Nat /\ Ticks \in Nat
    BY <2>1, <1>1
  <2> QED
    BY <2>3, <2>4, <1>same, <1>2, RemaindersDiffer
<1>4. committed = since[r]
  <2>1. Ticks = 2 * committed /\ stores = committed
    BY <1>0, <1>1, <1>3 DEF CounterInv, Ticks
  <2>2. 2 * since[r] \in Nat /\ Ticks \in Nat
    BY <2>1, <1>1
  <2>3. \A s, c \in Nat : 2 * (c - s) < SeqMod /\ s <= c
                           => 2 * c < 2 * s + SeqMod /\ 2 * s <= 2 * c
    BY <1>2
  <2>4. Ticks < 2 * since[r] + SeqMod /\ 2 * since[r] <= Ticks
    BY <2>1, <2>3, <1>1
  <2>5. ~(2 * since[r] < Ticks)
    BY <2>2, <2>4, <1>same, <1>2, RemaindersDiffer
  <2> QED
    BY <2>1, <2>2, <2>4, <2>5, <1>1
<1>5. stores = since[r]
  BY <1>0, <1>1, <1>3, <1>4 DEF CounterInv
<1> QED
  BY <1>0, <1>3, <1>4, <1>5 DEF ReaderInv

\* One step keeps the invariant.  The delicate ones are StoreBegin, which
\* must leave every reader able to notice it, and LoadSeq2.
LEMMA NextIInv ==
  ASSUME SingleWriter, IInv, [Next]_vars
  PROVE  IInv'
<1>type. TypeOK /\ TypeOK'
  BY NextTypeOK DEF IInv
<1>nat. /\ committed \in Nat /\ stores \in Nat
        /\ \A r \in Readers : since[r] \in Nat
  BY <1>type, MaxStoresAssumption DEF TypeOK, Versions
<1>count. CounterInv
  BY DEF IInv
<1>write. WriterInv
  BY DEF IInv
<1>rest. RestInv
  BY DEF IInv
<1>read. ReaderInv
  BY DEF IInv
<1>torn. NoTornRead
  BY DEF IInv
<1>still. ASSUME UNCHANGED <<seq, data, stores, committed, wpc, wseq, wval, wleft>>
          PROVE  CounterInv' /\ WriterInv' /\ RestInv'
  <2>1. Storing' = Storing
    BY <1>still DEF Storing
  <2>2. CounterInv'
    BY <2>1, <1>still, <1>count DEF CounterInv, Ticks
  <2>3. WriterInv'
    BY <1>still, <1>write DEF WriterInv
  <2>4. RestInv'
    BY <2>1, <1>still, <1>rest DEF RestInv
  <2> QED
    BY <2>2, <2>3, <2>4
<1>1. ASSUME NEW w \in Writers, StoreBegin(w) PROVE IInv'
  <2>1. ~Storing
    BY <1>1 DEF StoreBegin, SingleWriter, Storing
  <2>2. Storing'
    BY <1>1, <1>type DEF StoreBegin, Storing, TypeOK
  <2>3. /\ stores' = stores + 1 /\ committed' = committed /\ data' = data
        /\ seq' = (seq + 1) % SeqMod /\ UNCHANGED readerVars
    BY <1>1 DEF StoreBegin
  <2>4. stores = committed /\ seq = (2 * committed) % SeqMod
    BY <2>1, <1>nat, <1>count DEF CounterInv, Ticks
  <2>5. CounterInv'
    <3>1. (((2 * committed) % SeqMod) + 1) % SeqMod = (2 * committed + 1) % SeqMod
      BY <1>nat, WrappedAdvance
    <3>2. seq' = (2 * committed' + 1) % SeqMod
      BY <3>1, <2>3, <2>4
    <3> QED
      BY <3>2, <2>2, <2>3, <2>4 DEF CounterInv, Ticks
  <2>6. WriterInv'
    <3>1. \A v \in Writers : v = w
      BY DEF SingleWriter
    <3>2. /\ wval'[w] = stores' /\ wseq'[w] = (2 * committed') % SeqMod
          /\ wleft'[w] = Words
      BY <1>1, <1>type, <2>3, <2>4 DEF StoreBegin, TypeOK
    <3>3. \A i \in Words : data'[i] = committed'
      BY <2>1, <2>3, <1>rest DEF RestInv
    <3> QED
      BY <3>1, <3>2, <3>3 DEF WriterInv
  <2>7. RestInv'
    BY <2>2 DEF RestInv
  <2>8. ReaderInv'
    <3> SUFFICES ASSUME NEW r \in Readers, rpc'[r] = "copy"
                 PROVE  /\ since'[r] <= committed'
                        /\ seq1'[r] = (2 * since'[r]) % SeqMod
                        /\ 2 * (stores' - since'[r]) < SeqMod
                        /\ stores' # since'[r]
      BY DEF ReaderInv
    <3>1. rpc[r] = "copy" /\ since' = since /\ seq1' = seq1
      BY <2>3 DEF readerVars
    <3>2. since[r] <= committed /\ seq1[r] = (2 * since[r]) % SeqMod
      BY <3>1, <1>read DEF ReaderInv
    <3>3. 2 * (stores + 1 - since[r]) < SeqMod
      BY <3>1, <1>1 DEF StoreBegin, NoWrapWhileReading
    <3>4. stores + 1 # since[r]
      BY <3>2, <2>4, <1>nat
    <3>5. /\ since'[r] = since[r] /\ seq1'[r] = seq1[r]
          /\ committed' = committed /\ stores' = stores + 1
      BY <3>1, <2>3
    <3>6. 2 * (stores' - since'[r]) < SeqMod
      BY <3>3, <3>5, <1>nat, SeqModAssumption
    <3>7. since'[r] <= committed' /\ seq1'[r] = (2 * since'[r]) % SeqMod
      BY <3>2, <3>5
    <3>8. stores' # since'[r]
      BY <3>4, <3>5
    <3> QED
      BY <3>6, <3>7, <3>8
  <2>9. NoTornRead'
    BY <2>3, <1>torn DEF readerVars, NoTornRead
  <2> QED
    BY <1>type, <2>5, <2>6, <2>7, <2>8, <2>9 DEF IInv
<1>2. ASSUME NEW w \in Writers, NEW i \in Words, StoreWord(w, i) PROVE IInv'
  <2>1. UNCHANGED <<seq, stores, committed, wpc, wseq, wval, readerVars>>
    BY <1>2 DEF StoreWord
  <2>2. Storing /\ Storing'
    BY <1>2, <2>1 DEF StoreWord, Storing
  <2>3. CounterInv'
    BY <2>1, <2>2, <1>count DEF CounterInv, Ticks
  <2>4. WriterInv'
    <3>1. \A v \in Writers : v = w
      BY DEF SingleWriter
    <3>2. /\ wval[w] = stores /\ wseq[w] = (2 * committed) % SeqMod
          /\ \A j \in Words : data[j] = IF j \in wleft[w] THEN committed ELSE stores
      BY <1>2, <1>write DEF WriterInv, StoreWord
    <3>3. \A j \in Words : data'[j] = IF j \in wleft'[w] THEN committed ELSE stores
      BY <3>2, <1>2, <1>type DEF StoreWord, TypeOK, Snapshots
    <3> QED
      BY <3>1, <3>2, <3>3, <2>1 DEF WriterInv
  <2>5. RestInv'
    BY <2>2 DEF RestInv
  <2>6. ReaderInv'
    BY <2>1, <1>read DEF ReaderInv, readerVars
  <2>7. NoTornRead'
    BY <2>1, <1>torn DEF readerVars, NoTornRead
  <2> QED
    BY <1>type, <2>3, <2>4, <2>5, <2>6, <2>7 DEF IInv
<1>3. ASSUME NEW w \in Writers, StoreEnd(w) PROVE IInv'
  <2>1. /\ wpc[w] = "copy" /\ wleft[w] = {} /\ committed' = wval[w]
        /\ seq' = (wseq[w] + 2) % SeqMod
        /\ UNCHANGED <<data, stores, readerVars>>
    BY <1>3 DEF StoreEnd
  <2>2. Storing
    BY <2>1 DEF Storing
  <2>3. ~Storing' /\ \A v \in Writers : wpc'[v] # "copy"
    BY <1>3, <1>type DEF StoreEnd, Storing, SingleWriter, TypeOK
  <2>4. /\ stores = committed + 1
        /\ wval[w] = stores /\ wseq[w] = (2 * committed) % SeqMod
        /\ \A i \in Words : data[i] = stores
    BY <2>1, <2>2, <1>count, <1>write DEF CounterInv, WriterInv
  <2>5. committed' = committed + 1 /\ stores' = committed'
    BY <2>1, <2>4
  <2>6. CounterInv'
    <3>1. (((2 * committed) % SeqMod) + 2) % SeqMod = (2 * committed + 2) % SeqMod
      BY <1>nat, WrappedAdvance
    <3>2. 2 * committed + 2 = 2 * committed'
      BY <2>5, <1>nat
    <3>3. seq' = (2 * committed') % SeqMod
      BY <3>1, <3>2, <2>1, <2>4
    <3>4. committed' \in Nat
      BY <2>5, <1>nat
    <3> QED
      BY <3>3, <3>4, <2>3, <2>5 DEF CounterInv, Ticks
  <2>7. WriterInv'
    BY <2>3 DEF WriterInv
  <2>8. RestInv'
    BY <2>1, <2>4 DEF RestInv
  <2>9. ReaderInv'
    <3>1. UNCHANGED <<rpc, since, seq1, rleft, value, stores>>
      BY <2>1 DEF readerVars
    <3>2. \A r \in Readers : since[r] <= committed => since[r] <= committed'
      BY <2>5, <1>nat
    <3> QED
      BY <3>1, <3>2, <1>read DEF ReaderInv
  <2>10. NoTornRead'
    BY <2>1, <1>torn DEF readerVars, NoTornRead
  <2> QED
    BY <1>type, <2>6, <2>7, <2>8, <2>9, <2>10 DEF IInv
<1>4. ASSUME NEW r \in Readers, LoadBegin(r) PROVE IInv'
  <2>1. UNCHANGED <<seq, data, stores, committed, wpc, wseq, wval, wleft, since,
                    seq1, rleft, value, ret>>
    BY <1>4 DEF LoadBegin, writerVars
  <2>2. \A q \in Readers : rpc'[q] = "copy" => rpc[q] = "copy"
    BY <1>4, <1>type DEF LoadBegin, TypeOK
  <2>3. ReaderInv'
    BY <2>1, <2>2, <1>read DEF ReaderInv
  <2>4. NoTornRead'
    BY <2>1, <1>torn DEF NoTornRead
  <2> QED
    BY <1>type, <1>still, <2>1, <2>3, <2>4 DEF IInv
<1>5. ASSUME NEW r \in Readers, LoadSeq1(r) PROVE IInv'
  <2>1. UNCHANGED <<seq, data, stores, committed, wpc, wseq, wval, wleft, value, ret>>
    BY <1>5 DEF LoadSeq1, writerVars
  <2>2. ReaderInv'
    <3> SUFFICES ASSUME NEW q \in Readers, rpc'[q] = "copy"
                 PROVE  /\ since'[q] <= committed'
                        /\ seq1'[q] = (2 * since'[q]) % SeqMod
                        /\ 2 * (stores' - since'[q]) < SeqMod
                        /\ stores' = since'[q] =>
                             \A i \in Words \ rleft'[q] : value'[q][i] = since'[q]
      BY DEF ReaderInv
    <3>1. CASE q = r
      <4>1. /\ seq % 2 # 1 /\ rleft'[r] = Words
            /\ seq1'[r] = seq /\ since'[r] = stores
        BY <3>1, <1>5, <1>type DEF LoadSeq1, TypeOK
      <4>2. ~Storing
        <5>1. SUFFICES ASSUME Storing PROVE FALSE
          OBVIOUS
        <5>2. seq = (2 * committed + 1) % SeqMod
          BY <5>1, <1>count DEF CounterInv, Ticks
        <5>3. 2 * committed + 1 \in Nat /\ (2 * committed + 1) % 2 = 1
          BY <1>nat
        <5>4. seq % 2 = (2 * committed + 1) % 2
          BY <5>2, <5>3, SeqModType, EvenModulusKeepsParity
        <5> QED
          BY <5>3, <5>4, <4>1
      <4>3. stores = committed /\ seq = (2 * committed) % SeqMod
        BY <4>2, <1>nat, <1>count DEF CounterInv, Ticks
      <4>4. stores - stores = 0 /\ 2 * 0 < SeqMod /\ committed <= committed
        BY <1>nat, SeqModAssumption
      <4> QED
        BY <3>1, <4>1, <4>3, <4>4, <2>1
    <3>2. CASE q # r
      <4>1. /\ rpc[q] = "copy" /\ since'[q] = since[q] /\ seq1'[q] = seq1[q]
            /\ rleft'[q] = rleft[q]
        BY <3>2, <1>5, <1>type DEF LoadSeq1, TypeOK
      <4> QED
        BY <4>1, <2>1, <1>read DEF ReaderInv
    <3> QED
      BY <3>1, <3>2
  <2>3. NoTornRead'
    BY <2>1, <1>torn DEF NoTornRead
  <2> QED
    BY <1>type, <1>still, <2>1, <2>2, <2>3 DEF IInv
<1>6. ASSUME NEW r \in Readers, NEW i \in Words, LoadWord(r, i) PROVE IInv'
  <2>1. UNCHANGED <<seq, data, stores, committed, wpc, wseq, wval, wleft, rpc,
                    since, seq1, ret>>
    BY <1>6 DEF LoadWord, writerVars
  <2>2. /\ value' = [value EXCEPT ![r][i] = data[i]]
        /\ rleft' = [rleft EXCEPT ![r] = @ \ {i}]
    BY <1>6 DEF LoadWord
  <2>3. ReaderInv'
    <3> SUFFICES ASSUME NEW q \in Readers, rpc[q] = "copy", stores = since[q],
                        NEW j \in Words \ rleft'[q]
                 PROVE  value'[q][j] = since[q]
      BY <2>1, <1>read DEF ReaderInv
    <3>1. CASE q = r /\ j = i
      <4>1. ~Storing /\ stores = committed
        <5>1. since[q] <= committed
          BY <1>read DEF ReaderInv
        <5> QED
          BY <5>1, <1>nat, <1>count DEF CounterInv
      <4>2. data[i] = committed
        BY <4>1, <1>rest DEF RestInv
      <4>3. value'[r][i] = data[i]
        BY <2>2, <1>type DEF TypeOK, Snapshots
      <4> QED
        BY <3>1, <4>1, <4>2, <4>3
    <3>2. CASE ~(q = r /\ j = i)
      <4>1. value'[q][j] = value[q][j] /\ j \notin rleft[q]
        BY <3>2, <2>2, <1>type DEF TypeOK, Snapshots
      <4> QED
        BY <4>1, <1>read DEF ReaderInv
    <3> QED
      BY <3>1, <3>2
  <2>4. NoTornRead'
    BY <2>1, <1>torn DEF NoTornRead
  <2> QED
    BY <1>type, <1>still, <2>1, <2>3, <2>4 DEF IInv
<1>7. ASSUME NEW r \in Readers, LoadSeq2(r) PROVE IInv'
  <2>1. UNCHANGED <<seq, data, stores, committed, wpc, wseq, wval, wleft, since,
                    seq1, rleft, value>>
    BY <1>7 DEF LoadSeq2, writerVars
  <2>2. \A q \in Readers : rpc'[q] = "copy" => rpc[q] = "copy"
    BY <1>7, <1>type DEF LoadSeq2, TypeOK
  <2>3. NoTornRead'
    <3>1. CASE seq1[r] = seq
      <4>1. rpc[r] = "copy" /\ rleft[r] = {}
        BY <1>7 DEF LoadSeq2
      <4>2. \A i \in Words : value[r][i] = committed
        BY <3>1, <4>1, UnchangedSeqMeansCommitted
      <4>3. ret' = [ret EXCEPT ![r] = value[r]]
        BY <3>1, <1>7 DEF LoadSeq2
      <4>4. \A q \in Readers : ret'[q] = IF q = r THEN value[r] ELSE ret[q]
        BY <4>3, <1>type DEF TypeOK
      <4> QED
        BY <4>2, <4>4, <1>torn DEF NoTornRead
    <3>2. CASE seq1[r] # seq
      <4>1. ret' = ret
        BY <3>2, <1>7 DEF LoadSeq2
      <4> QED
        BY <4>1, <1>torn DEF NoTornRead
    <3> QED
      BY <3>1, <3>2
  <2>4. ReaderInv'
    BY <2>1, <2>2, <1>read DEF ReaderInv
  <2> QED
    BY <1>type, <1>still, <2>1, <2>3, <2>4 DEF IInv
<1>8. CASE UNCHANGED vars
  <2>1. UNCHANGED <<seq, data, stores, committed, wpc, wseq, wval, wleft, rpc,
                    since, seq1, rleft, value, ret>>
    BY <1>8 DEF vars, writerVars, readerVars
  <2>2. ReaderInv' /\ NoTornRead'
    BY <2>1, <1>read, <1>torn DEF ReaderInv, NoTornRead
  <2> QED
    BY <1>type, <1>still, <2>1, <2>2 DEF IInv
<1> QED
  BY <1>1, <1>2, <1>3, <1>4, <1>5, <1>6, <1>7, <1>8 DEF Next, Copying, Loading

\* With one writer the invariant holds in every reachable state.
THEOREM Invariance == SingleWriter => (Spec => []IInv)
<1> SUFFICES ASSUME SingleWriter PROVE Spec => []IInv
  OBVIOUS
<1>1. Init => IInv
  BY InitIInv
<1>2. IInv /\ [Next]_vars => IInv'
  BY NextIInv
<1> QED
  BY <1>1, <1>2, PTL DEF Spec

\* BboPublisher's reads are never torn as long as each locate code has one
\* writer.
THEOREM ReadsAreWhole == SingleWriter => (Spec => []NoTornRead)
<1>1. IInv => NoTornRead
  BY DEF IInv
<1> QED
  BY <1>1, Invariance, PTL

-----------------------------------------------------------------------------
(***************************************************************************)
(* Refinement: a store takes effect at StoreEnd, a load at LoadSeq2.       *)
(***************************************************************************)

\* Every step of the slot is a step of the register or changes nothing of it.
LEMMA NextRefines ==
  ASSUME SingleWriter, IInv, [Next]_vars
  PROVE  [Register!RegisterNext]_(Register!registerVars)
<1> USE DEF IInv
<1>1. ASSUME NEW w \in Writers, StoreEnd(w)
      PROVE  Register!Publish
  <2>1. committed \in Nat /\ committed' = committed + 1
    BY <1>1, MaxStoresAssumption
       DEF StoreEnd, Storing, CounterInv, WriterInv, TypeOK, Versions
  <2>2. UNCHANGED ret
    BY <1>1 DEF StoreEnd, readerVars
  <2> QED
    BY <2>1, <2>2 DEF Register!Publish
<1>2. ASSUME NEW r \in Readers, LoadSeq2(r)
      PROVE  Register!Read(r) \/ UNCHANGED <<committed, ret>>
  <2>1. CASE seq1[r] = seq
    <3>1. \A i \in Words : value[r][i] = committed
      BY <2>1, <1>2, UnchangedSeqMeansCommitted DEF LoadSeq2
    <3>2. value[r] = [i \in Words |-> committed]
      BY <3>1 DEF TypeOK, Snapshots
    <3> QED
      BY <2>1, <3>2, <1>2 DEF LoadSeq2, Register!Read, Register!Whole
  <2>2. CASE seq1[r] # seq
    BY <2>2, <1>2 DEF LoadSeq2
  <2> QED
    BY <2>1, <2>2
<1>3. ASSUME ~ \E w \in Writers : StoreEnd(w), ~ \E r \in Readers : LoadSeq2(r)
      PROVE  UNCHANGED <<committed, ret>>
  BY <1>3 DEF Next, Copying, Loading, StoreBegin, StoreWord, LoadBegin, LoadSeq1,
              LoadWord, vars, readerVars, writerVars
<1> QED
  BY <1>1, <1>2, <1>3 DEF Register!RegisterNext, Register!registerVars

\* A slot with one writer implements the atomic register BboPublisher's
\* readers rely on.
THEOREM Refinement == SingleWriter => (Spec => ImplementsRegister)
<1> SUFFICES ASSUME SingleWriter PROVE Spec => ImplementsRegister
  OBVIOUS
<1>1. Init => Register!RegisterInit
  BY DEF Init, Register!RegisterInit, Register!Whole
<1>2. IInv /\ [Next]_vars => [Register!RegisterNext]_(Register!registerVars)
  BY NextRefines
<1>3. Spec => []IInv
  BY Invariance
<1> QED
  BY <1>1, <1>2, <1>3, PTL DEF Spec, ImplementsRegister, Register!RegisterSpec
=============================================================================
