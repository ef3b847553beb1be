------------------------------ MODULE SeqLock ------------------------------
(***************************************************************************)
(* The sequence lock behind one slot of BboPublisher                       *)
(* (include/concurrency/seqlock.hpp, include/orderbook/bbo_publisher.hpp). *)
(*                                                                         *)
(* The snapshot is copied with plain stores and loads, so the copy is made *)
(* word by word, in any order, and may overlap the other side's copy: that *)
(* is what the data race on data_.val can produce.  Each word holds the    *)
(* number of the store that wrote it, so a torn snapshot is one with two   *)
(* numbers in it.  seq_ is an unsigned counter that wraps at SeqMod.       *)
(***************************************************************************)
EXTENDS Integers

CONSTANTS
  Writers,    \* the threads that call store: a shard worker's publish, and
              \* the parser thread's reset on a change of session
  Readers,    \* the threads that call load
  Words,      \* the words of a snapshot
  SeqMod,     \* the modulus of seq_, 2^32 in the code
  MaxStores   \* bound: the number of stores that are started

ASSUME SeqModAssumption == SeqMod \in Nat /\ SeqMod > 0 /\ SeqMod % 2 = 0
ASSUME MaxStoresAssumption == MaxStores \in Nat

VARIABLES
  seq,        \* seq_
  data,       \* data_.val, word by word
  stores,     \* the number of stores started so far
  committed,  \* the last store that returned (history)
  wpc,        \* per writer: "idle" or "copy"
  wseq,       \* per writer: the value fetch_add returned
  wval,       \* per writer: the number of its store
  wleft,      \* per writer: the words it still has to write
  rpc,        \* per reader: "idle", "seq1" or "copy"
  seq1,       \* per reader: seq1
  since,      \* per reader: the value of stores when it loaded seq1 (history)
  rleft,      \* per reader: the words it still has to copy
  value,      \* per reader: the local copy
  ret         \* per reader: what the last load returned

writerVars == <<wpc, wseq, wval, wleft>>
readerVars == <<rpc, seq1, since, rleft, value, ret>>
vars == <<seq, data, stores, committed, writerVars, readerVars>>

Versions == 0 .. MaxStores
Snapshots == [Words -> Versions]

TypeOK ==
  /\ seq \in 0 .. SeqMod - 1
  /\ data \in Snapshots
  /\ stores \in Versions
  /\ committed \in Versions
  /\ wpc \in [Writers -> {"idle", "copy"}]
  /\ wseq \in [Writers -> 0 .. SeqMod - 1]
  /\ wval \in [Writers -> Versions]
  /\ wleft \in [Writers -> SUBSET Words]
  /\ rpc \in [Readers -> {"idle", "seq1", "copy"}]
  /\ seq1 \in [Readers -> 0 .. SeqMod - 1]
  /\ since \in [Readers -> Versions]
  /\ rleft \in [Readers -> SUBSET Words]
  /\ value \in [Readers -> Snapshots]
  /\ ret \in [Readers -> Snapshots]

Init ==
  /\ seq = 0
  /\ data = [i \in Words |-> 0]
  /\ stores = 0
  /\ committed = 0
  /\ wpc = [w \in Writers |-> "idle"]
  /\ wseq = [w \in Writers |-> 0]
  /\ wval = [w \in Writers |-> 0]
  /\ wleft = [w \in Writers |-> {}]
  /\ rpc = [r \in Readers |-> "idle"]
  /\ seq1 = [r \in Readers |-> 0]
  /\ since = [r \in Readers |-> 0]
  /\ rleft = [r \in Readers |-> {}]
  /\ value = [r \in Readers |-> [i \in Words |-> 0]]
  /\ ret = [r \in Readers |-> [i \in Words |-> 0]]

(***************************************************************************)
(* store.                                                                  *)
(***************************************************************************)

\* The assumption under which a wrapping seq_ still identifies a store: seq_
\* does not go round completely while one reader copies one snapshot.
NoWrapWhileReading ==
  \A r \in Readers : rpc[r] = "copy" => 2 * (stores + 1 - since[r]) < SeqMod

\* seq_.fetch_add(1).
StoreBegin(w) ==
  /\ wpc[w] = "idle"
  /\ stores < MaxStores
  /\ NoWrapWhileReading
  /\ stores' = stores + 1
  /\ wval' = [wval EXCEPT ![w] = stores + 1]
  /\ wseq' = [wseq EXCEPT ![w] = seq]
  /\ seq' = (seq + 1) % SeqMod
  /\ wleft' = [wleft EXCEPT ![w] = Words]
  /\ wpc' = [wpc EXCEPT ![w] = "copy"]
  /\ UNCHANGED <<data, committed, readerVars>>

StoreWord(w, i) ==
  /\ wpc[w] = "copy"
  /\ i \in wleft[w]
  /\ data' = [data EXCEPT ![i] = wval[w]]
  /\ wleft' = [wleft EXCEPT ![w] = @ \ {i}]
  /\ UNCHANGED <<seq, stores, committed, wpc, wseq, wval, readerVars>>

\* A bug the properties must catch: seq_ is left odd.
StoreEndOffByOne(w) ==
  /\ wpc[w] = "copy"
  /\ wleft[w] = {}
  /\ seq' = (wseq[w] + 1) % SeqMod
  /\ committed' = wval[w]
  /\ wpc' = [wpc EXCEPT ![w] = "idle"]
  /\ UNCHANGED <<data, stores, wseq, wval, wleft, readerVars>>

\* seq_.store(seq + 2).
StoreEnd(w) ==
  /\ wpc[w] = "copy"
  /\ wleft[w] = {}
  /\ seq' = (wseq[w] + 2) % SeqMod
  /\ committed' = wval[w]
  /\ wpc' = [wpc EXCEPT ![w] = "idle"]
  /\ UNCHANGED <<data, stores, wseq, wval, wleft, readerVars>>

(***************************************************************************)
(* load.                                                                   *)
(***************************************************************************)
LoadBegin(r) ==
  /\ rpc[r] = "idle"
  /\ rpc' = [rpc EXCEPT ![r] = "seq1"]
  /\ UNCHANGED <<seq, data, stores, committed, writerVars, seq1, since, rleft,
                 value, ret>>

\* A bug the properties must catch: an odd sequence number is not waited for.
LoadSeq1NoSpin(r) ==
  /\ rpc[r] = "seq1"
  /\ seq1' = [seq1 EXCEPT ![r] = seq]
  /\ since' = [since EXCEPT ![r] = stores]
  /\ rpc' = [rpc EXCEPT ![r] = "copy"]
  /\ rleft' = [rleft EXCEPT ![r] = Words]
  /\ UNCHANGED <<seq, data, stores, committed, writerVars, value, ret>>

\* Load seq1; spin while it is odd.
LoadSeq1(r) ==
  /\ rpc[r] = "seq1"
  /\ seq1' = [seq1 EXCEPT ![r] = seq]
  /\ since' = [since EXCEPT ![r] = stores]
  /\ IF seq % 2 = 1
       THEN UNCHANGED <<rpc, rleft>>
       ELSE /\ rpc' = [rpc EXCEPT ![r] = "copy"]
            /\ rleft' = [rleft EXCEPT ![r] = Words]
  /\ UNCHANGED <<seq, data, stores, committed, writerVars, value, ret>>

LoadWord(r, i) ==
  /\ rpc[r] = "copy"
  /\ i \in rleft[r]
  /\ value' = [value EXCEPT ![r][i] = data[i]]
  /\ rleft' = [rleft EXCEPT ![r] = @ \ {i}]
  /\ UNCHANGED <<seq, data, stores, committed, writerVars, rpc, seq1, since,
                 ret>>

\* A bug the properties must catch: the copy is returned unchecked.
LoadSeq2Unchecked(r) ==
  /\ rpc[r] = "copy"
  /\ rleft[r] = {}
  /\ ret' = [ret EXCEPT ![r] = value[r]]
  /\ rpc' = [rpc EXCEPT ![r] = "idle"]
  /\ UNCHANGED <<seq, data, stores, committed, writerVars, seq1, since, rleft,
                 value>>

\* Load seq2 and compare: return the copy, or start over.
LoadSeq2(r) ==
  /\ rpc[r] = "copy"
  /\ rleft[r] = {}
  /\ IF seq1[r] = seq
       THEN /\ ret' = [ret EXCEPT ![r] = value[r]]
            /\ rpc' = [rpc EXCEPT ![r] = "idle"]
       ELSE /\ rpc' = [rpc EXCEPT ![r] = "seq1"]
            /\ UNCHANGED ret
  /\ UNCHANGED <<seq, data, stores, committed, writerVars, seq1, since, rleft,
                 value>>

\* The steps of a store that has begun.
Copying(w) == (\E i \in Words : StoreWord(w, i)) \/ StoreEnd(w)

\* The steps of a load that has begun.
Loading(r) ==
  LoadSeq1(r) \/ (\E i \in Words : LoadWord(r, i)) \/ LoadSeq2(r)

Next ==
  \/ \E w \in Writers : StoreBegin(w) \/ Copying(w)
  \/ \E r \in Readers : LoadBegin(r) \/ Loading(r)

Spec == Init /\ [][Next]_vars

\* A thread inside store or load keeps running.
FairSpec ==
  /\ Spec
  /\ \A w \in Writers : WF_vars(Copying(w))
  /\ \A r \in Readers : WF_vars(Loading(r))

-----------------------------------------------------------------------------
(***************************************************************************)
(* Properties.                                                             *)
(***************************************************************************)

Register == INSTANCE AtomicRegister WITH register <- committed

\* With one writer, the slot is an atomic register: a load returns, whole,
\* the snapshot of the last store that had completed when seq2 was compared.
ImplementsRegister == Register!RegisterSpec

\* No load returns a snapshot with words of two different stores.
NoTornRead == \A r \in Readers : \A i, j \in Words : ret[r][i] = ret[r][j]

\* A load that has begun returns, once the stores are over.
LoadReturns == \A r \in Readers : rpc[r] # "idle" ~> rpc[r] = "idle"

(***************************************************************************)
(* The inductive invariant of a slot that has one writer.                  *)
(***************************************************************************)
SingleWriter == \A v, w \in Writers : v = w

Storing == \E w \in Writers : wpc[w] = "copy"

\* Completed stores counted twice, plus the store under way.
Ticks == 2 * committed + (IF Storing THEN 1 ELSE 0)

CounterInv ==
  /\ stores = committed + (IF Storing THEN 1 ELSE 0)
  /\ seq = Ticks % SeqMod

WriterInv ==
  \A w \in Writers : wpc[w] = "copy" =>
    /\ wval[w] = stores
    /\ wseq[w] = (2 * committed) % SeqMod
    /\ \A i \in Words : data[i] = IF i \in wleft[w] THEN committed ELSE stores

RestInv == ~Storing => \A i \in Words : data[i] = committed

\* A reader that is copying saw seq_ at rest, and as long as no store has
\* begun since, what it has copied is the committed snapshot.
ReaderInv ==
  \A r \in Readers : rpc[r] = "copy" =>
    /\ since[r] <= committed
    /\ seq1[r] = (2 * since[r]) % SeqMod
    /\ 2 * (stores - since[r]) < SeqMod
    /\ stores = since[r] =>
         \A i \in Words \ rleft[r] : value[r][i] = since[r]

IInv == TypeOK /\ CounterInv /\ WriterInv /\ RestInv /\ ReaderInv /\ NoTornRead
=============================================================================
