--------------------------- MODULE LatencyHistogram ---------------------------
(***************************************************************************)
(* LatencyHistogram (include/monitoring/latency_histogram.hpp and          *)
(* src/monitoring/latency_histogram.cpp): the thread that owns it records  *)
(* latencies while the metrics reporter reads percentiles, without locks.  *)
(* Each atomic access is a step.                                           *)
(*                                                                         *)
(* buckets_, count_ and max_ each start a cache line of LineWords words,   *)
(* so an index past the buckets falls on count_, on max_ or in between.    *)
(***************************************************************************)
EXTENDS Integers, FiniteSetsExt, Functions

CONSTANTS
  LinearBits,  \* 8:  LINEAR_BUCKETS is 2^8
  SubBits,     \* 4:  sub-buckets per octave are 2^4
  Octaves,     \* 16: LOG_BUCKETS is 16 * 2^4
  CapBit,      \* 32: latencies from 2^32 on go to the last bucket
  LineWords,   \* 8
  PerMille     \* the percentiles asked for, in thousandths

ASSUME HistogramAssumption ==
  /\ SubBits \in Nat /\ LinearBits \in Nat /\ SubBits < LinearBits
  /\ Octaves \in Nat \ {0} /\ CapBit \in Nat /\ LineWords \in Nat \ {0}
  /\ PerMille \subseteq 0 .. 999

LINEAR_BUCKETS == 2 ^ LinearBits
Sub == 2 ^ SubBits
TOTAL_BUCKETS == LINEAR_BUCKETS + Octaves * Sub
Bucket == 0 .. TOTAL_BUCKETS - 1

VARIABLES
  buckets, count, max,  \* the members
  rec,                  \* the recording thread: its step and its latency
  rd,                   \* percentile: its step, index, running sum and target
  before,               \* history: the buckets when percentile read count_
  strayed               \* history: a latency was recorded past the buckets

memory == <<buckets, count, max>>
histVars == <<memory, rec, rd, before, strayed>>

(***************************************************************************)
(* Latency to bucket and back.                                             *)
(***************************************************************************)
\* The highest bit of a latency, as far as it matters.
Msb(ns) == Max({m \in 0 .. CapBit : 2 ^ m <= ns})

\* A bug the properties must catch: the sub-bucket is taken a bit too high.
bucket_for_coarse(ns) ==
  IF ns < LINEAR_BUCKETS
    THEN ns
    ELSE LINEAR_BUCKETS + (Msb(ns) - (LinearBits - 1)) * Sub
           + ((ns \div 2 ^ (Msb(ns) - SubBits + 1)) % Sub)

bucket_for(ns) ==
  IF ns < LINEAR_BUCKETS
    THEN ns
    ELSE IF Msb(ns) >= CapBit
           THEN TOTAL_BUCKETS - 1
           ELSE LINEAR_BUCKETS + (Msb(ns) - (LinearBits - 1)) * Sub
                  + ((ns \div 2 ^ (Msb(ns) - SubBits)) % Sub)

bucket_lower(b) ==
  IF b < LINEAR_BUCKETS
    THEN b
    ELSE LET log_b == b - LINEAR_BUCKETS
             msb == (log_b \div Sub) + LinearBits - 1
         IN  2 ^ msb + (log_b % Sub) * 2 ^ (msb - SubBits)

HistInit ==
  /\ buckets = [b \in Bucket |-> 0] /\ count = 0 /\ max = 0
  /\ rec = [at |-> "idle", ns |-> 0]
  /\ rd = [at |-> "idle", i |-> 0, cumulative |-> 0, target |-> 0, result |-> 0]
  /\ before = [b \in Bucket |-> 0]
  /\ strayed = FALSE

(***************************************************************************)
(* record(latency_ns): a bucket, count_, then max_ by compare and exchange.*)
(* There is one recording thread, so the exchange succeeds.                *)
(***************************************************************************)
record(ns) == rec.at = "idle" /\ rec' = [at |-> "bucket", ns |-> ns]

AddToBucket ==
  /\ rec.at = "bucket"
  /\ LET b == bucket_for(rec.ns)
     IN  /\ buckets' = IF b \in Bucket THEN [buckets EXCEPT ![b] = @ + 1]
                                       ELSE buckets
         /\ count' = IF b = TOTAL_BUCKETS THEN count + 1 ELSE count
         /\ max' = IF b = TOTAL_BUCKETS + LineWords THEN max + 1 ELSE max
         /\ strayed' = (strayed \/ b \notin Bucket)
  /\ rec' = [rec EXCEPT !.at = "count"]

AddToCount ==
  /\ rec.at = "count"
  /\ count' = count + 1
  /\ rec' = [rec EXCEPT !.at = "max"]
  /\ UNCHANGED <<buckets, max, strayed>>

RaiseMax ==
  /\ rec.at = "max"
  /\ max' = IF rec.ns > max THEN rec.ns ELSE max
  /\ rec' = [rec EXCEPT !.at = "idle"]
  /\ UNCHANGED <<buckets, count, strayed>>

Recording ==
  /\ AddToBucket \/ AddToCount \/ RaiseMax
  /\ UNCHANGED <<rd, before>>

(***************************************************************************)
(* percentile(p), on the reporter's thread.  An empty histogram is not     *)
(* reported.                                                               *)
(***************************************************************************)
percentile(p) ==
  /\ rd.at \in {"idle", "found", "fell_through"} /\ count > 0
  /\ rd' = [at |-> "sum", i |-> 0, cumulative |-> 0,
            target |-> (count * p) \div 1000, result |-> 0]
  /\ before' = buckets
  /\ UNCHANGED <<memory, rec, strayed>>

\* A bug the properties must catch: the bucket that reaches the target ends it.
PastTargetOrAt(c, target) == c >= target

PastTarget(c, target) == c > target

SumOneBucket ==
  /\ rd.at = "sum"
  /\ LET c == rd.cumulative + buckets[rd.i]
         found == PastTarget(c, rd.target)
         last == rd.i = TOTAL_BUCKETS - 1
     IN  rd' = [rd EXCEPT !.cumulative = c,
                  !.at = IF found THEN "found"
                         ELSE IF last THEN "fell_through" ELSE "sum",
                  !.i = IF found \/ last THEN @ ELSE @ + 1,
                  !.result = IF found THEN bucket_lower(rd.i)
                             ELSE IF last THEN max ELSE 0]
  /\ UNCHANGED <<memory, rec, before, strayed>>

Reporting == (\E p \in PerMille : percentile(p)) \/ SumOneBucket

-----------------------------------------------------------------------------
(***************************************************************************)
(* Properties.                                                             *)
(***************************************************************************)

\* The latencies the log buckets have room for, and those that are capped.
Covered(ns) == ns < 2 ^ (LinearBits + Octaves - 1) \/ ns >= 2 ^ CapBit

\* A covered latency is put in a bucket that exists, whose bound is at most it
\* and less than one part in Sub below it; the others fall past the buckets
\* (latency_histogram.hpp:61-75).
BucketAccurate ==
  rec.at = "bucket" =>
    LET b == bucket_for(rec.ns)
    IN  IF Covered(rec.ns)
          THEN /\ b \in Bucket
               /\ bucket_lower(b) <= rec.ns
               /\ rec.ns < 2 ^ CapBit => (rec.ns - bucket_lower(b)) * Sub <= rec.ns
          ELSE b \notin Bucket

\* The number of samples in the first n buckets.
Below(bk, n) == SumFunctionOnSet(bk, 0 .. n - 1)

\* A percentile read while latencies are being recorded is the bound of a bucket
\* no higher than that of the percentile when it began and no lower than that
\* of the percentile now: the loop always finds its bucket, because count_ is
\* read first and written last.  Only latencies past the buckets break it
\* (latency_histogram.cpp:16-30).
PercentileBetween ==
  (rd.at \in {"found", "fell_through"} /\ ~strayed) =>
    /\ rd.at = "found"
    /\ rd.result = bucket_lower(rd.i)
    /\ Below(before, rd.i) <= rd.target
    /\ rd.target < Below(buckets, rd.i + 1)
=============================================================================
