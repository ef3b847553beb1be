---------------------------- MODULE DedupWindow ----------------------------
(***************************************************************************)
(* The sliding window with which the feed merger tells a packet it has     *)
(* already forwarded from a new one (include/workers/feed_merger.hpp).     *)
(*                                                                         *)
(* The window is two words of Block bits that start at base; a bit is set  *)
(* when its number was marked.  A word is modelled by the set of its bits  *)
(* that are set.                                                           *)
(***************************************************************************)
EXTENDS Integers

CONSTANTS
  Block,    \* bits to a word, 64 in the code; DEDUP_WINDOW_SIZE is 2 * Block
  MaxSeq    \* bound: the largest sequence number

ASSUME BlockAssumption == Block \in Nat \ {0}
ASSUME MaxSeqAssumption == MaxSeq \in Nat

VARIABLES
  window,   \* base_ and bits_
  passed,   \* the numbers check_and_mark has called new (history)
  newest    \* the largest number it was given (history)

dedupVars == <<window, passed, newest>>

DedupTypeOK ==
  /\ window \in [base : Nat, bits : [{0, 1} -> SUBSET (0 .. Block - 1)]]
  /\ passed \subseteq 1 .. MaxSeq
  /\ newest \in 0 .. MaxSeq

DedupInit ==
  /\ window = [base |-> 0, bits |-> [i \in {0, 1} |-> {}]]
  /\ passed = {}
  /\ newest = 0

-----------------------------------------------------------------------------
\* A bug the properties must catch: the window advances a block too far.
ShiftsTooFar(b, seq) ==
  IF seq < b + 2 * Block THEN 0 ELSE (seq - b) \div Block

\* How many blocks the window advances for seq to fit in it.
Shifts(b, seq) ==
  IF seq < b + 2 * Block THEN 0 ELSE (seq - b) \div Block - 1

\* A bug the properties must catch: the words are not shifted with the base.
AdvancedBaseOnly(win, seq) ==
  [win EXCEPT !.base = @ + Shifts(win.base, seq) * Block]

\* The window after the loop that advances it: one block keeps the second
\* word, more keep nothing.
Advanced(win, seq) ==
  LET n == Shifts(win.base, seq)
  IN  [base |-> win.base + n * Block,
       bits |-> [i \in {0, 1} |-> IF n = 0 THEN win.bits[i]
                                  ELSE IF n = 1 /\ i = 0 THEN win.bits[1] ELSE {}]]

Word(win, seq) == (seq - win.base) \div Block
Bit(win, seq) == (seq - win.base) % Block

\* What check_and_mark returns.
IsNew(win, seq) ==
  /\ seq >= win.base
  /\ LET a == Advanced(win, seq) IN Bit(a, seq) \notin a.bits[Word(a, seq)]

\* What it leaves behind.
Marked(win, seq) ==
  IF seq < win.base THEN win
  ELSE LET a == Advanced(win, seq)
       IN  [a EXCEPT !.bits[Word(a, seq)] = @ \cup {Bit(a, seq)}]

check_and_mark(seq) ==
  /\ window' = Marked(window, seq)
  /\ passed' = IF IsNew(window, seq) THEN passed \cup {seq} ELSE passed
  /\ newest' = IF seq > newest THEN seq ELSE newest

DedupNext == \E seq \in 1 .. MaxSeq : check_and_mark(seq)

DedupSpec == DedupInit /\ [][DedupNext]_dedupVars

-----------------------------------------------------------------------------
(* Properties. *)

\* Whatever order the two feeds deliver in and however far the window moves,
\* no sequence number is called new twice (feed_merger.hpp:27-49).
NewOnce ==
  [][\A seq \in 1 .. MaxSeq :
       check_and_mark(seq) /\ IsNew(window, seq) => seq \notin passed]_dedupVars

\* A number that is at most one block behind the newest is never taken for
\* too old: the window advances no further than it must (feed_merger.hpp:31-39).
NotTooOld == window.base = 0 \/ window.base + Block <= newest

\* Why a number is never called new twice: each one that was is behind the
\* window or has its bit set.
PassedIsMarked ==
  \A seq \in passed :
    seq < window.base \/ Bit(window, seq) \in window.bits[Word(window, seq)]

\* Every number that was called new lies before the end of the window.
PassedInReach == \A seq \in passed : seq < window.base + 2 * Block

\* What check_and_mark preserves whatever it is given: the types and the three
\* facts above together.
IInv == DedupTypeOK /\ PassedIsMarked /\ PassedInReach /\ NotTooOld
=============================================================================
