------------------------- MODULE DedupWindowProofs -------------------------
(***************************************************************************)
(* DedupWindow for words of any number of bits and any sequence numbers:   *)
(* the inductive invariant IInv, no number called new twice, and none      *)
(* within a word of the newest taken for too old.                          *)
(***************************************************************************)
EXTENDS DedupWindow, RingArithmetic, TLAPS

Windows == [base : Nat, bits : [{0, 1} -> SUBSET (0 .. Block - 1)]]

\* The word and the bit of a distance of less than two words.
LEMMA WordAndBit ==
  ASSUME NEW x \in Nat, x < 2 * Block
  PROVE  /\ x < Block => x \div Block = 0 /\ x % Block = x
         /\ x >= Block => x \div Block = 1 /\ x % Block = x - Block
<1> USE BlockAssumption
<1> DEFINE q == x \div Block
           r == x % Block
<1>1. q \in Nat /\ r \in 0 .. Block - 1 /\ x = Block * q + r
  OBVIOUS
<1> HIDE DEF q, r
<1>2. CASE q = 0
  BY <1>1, <1>2 DEF q, r
<1>3. CASE q = 1
  BY <1>1, <1>3 DEF q, r
<1>4. CASE q > 1
  <2>1. Block * q >= Block * 1 + Block
    BY <1>1, <1>4, MultiplesApart
  <2> QED
    BY <2>1, <1>1
<1> QED
  BY <1>1, <1>2, <1>3, <1>4

\* A number's bit, in the first word or in the second.
LEMMA MarkedBit ==
  ASSUME NEW win \in Windows, NEW seq \in Nat,
         seq >= win.base, seq < win.base + 2 * Block
  PROVE  /\ seq < win.base + Block
              => Word(win, seq) = 0 /\ Bit(win, seq) = seq - win.base
         /\ seq >= win.base + Block
              => Word(win, seq) = 1 /\ Bit(win, seq) = seq - win.base - Block
<1> USE BlockAssumption DEF Windows
<1> DEFINE x == seq - win.base
<1>1. x \in Nat /\ x < 2 * Block
  OBVIOUS
<1> HIDE DEF x
<1>2. /\ x < Block => x \div Block = 0 /\ x % Block = x
      /\ x >= Block => x \div Block = 1 /\ x % Block = x - Block
  BY <1>1, WordAndBit
<1> QED
  BY <1>1, <1>2 DEF x, Word, Bit

\* The window advances so far that the number falls in its second word.
LEMMA AdvancedFits ==
  ASSUME NEW win \in Windows, NEW seq \in Nat, seq >= win.base + 2 * Block
  PROVE  /\ Shifts(win.base, seq) \in Nat \ {0}
         /\ win.base + Shifts(win.base, seq) * Block + Block <= seq
         /\ seq < win.base + Shifts(win.base, seq) * Block + 2 * Block
<1> USE BlockAssumption DEF Windows
<1> DEFINE x == seq - win.base
           q == x \div Block
           r == x % Block
<1>1. x \in Nat /\ x >= 2 * Block
  OBVIOUS
<1>2. q \in Nat /\ r \in 0 .. Block - 1 /\ x = Block * q + r
  BY <1>1
<1> HIDE DEF q, r
<1>3. q >= 2
  <2>1. CASE q = 0
    BY <2>1, <1>1, <1>2
  <2>2. CASE q = 1
    BY <2>2, <1>1, <1>2
  <2> QED
    BY <2>1, <2>2, <1>2
<1>4. Shifts(win.base, seq) = q - 1
  BY DEF Shifts, q
<1>5. (q - 1) * Block = Block * q - Block /\ Block * q \in Nat
  BY <1>2
<1> HIDE DEF x
<1>6. win.base + (q - 1) * Block + Block = win.base + Block * q
  BY <1>5
<1> QED
  BY <1>2, <1>3, <1>4, <1>5, <1>6 DEF x

\* What the loop leaves: the number is in the window, the words are those of the
\* numbers that are still in it, and a window that moved is a word behind.
LEMMA AdvancedWindow ==
  ASSUME NEW win \in Windows, NEW seq \in Nat, seq >= win.base
  PROVE  LET a == Advanced(win, seq)
         IN  /\ a \in Windows
             /\ a.base <= seq /\ seq < a.base + 2 * Block
             /\ \/ a = win
                \/ /\ a.base = win.base + Block /\ a.bits[0] = win.bits[1]
                   /\ a.base + Block <= seq
                \/ a.base >= win.base + 2 * Block /\ a.base + Block <= seq
<1> USE BlockAssumption DEF Windows
<1> DEFINE n == Shifts(win.base, seq)
           a == Advanced(win, seq)
<1>1. CASE seq < win.base + 2 * Block
  <2>1. n = 0
    BY <1>1 DEF Shifts
  <2>2. a = win
    BY <2>1 DEF Advanced
  <2> QED
    BY <1>1, <2>2
<1>2. CASE seq >= win.base + 2 * Block
  <2>1. /\ n \in Nat \ {0}
        /\ win.base + n * Block + Block <= seq
        /\ seq < win.base + n * Block + 2 * Block
    BY <1>2, AdvancedFits
  <2> HIDE DEF n
  <2>2. a.base = win.base + n * Block
    BY DEF Advanced, n
  <2>3. n * Block \in Nat
    BY <2>1
  <2>4. CASE n = 1
    <3>1. a = [base |-> win.base + n * Block,
               bits |-> [i \in {0, 1} |-> IF i = 0 THEN win.bits[1] ELSE {}]]
      BY <2>4 DEF Advanced, n
    <3>2. n * Block = Block
      BY <2>4
    <3> QED
      BY <3>1, <3>2, <2>1, <2>3
  <2>5. CASE n > 1
    <3>0. n # 0 /\ n # 1
      BY <2>1, <2>5
    <3>1. a = [base |-> win.base + n * Block, bits |-> [i \in {0, 1} |-> {}]]
      BY <3>0 DEF Advanced, n
    <3>2. Block * n >= Block * 1 + Block
      BY <2>1, <2>5, MultiplesApart
    <3>3. n * Block >= 2 * Block
      BY <3>2, <2>1
    <3> QED
      BY <3>1, <3>3, <2>1, <2>3
  <2> QED
    BY <2>1, <2>4, <2>5
<1> QED
  BY <1>1, <1>2

-----------------------------------------------------------------------------
(***************************************************************************)
(* The invariant.                                                          *)
(***************************************************************************)

\* A fresh window satisfies it.
LEMMA InitIInv == DedupInit => IInv
BY BlockAssumption, MaxSeqAssumption
   DEF DedupInit, IInv, DedupTypeOK, PassedIsMarked, PassedInReach, NotTooOld

\* The loop loses no bit of a number that is still in the window.
LEMMA AdvancedKeeps ==
  ASSUME IInv, NEW seq \in 1 .. MaxSeq, seq >= window.base
  PROVE  LET a == Advanced(window, seq)
         IN  \A s \in passed :
               /\ s < a.base + 2 * Block
               /\ \/ s < a.base
                  \/ Bit(a, s) \in a.bits[Word(a, s)] /\ Word(a, s) \in {0, 1}
<1> USE BlockAssumption, MaxSeqAssumption
<1> DEFINE a == Advanced(window, seq)
<1>1. window \in Windows /\ passed \subseteq 1 .. MaxSeq /\ seq \in Nat
  BY DEF IInv, DedupTypeOK, Windows
<1>2. /\ a \in Windows
      /\ \/ a = window
         \/ a.base = window.base + Block /\ a.bits[0] = window.bits[1]
         \/ a.base >= window.base + 2 * Block
  BY <1>1, AdvancedWindow
<1> HIDE DEF a
<1> SUFFICES ASSUME NEW s \in passed
             PROVE  /\ s < a.base + 2 * Block
                    /\ \/ s < a.base
                       \/ Bit(a, s) \in a.bits[Word(a, s)] /\ Word(a, s) \in {0, 1}
  BY DEF a
<1>3. /\ s \in Nat /\ s < window.base + 2 * Block
      /\ s < window.base \/ Bit(window, s) \in window.bits[Word(window, s)]
  BY <1>1 DEF IInv, PassedIsMarked, PassedInReach
<1>4. window.base \in Nat /\ a.base \in Nat
  BY <1>1, <1>2 DEF Windows
<1>5. CASE a = window
  BY <1>1, <1>3, <1>4, <1>5, MarkedBit
<1>6. CASE a.base = window.base + Block /\ a.bits[0] = window.bits[1]
  <2>1. CASE s < a.base
    BY <2>1, <1>3, <1>4, <1>6
  <2>2. CASE s >= a.base
    <3>1. Word(window, s) = 1 /\ Bit(window, s) = s - window.base - Block
      BY <2>2, <1>1, <1>3, <1>4, <1>6, MarkedBit
    <3>2. Word(a, s) = 0 /\ Bit(a, s) = s - a.base
      BY <2>2, <1>2, <1>3, <1>4, <1>6, MarkedBit
    <3> QED
      BY <3>1, <3>2, <2>2, <1>3, <1>4, <1>6
  <2> QED
    BY <2>1, <2>2, <1>3, <1>4
<1>7. CASE a.base >= window.base + 2 * Block
  BY <1>3, <1>4, <1>7
<1> QED
  BY <1>2, <1>5, <1>6, <1>7

\* Marking a number leaves a window in which it and the numbers marked before
\* are marked or behind.
LEMMA MarkKeeps ==
  ASSUME IInv, NEW seq \in 1 .. MaxSeq, seq >= window.base
  PROVE  LET m == Marked(window, seq)
         IN  /\ m \in Windows
             /\ m.base = window.base \/ m.base + Block <= seq
             /\ \A s \in passed \cup {seq} :
                  /\ s < m.base + 2 * Block
                  /\ s < m.base \/ Bit(m, s) \in m.bits[Word(m, s)]
<1> USE BlockAssumption, MaxSeqAssumption
<1> DEFINE a == Advanced(window, seq)
           m == Marked(window, seq)
<1>1. window \in Windows /\ passed \subseteq 1 .. MaxSeq /\ seq \in Nat
  BY DEF IInv, DedupTypeOK, Windows
<1>2. /\ a \in Windows
      /\ a.base <= seq /\ seq < a.base + 2 * Block
      /\ \/ a = window
         \/ /\ a.base = window.base + Block /\ a.bits[0] = window.bits[1]
            /\ a.base + Block <= seq
         \/ a.base >= window.base + 2 * Block /\ a.base + Block <= seq
  BY <1>1, AdvancedWindow
<1>3. m = [a EXCEPT !.bits[Word(a, seq)] = @ \cup {Bit(a, seq)}]
  BY <1>1 DEF Marked, Windows
<1>4. Word(a, seq) \in {0, 1} /\ Bit(a, seq) \in 0 .. Block - 1
  BY <1>1, <1>2, MarkedBit DEF Windows
<1> HIDE DEF a, m
<1>5. m \in Windows /\ m.base = a.base
  BY <1>2, <1>3, <1>4 DEF Windows
<1>6. \A i \in {0, 1} : a.bits[i] \subseteq m.bits[i]
  BY <1>2, <1>3, <1>4 DEF Windows
<1>7. Bit(a, seq) \in m.bits[Word(a, seq)]
  BY <1>2, <1>3, <1>4 DEF Windows
<1>8. ASSUME NEW s \in Nat
      PROVE  Word(m, s) = Word(a, s) /\ Bit(m, s) = Bit(a, s)
  BY <1>5 DEF Word, Bit
<1>9. \A s \in passed :
        /\ s < a.base + 2 * Block
        /\ \/ s < a.base
           \/ Bit(a, s) \in a.bits[Word(a, s)] /\ Word(a, s) \in {0, 1}
  BY AdvancedKeeps DEF a
<1>10. ASSUME NEW s \in passed \cup {seq}
       PROVE  /\ s < m.base + 2 * Block
              /\ s < m.base \/ Bit(m, s) \in m.bits[Word(m, s)]
  <2>1. s \in Nat /\ Word(m, s) = Word(a, s) /\ Bit(m, s) = Bit(a, s)
    BY <1>1, <1>8
  <2>2. CASE s = seq
    BY <2>1, <2>2, <1>2, <1>5, <1>7
  <2>3. CASE s \in passed
    BY <2>1, <2>3, <1>5, <1>6, <1>9
  <2> QED
    BY <2>2, <2>3
<1>11. m.base = window.base \/ m.base + Block <= seq
  BY <1>2, <1>5
<1> QED
  BY <1>5, <1>10, <1>11 DEF m

\* check_and_mark preserves it, whatever number it is given.
LEMMA NextIInv == IInv /\ [DedupNext]_dedupVars => IInv'
<1> SUFFICES ASSUME IInv, [DedupNext]_dedupVars PROVE IInv'
  OBVIOUS
<1> USE BlockAssumption, MaxSeqAssumption
<1>1. ASSUME NEW seq \in 1 .. MaxSeq, check_and_mark(seq), seq < window.base
      PROVE  IInv'
  <2>1. UNCHANGED <<window, passed>> /\ newest' \in 0 .. MaxSeq /\ newest' >= newest
    BY <1>1 DEF check_and_mark, Marked, IsNew, IInv, DedupTypeOK
  <2> QED
    BY <2>1 DEF IInv, DedupTypeOK, PassedIsMarked, PassedInReach, NotTooOld, Bit, Word
<1>2. ASSUME NEW seq \in 1 .. MaxSeq, check_and_mark(seq), seq >= window.base
      PROVE  IInv'
  <2>1. /\ window' \in Windows
        /\ window'.base = window.base \/ window'.base + Block <= seq
        /\ \A s \in passed \cup {seq} :
             /\ s < window'.base + 2 * Block
             /\ s < window'.base \/ Bit(window', s) \in window'.bits[Word(window', s)]
    BY <1>2, MarkKeeps DEF check_and_mark
  <2>2. passed' \subseteq passed \cup {seq}
    BY <1>2 DEF check_and_mark
  <2>3. newest' \in 0 .. MaxSeq /\ newest' >= newest /\ newest' >= seq
    BY <1>2 DEF check_and_mark, IInv, DedupTypeOK
  <2>4. DedupTypeOK'
    BY <2>1, <2>2, <2>3, <1>2 DEF IInv, DedupTypeOK, Windows
  <2>5. PassedIsMarked' /\ PassedInReach'
    BY <2>1, <2>2 DEF PassedIsMarked, PassedInReach, Bit, Word
  <2>6. NotTooOld'
    BY <2>1, <2>3 DEF NotTooOld, IInv, DedupTypeOK, Windows
  <2> QED
    BY <2>4, <2>5, <2>6 DEF IInv
<1>3. CASE UNCHANGED dedupVars
  BY <1>3 DEF dedupVars, IInv, DedupTypeOK, PassedIsMarked, PassedInReach,
              NotTooOld, Bit, Word
<1> QED
  <2>1. ASSUME NEW seq \in 1 .. MaxSeq PROVE seq < window.base \/ seq >= window.base
    BY DEF IInv, DedupTypeOK
  <2> QED
    BY <2>1, <1>1, <1>2, <1>3 DEF DedupNext

\* The inductive invariant of the window.
THEOREM Invariance == DedupSpec => []IInv
BY InitIInv, NextIInv, PTL DEF DedupSpec

\* For words of any size, a number at most a word behind the newest is never
\* taken for too old (feed_merger.hpp:31-39).
THEOREM NeverTooOld == DedupSpec => []NotTooOld
<1>1. IInv => NotTooOld
  BY DEF IInv
<1> QED
  BY <1>1, Invariance, PTL

\* For words of any size and numbers in any order, no number is called new twice
\* (feed_merger.hpp:27-49).
THEOREM NoNumberTwice == DedupSpec => NewOnce
<1>1. IInv /\ [DedupNext]_dedupVars =>
        [\A seq \in 1 .. MaxSeq :
           check_and_mark(seq) /\ IsNew(window, seq) => seq \notin passed]_dedupVars
  <2> SUFFICES ASSUME IInv, NEW seq \in 1 .. MaxSeq, IsNew(window, seq), seq \in passed
               PROVE  FALSE
    OBVIOUS
  <2> DEFINE a == Advanced(window, seq)
  <2>1. seq >= window.base /\ Bit(a, seq) \notin a.bits[Word(a, seq)]
    BY DEF IsNew
  <2>2. seq < a.base \/ Bit(a, seq) \in a.bits[Word(a, seq)]
    BY <2>1, AdvancedKeeps
  <2>3. window \in Windows /\ seq \in Nat
    BY MaxSeqAssumption DEF IInv, DedupTypeOK, Windows
  <2>4. a \in Windows /\ a.base <= seq
    BY <2>1, <2>3, AdvancedWindow
  <2> QED
    BY <2>1, <2>2, <2>3, <2>4 DEF Windows
<1> QED
  BY <1>1, Invariance, PTL DEF DedupSpec, NewOnce
=============================================================================
