--------------------------- MODULE RingArithmetic ---------------------------
(***************************************************************************)
(* Facts about remainders, for counters that index a ring or wrap.         *)
(***************************************************************************)
EXTENDS Integers, TLAPS

\* Division with remainder.
LEMMA DivMod ==
  ASSUME NEW n \in Nat, NEW c \in Nat \ {0}
  PROVE  \E k \in Nat : n = c * k + (n % c)
<1>1. n \div c \in Nat /\ n = c * (n \div c) + (n % c)
  OBVIOUS
<1> QED
  BY <1>1

\* Multiples of c are at least c apart.
LEMMA MultiplesApart ==
  ASSUME NEW c \in Nat \ {0}, NEW a \in Nat, NEW b \in Nat, a < b
  PROVE  c * b >= c * a + c
<1>1. c * b = c * a + c * (b - a)
  OBVIOUS
<1>2. c * (b - a) >= c
  OBVIOUS
<1>3. c * a \in Nat /\ c * b \in Nat /\ c * (b - a) \in Int
  OBVIOUS
<1> QED
  BY <1>1, <1>2, <1>3

\* Two numbers less than c apart have different remainders.
LEMMA RemaindersDiffer ==
  ASSUME NEW c \in Nat \ {0}, NEW p \in Nat, NEW q \in Nat, p < q, q < p + c
  PROVE  p % c # q % c
<1> SUFFICES ASSUME p % c = q % c PROVE FALSE
  OBVIOUS
<1>1. PICK a \in Nat : p = c * a + (p % c)
  BY DivMod
<1>2. PICK b \in Nat : q = c * b + (q % c)
  BY DivMod
<1>3. c * a \in Nat /\ c * b \in Nat /\ p % c \in Nat
  OBVIOUS
<1>4. c * a < c * b /\ c * b < c * a + c
  BY <1>1, <1>2, <1>3
<1>5. CASE a < b
  BY <1>5, <1>4, <1>3, MultiplesApart
<1>6. CASE b < a
  BY <1>6, <1>4, <1>3, MultiplesApart
<1>7. CASE a = b
  BY <1>7, <1>4, <1>3
<1> QED
  BY <1>5, <1>6, <1>7

\* A remainder by an even number keeps the parity.
LEMMA EvenModulusKeepsParity ==
  ASSUME NEW c \in Nat \ {0}, c % 2 = 0, NEW n \in Nat
  PROVE  (n % c) % 2 = n % 2
<1>1. PICK k \in Nat : n = c * k + (n % c)
  BY DivMod
<1>2. PICK h \in Nat : c = 2 * h
  BY DivMod
<1>3. h * k \in Nat /\ c * k = 2 * (h * k)
  BY <1>2
<1>4. n % c \in Nat
  OBVIOUS
<1>5. \A j, r \in Nat : (2 * j + r) % 2 = r % 2
  OBVIOUS
<1> DEFINE j == h * k
           r == n % c
<1>6. j \in Nat /\ r \in Nat /\ n = 2 * j + r
  BY <1>1, <1>3, <1>4
<1> HIDE DEF j, r
<1>7. r % 2 = n % 2
  BY <1>5, <1>6
<1> QED
  BY <1>7 DEF r

\* Adding to a remainder and taking the remainder again is adding first.
LEMMA AddToRemainder ==
  ASSUME NEW c \in Nat \ {0}, NEW n \in Nat, NEW d \in Nat
  PROVE  ((n % c) + d) % c = (n + d) % c
<1>1. PICK k \in Nat : n = c * k + (n % c)
  BY DivMod
<1> DEFINE r == n % c
           s == r + d
           t == n + d
<1>2. r \in Nat /\ s \in Nat /\ t \in Nat
  OBVIOUS
<1> HIDE DEF r, s, t
<1>3. PICK a \in Nat : s = c * a + (s % c)
  BY <1>2, DivMod
<1>4. PICK b \in Nat : t = c * b + (t % c)
  BY <1>2, DivMod
<1> DEFINE x == s % c
           y == t % c
<1>5. x \in 0 .. c - 1 /\ y \in 0 .. c - 1
  BY <1>2
<1> HIDE DEF x, y
<1>6. c * (k + a) = c * k + c * a /\ c * k \in Nat /\ c * a \in Nat
      /\ c * b \in Nat
  OBVIOUS
<1>7. c * b + y = c * (k + a) + x
  BY <1>1, <1>2, <1>3, <1>4, <1>5, <1>6 DEF r, s, t, x, y
<1>8. CASE b < k + a
  <2>1. c * (k + a) >= c * b + c
    BY <1>8, MultiplesApart
  <2> QED
    BY <2>1, <1>5, <1>6, <1>7
<1>9. CASE k + a < b
  <2>1. c * b >= c * (k + a) + c
    BY <1>9, MultiplesApart
  <2> QED
    BY <2>1, <1>5, <1>6, <1>7
<1>10. CASE b = k + a
  BY <1>10, <1>5, <1>6, <1>7 DEF x, y, r, s, t
<1> QED
  BY <1>8, <1>9, <1>10
=============================================================================
