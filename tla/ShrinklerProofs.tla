--------------------------- MODULE ShrinklerProofs ---------------------------
(***************************************************************************)
(* Proofs about Shrinkler's range coder: for all widths of its registers   *)
(* and bytes and every sequence of bits in any contexts, both decoders     *)
(* read back what was coded.                                               *)
(***************************************************************************)
EXTENDS RangeCoder, WellFoundedInduction, TLAPS

-----------------------------------------------------------------------------
(* Induction over the natural numbers, of a set instead of a predicate;    *)
(* and the numbers that sequences of digits form.                          *)

Less == {p \in Nat \X Nat : p[1] < p[2]}

LEMMA Least ==
  ASSUME NEW S, S \subseteq Nat, S # {}
  PROVE  \E n \in S : \A m \in S : n <= m
<1>1. IsWellFoundedOn(Less, Nat)
  BY NatLessThanWellFounded DEF OpToRel, Less
<1>2. PICK n \in S : \A m \in S : <<m, n>> \notin Less
  BY <1>1, WFMin
<1>3. \A m \in S : ~(m < n)
  BY <1>2 DEF Less
<1>4. QED
  BY <1>3

\* What holds of 0 and, with a number, of the next, holds of every number.
LEMMA Induction ==
  ASSUME NEW S, 0 \in S, \A n \in Nat : n \in S => n + 1 \in S
  PROVE  \A n \in Nat : n \in S
<1> SUFFICES ASSUME Nat \ S # {}
             PROVE  FALSE
  OBVIOUS
<1>1. PICK n \in Nat \ S : \A m \in Nat \ S : n <= m
  BY Least
<1>2. n - 1 \in Nat /\ n - 1 \in S
  BY <1>1
<1>3. QED
  BY <1>1, <1>2

Doubles(f, a, b, n) ==
  /\ f \in [0..n -> Nat]
  /\ f[0] = a
  /\ \A k \in 0..n - 1 : f[k + 1] = 2 * f[k] + b[k]

LEMMA NumbersUnique ==
  ASSUME NEW a, NEW b, NEW m \in Nat, NEW n \in Nat, m <= n,
         NEW f, NEW g, Doubles(f, a, b, m), Doubles(g, a, b, n)
  PROVE  f[m] = g[m]
<1> DEFINE S == {k \in Nat : k <= m => f[k] = g[k]}
<1>1. 0 \in S
  BY DEF Doubles
<1>2. \A k \in Nat : k \in S => k + 1 \in S
  BY DEF Doubles
<1>3. \A k \in Nat : k \in S
  <2> HIDE DEF S
  <2> QED BY <1>1, <1>2, Induction
<1>4. QED
  BY <1>3

\* The numbers that the digits in b form after a.
LEMMA NumbersExist ==
  ASSUME NEW a \in Nat, NEW b \in [Nat -> Nat]
  PROVE  \E f \in [Nat -> Nat] : f[0] = a /\ \A n \in Nat : f[n + 1] = 2 * f[n] + b[n]
<1> DEFINE S == {n \in Nat : \E f : Doubles(f, a, b, n)}
<1>1. 0 \in S
  <2>1. Doubles([k \in 0..0 |-> a], a, b, 0)
    BY DEF Doubles
  <2>2. QED
    BY <2>1
<1>2. ASSUME NEW n \in Nat, n \in S
      PROVE  n + 1 \in S
  <2>1. PICK f : Doubles(f, a, b, n)
    BY <1>2
  <2>b. n \in Nat /\ n \in 0..n
    OBVIOUS
  <2> DEFINE next == 2 * f[n] + b[n]
             g    == [k \in 0..n + 1 |-> IF k <= n THEN f[k] ELSE next]
  <2>2. n \in 0..n /\ f \in [0..n -> Nat] /\ f[0] = a /\ \A k \in 0..n - 1 : f[k + 1] = 2 * f[k] + b[k]
    BY <2>1, <2>b, Zenon DEF Doubles
  <2>3. next \in Nat
    <3>1. f[n] \in Nat /\ b[n] \in Nat
      BY <2>2
    <3>2. QED
      BY <3>1
  <2>a. \A k \in 0..n : f[k] \in Nat
    BY <2>2
  <2>4. g \in [0..n + 1 -> Nat] /\ g[0] = a
    <3> HIDE DEF next
    <3>1. \A k \in 0..n + 1 : (IF k <= n THEN f[k] ELSE next) \in Nat
      BY <2>3, <2>a
    <3>2. 0 \in 0..n + 1 /\ 0 <= n
      OBVIOUS
    <3>3. g[0] = f[0]
      BY <3>2
    <3>4. g \in [0..n + 1 -> Nat]
      BY <3>1
    <3>5. QED
      BY <2>2, <3>3, <3>4
  <2>5. ASSUME NEW k \in 0..(n + 1) - 1
        PROVE  g[k + 1] = 2 * g[k] + b[k]
    <3>1. CASE k = n
      <4> HIDE DEF next
      <4>a. k + 1 \in 0..n + 1 /\ ~(k + 1 <= n) /\ k \in 0..n + 1 /\ k <= n
        BY <3>1
      <4>1. g[k + 1] = next /\ g[k] = f[n]
        BY <3>1, <4>a
      <4>2. QED
        BY <3>1, <4>1 DEF next
    <3>2. CASE k # n
      <4>1. k \in 0..n - 1 /\ k + 1 <= n /\ k <= n /\ k + 1 \in 0..n + 1 /\ k \in 0..n + 1
        BY <3>2
      <4>2. f[k + 1] = 2 * f[k] + b[k]
        BY <2>2, <4>1
      <4> HIDE DEF next
      <4>3. g[k + 1] = f[k + 1] /\ g[k] = f[k]
        BY <4>1
      <4>4. QED
        BY <4>2, <4>3
    <3>3. QED
      BY <3>1, <3>2
  <2>6. Doubles(g, a, b, n + 1)
    BY <2>4, <2>5 DEF Doubles
  <2>7. QED
    BY <2>6
<1>3. \A n \in Nat : \E f : Doubles(f, a, b, n)
  <2>1. \A n \in Nat : n \in S
    <3> HIDE DEF S
    <3> QED BY <1>1, <1>2, Induction
  <2>2. QED
    BY <2>1
<1> DEFINE upTo(n) == CHOOSE f : Doubles(f, a, b, n)
           h       == [n \in Nat |-> upTo(n)[n]]
<1>4. \A n \in Nat : Doubles(upTo(n), a, b, n)
  BY <1>3
<1> HIDE DEF upTo
<1>5. h \in [Nat -> Nat]
  BY <1>4 DEF Doubles
<1>6. h[0] = a
  BY <1>4 DEF Doubles
<1>7. ASSUME NEW n \in Nat
      PROVE  h[n + 1] = 2 * h[n] + b[n]
  <2>1. Doubles(upTo(n), a, b, n) /\ Doubles(upTo(n + 1), a, b, n + 1)
    BY <1>4
  <2>2. upTo(n)[n] = upTo(n + 1)[n]
    BY <2>1, NumbersUnique
  <2>3. upTo(n + 1)[n + 1] = 2 * upTo(n + 1)[n] + b[n]
    BY <2>1 DEF Doubles
  <2>4. QED
    BY <2>2, <2>3
<1>8. QED
  BY <1>5, <1>6, <1>7

-----------------------------------------------------------------------------
(* Powers of two.                                                          *)

LEMMA Pow2Is ==
  /\ Pow2 \in [Nat -> Nat]
  /\ Pow2[0] = 1
  /\ \A n \in Nat : Pow2[n + 1] = 2 * Pow2[n]
<1> DEFINE b == [n \in Nat |-> 0]
           P(f) == f = [n \in Nat |-> IF n = 0 THEN 1 ELSE 2 * f[n - 1]]
<1>1. b \in [Nat -> Nat] /\ \A n \in Nat : b[n] = 0
  OBVIOUS
<1> HIDE DEF b
<1>2. PICK f \in [Nat -> Nat] : f[0] = 1 /\ \A n \in Nat : f[n + 1] = 2 * f[n] + b[n]
  <2>1. 1 \in Nat
    OBVIOUS
  <2>2. QED
    BY <1>1, <2>1, NumbersExist
<1>3. \A n \in Nat : f[n + 1] = 2 * f[n]
  BY <1>1, <1>2
<1>4. ASSUME NEW n \in Nat
      PROVE  f[n] = IF n = 0 THEN 1 ELSE 2 * f[n - 1]
  <2>1. CASE n = 0
    BY <2>1, <1>2
  <2>2. CASE n # 0
    <3>1. n - 1 \in Nat /\ (n - 1) + 1 = n
      BY <2>2
    <3>2. f[(n - 1) + 1] = 2 * f[n - 1]
      BY <3>1, <1>3
    <3>3. QED
      BY <2>2, <3>1, <3>2
  <2>3. QED
    BY <2>1, <2>2
<1>5. P(f)
  BY <1>2, <1>4
<1>6. P(Pow2)
  BY <1>5, Zenon DEF Pow2
<1>7. \A n \in Nat : Pow2[n] = IF n = 0 THEN 1 ELSE 2 * Pow2[n - 1]
  BY <1>6
<1> DEFINE S == {n \in Nat : Pow2[n] \in Nat}
<1>8. 0 \in S
  BY <1>7
<1>9. ASSUME NEW n \in Nat
      PROVE  Pow2[n + 1] = 2 * Pow2[n]
  <2>1. n + 1 \in Nat /\ n + 1 # 0 /\ (n + 1) - 1 = n
    OBVIOUS
  <2>2. QED
    BY <2>1, <1>7
<1>10. \A n \in Nat : n \in S => n + 1 \in S
  BY <1>9
<1>11. \A n \in Nat : n \in S
  <2> HIDE DEF S
  <2> QED BY <1>8, <1>10, Induction
<1>12. \A n \in Nat : Pow2[n] \in Nat
  BY <1>11
<1>13. Pow2 \in [Nat -> Nat]
  BY <1>6, <1>12
<1>14. QED
  BY <1>7, <1>9, <1>13

LEMMA Pow2Positive == \A n \in Nat : Pow2[n] \in Nat \ {0}
<1> DEFINE S == {n \in Nat : Pow2[n] \in Nat \ {0}}
<1>1. 0 \in S
  BY Pow2Is
<1>2. \A n \in Nat : n \in S => n + 1 \in S
  BY Pow2Is
<1>3. \A n \in Nat : n \in S
  <2> HIDE DEF S
  <2> QED BY <1>1, <1>2, Induction
<1>4. QED
  BY <1>3

LEMMA Pow2Sum ==
  ASSUME NEW m \in Nat, NEW n \in Nat
  PROVE  Pow2[m + n] = Pow2[m] * Pow2[n]
<1> DEFINE S == {k \in Nat : Pow2[m + k] = Pow2[m] * Pow2[k]}
<1>1. 0 \in S
  BY Pow2Is
<1>2. ASSUME NEW k \in Nat, k \in S
      PROVE  k + 1 \in S
  <2>1. Pow2[m + (k + 1)] = 2 * Pow2[m + k]
    <3>1. m + k \in Nat /\ m + (k + 1) = (m + k) + 1
      OBVIOUS
    <3>2. QED
      BY <3>1, Pow2Is
  <2>2. Pow2[k + 1] = 2 * Pow2[k]
    BY Pow2Is
  <2>3. Pow2[m] \in Nat /\ Pow2[k] \in Nat
    BY Pow2Positive
  <2>4. Pow2[m] * (2 * Pow2[k]) = 2 * (Pow2[m] * Pow2[k])
    BY <2>3
  <2>5. QED
    BY <1>2, <2>1, <2>2, <2>4
<1>3. \A k \in Nat : k \in S
  <2> HIDE DEF S
  <2> QED BY <1>1, <1>2, Induction
<1>4. QED
  BY <1>3

LEMMA Pow2Grows ==
  ASSUME NEW m \in Nat, NEW n \in Nat, m <= n
  PROVE  Pow2[m] <= Pow2[n]
<1>1. n - m \in Nat /\ m + (n - m) = n
  OBVIOUS
<1>2. Pow2[n] = Pow2[m] * Pow2[n - m]
  BY <1>1, Pow2Sum
<1>3. Pow2[m] \in Nat /\ Pow2[n - m] \in Nat \ {0}
  BY <1>1, Pow2Positive
<1>4. \A x \in Nat, y \in Nat \ {0} : x <= x * y
  OBVIOUS
<1>5. QED
  BY <1>2, <1>3, <1>4

LEMMA Widths ==
  ASSUME WidthsAssumption
  PROVE  /\ One \in Nat /\ Half \in Nat /\ One = 2 * Half /\ Half >= 2
         /\ Byte \in Nat /\ ByteHalf \in Nat \ {0} /\ Byte = 2 * ByteHalf
         /\ Pow2[ADJUST_SHIFT] \in Nat /\ Pow2[ADJUST_SHIFT] >= 4
<1>1. /\ RangeBits - 1 \in Nat /\ (RangeBits - 1) + 1 = RangeBits /\ 1 <= RangeBits - 1
      /\ ByteBits - 1 \in Nat /\ (ByteBits - 1) + 1 = ByteBits
      /\ ADJUST_SHIFT \in Nat /\ 2 <= ADJUST_SHIFT
  BY DEF WidthsAssumption
<1>2. Pow2[0 + 1] = 2 /\ Pow2[1 + 1] = 4
  <2>1. Pow2[0 + 1] = 2 * Pow2[0] /\ Pow2[1 + 1] = 2 * Pow2[1] /\ Pow2[0] = 1
    BY Pow2Is
  <2>2. QED
    BY <2>1
<1>3. Pow2[1] = 2 /\ Pow2[2] = 4
  BY <1>2
<1>4. One = 2 * Half /\ Half \in Nat \ {0}
  <2>1. Pow2[(RangeBits - 1) + 1] = 2 * Pow2[RangeBits - 1]
    BY <1>1, Pow2Is
  <2>2. QED
    BY <1>1, <2>1, Pow2Positive DEF One, Half
<1>5. Byte = 2 * ByteHalf /\ ByteHalf \in Nat \ {0}
  <2>1. Pow2[(ByteBits - 1) + 1] = 2 * Pow2[ByteBits - 1]
    BY <1>1, Pow2Is
  <2>2. QED
    BY <1>1, <2>1, Pow2Positive DEF Byte, ByteHalf
<1>6. Half >= 2
  <2>1. Pow2[1] <= Pow2[RangeBits - 1]
    BY <1>1, Pow2Grows
  <2>2. QED
    BY <1>3, <1>4, <2>1 DEF Half
<1>7. Pow2[ADJUST_SHIFT] >= 4 /\ Pow2[ADJUST_SHIFT] \in Nat
  <2>1. Pow2[2] <= Pow2[ADJUST_SHIFT]
    BY <1>1, Pow2Grows
  <2>2. Pow2[ADJUST_SHIFT] \in Nat
    BY <1>1, Pow2Positive
  <2>3. QED
    BY <1>3, <2>1, <2>2
<1>8. QED
  BY <1>4, <1>5, <1>6, <1>7

-----------------------------------------------------------------------------
(* What a context learns, and the threshold it gives.                      *)

LEMMA Division ==
  ASSUME NEW x \in Nat, NEW d \in Nat \ {0}
  PROVE  x \div d \in Nat /\ (x \div d) * d <= x /\ x < (x \div d) * d + d
OBVIOUS

\* In an interval that fills its register, both bits have room.
LEMMA ThresholdFits ==
  ASSUME WidthsAssumption, NEW size \in Half..One - 1, NEW prob \in 2..One - 1
  PROVE  Threshold(size, prob) \in 1..size - 1
<1> DEFINE q == (size * prob) \div One
<1>1. One \in Nat /\ Half \in Nat /\ One = 2 * Half /\ Half >= 2
  BY Widths
<1>2. size \in Nat /\ prob \in Nat /\ size * prob \in Nat /\ One \in Nat \ {0}
  BY <1>1
<1>3. q \in Nat /\ q * One <= size * prob /\ size * prob < q * One + One
  BY <1>2, Division, Zenon
<1> HIDE DEF q
<1>4. size * 2 <= size * prob
  <2>1. \A x, y, z \in Nat : y <= z => x * y <= x * z
    OBVIOUS
  <2>2. QED
    BY <1>2, <2>1
<1>5. q >= 1
  <2>1. q = 0 => q * One + One = One
    BY <1>1
  <2>2. One <= size * prob
    BY <1>1, <1>2, <1>4
  <2>3. QED
    BY <1>1, <1>2, <1>3, <2>1, <2>2
<1>6. q < size
  <2>1. size * prob <= size * (One - 1) /\ size * (One - 1) = size * One - size
    <3>1. \A x, y, z \in Nat : y <= z => x * y <= x * z
      OBVIOUS
    <3>2. One - 1 \in Nat /\ prob <= One - 1
      BY <1>1
    <3>3. size * (One - 1) = size * One - size
      BY <1>1, <1>2
    <3>4. QED
      BY <1>2, <3>1, <3>2, <3>3
  <2>2. q * One < size * One
    BY <1>1, <1>2, <1>3, <2>1
  <2>3. \A x, y, z \in Nat : x * z < y * z => x < y
    OBVIOUS
  <2>4. QED
    BY <1>1, <1>2, <1>3, <2>2, <2>3
<1>7. QED
  BY <1>2, <1>3, <1>5, <1>6 DEF Threshold, q

\* Dividing by four or more brings numbers closer to one another.
LEMMA QuotientsCloser ==
  ASSUME NEW x \in Nat, NEW y \in Nat, x <= y, NEW d \in Nat, d >= 4
  PROVE  /\ x \div d \in Nat /\ y \div d \in Nat
         /\ x \div d <= y \div d
         /\ (y \div d) - (x \div d) <= y - x
         /\ 4 * (x \div d) <= x
<1> DEFINE p == x \div d
           q == y \div d
<1>1. p \in Nat /\ p * d <= x /\ x < p * d + d
  OBVIOUS
<1>2. q \in Nat /\ q * d <= y /\ y < q * d + d
  OBVIOUS
<1> HIDE DEF p, q
<1>3. p <= q
  <2>1. p * d < (q + 1) * d
    BY <1>1, <1>2
  <2>2. \A u, v, z \in Nat : u * z < v * z => u < v
    OBVIOUS
  <2>3. q + 1 \in Nat
    BY <1>2
  <2>4. QED
    BY <1>1, <1>2, <2>1, <2>2, <2>3
<1>4. 4 * p <= p * d
  <2>1. \A u, v \in Nat : v >= 4 => 4 * u <= u * v
    OBVIOUS
  <2>2. QED
    BY <1>1, <2>1
<1>5. q - p <= y - x
  <2>1. CASE q = p
    BY <1>1, <2>1
  <2>2. CASE q # p
    <3> DEFINE e == q - p - 1
    <3>1. e \in Nat /\ q = p + e + 1
      BY <1>1, <1>2, <1>3, <2>2
    <3>2. q * d = p * d + e * d + d
      BY <1>1, <3>1
    <3>3. 4 * e <= e * d
      <4>1. \A u, v \in Nat : v >= 4 => 4 * u <= u * v
        OBVIOUS
      <4>2. QED
        BY <3>1, <4>1
    <3> HIDE DEF e
    <3>4. y - x > e * d
      BY <1>1, <1>2, <3>1, <3>2
    <3>5. QED
      BY <1>1, <1>2, <3>1, <3>3, <3>4
  <2>3. QED
    BY <2>1, <2>2
<1>6. QED
  BY <1>1, <1>2, <1>3, <1>4, <1>5 DEF p, q

\* A probability never comes to exclude a bit.
LEMMA LearnedStays ==
  ASSUME WidthsAssumption, NEW prob \in 2..One - 1, NEW bit \in {0, 1}
  PROVE  Learned(prob, bit) \in 2..One - 1
<1> DEFINE d == Pow2[ADJUST_SHIFT]
           p == prob \div d
           m == One - 1
           q == m \div d
<1>1. One \in Nat /\ One >= 4 /\ d \in Nat /\ d >= 4
  BY Widths
<1>2. prob \in Nat /\ m \in Nat /\ prob <= m /\ m = One - 1
  BY <1>1
<1> HIDE DEF d, m
<1>3. /\ p \in Nat /\ q \in Nat /\ p <= q
      /\ q - p <= m - prob
      /\ 4 * p <= prob
  <2> USE DEF p, q
  <2>1. /\ prob \div d \in Nat /\ m \div d \in Nat
        /\ prob \div d <= m \div d
        /\ (m \div d) - (prob \div d) <= m - prob
        /\ 4 * (prob \div d) <= prob
    BY <1>1, <1>2, QuotientsCloser, Zenon
  <2>2. QED
    BY <2>1, Zenon
<1> HIDE DEF p, q
<1>4. prob - p \in 2..One - 1 /\ prob - p + q \in 2..One - 1
  BY <1>1, <1>2, <1>3
<1>5. AfterZero(prob) = prob - p /\ AfterOne(prob) = prob - p + q
  BY DEF AfterZero, AfterOne, p, q, d, m
<1>6. QED
  BY <1>4, <1>5 DEF Learned

-----------------------------------------------------------------------------
(* The numbers that the first bits of a sequence form.                     *)

Bits == {0, 1}

BitAt(s, n) == IF n \in DOMAIN s THEN s[n] ELSE 0

\* P[n] is the number of the first n bits of s and as many zeros as it takes.
Prefixes(P, s) ==
  /\ P \in [Nat -> Nat]
  /\ P[0] = 0
  /\ \A n \in Nat : P[n + 1] = 2 * P[n] + BitAt(s, n + 1)

\* P[n] is the number of the first n bits of s and whatever follows it.
Continues(P, s) ==
  /\ P \in [Nat -> Nat]
  /\ P[0] = 0
  /\ \A n \in Nat : P[n + 1] \in {2 * P[n], 2 * P[n] + 1}
  /\ \A n \in Nat : n < Len(s) => P[n + 1] = 2 * P[n] + s[n + 1]

LEMMA BitAtIsBit ==
  ASSUME NEW s \in Seq(Bits), NEW n \in Nat
  PROVE  BitAt(s, n) \in Bits
BY DEF BitAt, Bits

LEMMA PrefixesExist ==
  ASSUME NEW s \in Seq(Bits)
  PROVE  \E P : Prefixes(P, s)
<1> DEFINE b == [n \in Nat |-> BitAt(s, n + 1)]
<1>1. b \in [Nat -> Nat]
  <2>1. ASSUME NEW n \in Nat
        PROVE  BitAt(s, n + 1) \in Nat
    <3>1. n + 1 \in Nat
      OBVIOUS
    <3>2. BitAt(s, n + 1) \in Bits
      BY <3>1, BitAtIsBit
    <3>3. QED
      BY <3>2 DEF Bits
  <2>2. QED
    BY <2>1
<1>2. \A n \in Nat : b[n] = BitAt(s, n + 1)
  OBVIOUS
<1>3. 0 \in Nat
  OBVIOUS
<1> HIDE DEF b
<1>4. PICK P \in [Nat -> Nat] : P[0] = 0 /\ \A n \in Nat : P[n + 1] = 2 * P[n] + b[n]
  BY <1>1, <1>3, NumbersExist
<1>5. Prefixes(P, s)
  BY <1>2, <1>4 DEF Prefixes
<1>6. QED
  BY <1>5

LEMMA PrefixesContinue ==
  ASSUME NEW s \in Seq(Bits), NEW P, Prefixes(P, s)
  PROVE  Continues(P, s)
<1>1. ASSUME NEW n \in Nat
      PROVE  P[n + 1] \in {2 * P[n], 2 * P[n] + 1} /\ (n < Len(s) => P[n + 1] = 2 * P[n] + s[n + 1])
  <2>a. P \in [Nat -> Nat] /\ \A k \in Nat : P[k + 1] = 2 * P[k] + BitAt(s, k + 1)
    BY DEF Prefixes
  <2>1. P[n] \in Nat /\ P[n + 1] = 2 * P[n] + BitAt(s, n + 1) /\ n + 1 \in Nat
    <3>1. P[n] \in Nat
      BY <2>a
    <3>2. P[n + 1] = 2 * P[n] + BitAt(s, n + 1)
      BY <2>a, Zenon
    <3>3. QED
      BY <3>1, <3>2
  <2>2. BitAt(s, n + 1) \in Bits
    BY <2>1, BitAtIsBit
  <2>3. n < Len(s) => BitAt(s, n + 1) = s[n + 1]
    BY DEF BitAt
  <2>4. QED
    BY <2>1, <2>2, <2>3 DEF Bits
<1>2. QED
  BY <1>1 DEF Prefixes, Continues

\* Within s, all who continue it agree.
LEMMA ContinuationsAgree ==
  ASSUME NEW s \in Seq(Bits), NEW P, NEW Q, Continues(P, s), Continues(Q, s),
         NEW m \in Nat, m <= Len(s)
  PROVE  P[m] = Q[m]
<1> DEFINE S == {n \in Nat : n <= Len(s) => P[n] = Q[n]}
<1>0. Len(s) \in Nat
  OBVIOUS
<1>1. 0 \in S
  BY DEF Continues
<1>2. ASSUME NEW n \in Nat, n \in S
      PROVE  n + 1 \in S
  <2>1. CASE n + 1 <= Len(s)
    <3>1. n < Len(s) /\ P[n] = Q[n]
      BY <1>0, <1>2, <2>1
    <3>2. P[n + 1] = 2 * P[n] + s[n + 1] /\ Q[n + 1] = 2 * Q[n] + s[n + 1]
      BY <3>1 DEF Continues
    <3>3. QED
      BY <3>1, <3>2
  <2>2. CASE ~(n + 1 <= Len(s))
    BY <2>2
  <2>3. QED
    BY <2>1, <2>2
<1>3. \A n \in Nat : n \in S
  <2> HIDE DEF S
  <2> QED BY <1>1, <1>2, Induction
<1>4. QED
  BY <1>3

\* Further bits move a number within the place it has.
LEMMA NumbersNest ==
  ASSUME NEW s, NEW Q, Continues(Q, s), NEW n \in Nat, NEW e \in Nat
  PROVE  Q[n] * Pow2[e] <= Q[n + e] /\ Q[n + e] < Q[n] * Pow2[e] + Pow2[e]
<1> DEFINE S == {k \in Nat : Q[n] * Pow2[k] <= Q[n + k] /\ Q[n + k] < Q[n] * Pow2[k] + Pow2[k]}
<1>1. Q[n] \in Nat
  BY DEF Continues
<1>2. 0 \in S
  BY <1>1, Pow2Is
<1>3. ASSUME NEW k \in Nat, k \in S
      PROVE  k + 1 \in S
  <2> DEFINE x == Q[n] * Pow2[k]
  <2>1. n + k \in Nat /\ n + (k + 1) = (n + k) + 1
    OBVIOUS
  <2>2. Q[n + k] \in Nat /\ Q[(n + k) + 1] \in {2 * Q[n + k], 2 * Q[n + k] + 1}
    BY <2>1 DEF Continues
  <2>3. Pow2[k + 1] = 2 * Pow2[k] /\ Pow2[k] \in Nat
    BY Pow2Is, Pow2Positive
  <2>4. Q[n] * Pow2[k + 1] = 2 * x /\ x \in Nat
    BY <1>1, <2>3
  <2>5. x <= Q[n + k] /\ Q[n + k] < x + Pow2[k]
    BY <1>3
  <2> HIDE DEF x
  <2>6. 2 * x <= Q[n + (k + 1)] /\ Q[n + (k + 1)] < 2 * x + 2 * Pow2[k]
    BY <2>1, <2>2, <2>3, <2>4, <2>5
  <2>7. QED
    BY <2>3, <2>4, <2>6
<1>4. \A k \in Nat : k \in S
  <2> HIDE DEF S
  <2> QED BY <1>2, <1>3, Induction
<1>5. QED
  BY <1>4

-----------------------------------------------------------------------------
(* Carries.                                                                *)

WholeBytes(s) == \E m \in Nat : Len(s) = m * ByteBits

EmptyFrom(s, dest) == \A n \in Nat : n > dest => BitAt(s, n) = 0

\* One can be added to the number of the first dest bits.
HasRoom(P, dest) == P[dest] + 1 < Pow2[dest]

LEMMA PaddedIs ==
  ASSUME WidthsAssumption, NEW out \in Seq(Bits), NEW n \in Nat
  PROVE  LET s == Padded(out, n)
         IN  /\ s \in Seq(Bits)
             /\ n <= Len(s)
             /\ WholeBytes(out) => WholeBytes(s)
             /\ \A k \in Nat : BitAt(s, k) = BitAt(out, k)
<1> DEFINE q    == InBytes(n)
           bits == q * ByteBits
           zeros == [i \in 1..(bits - Len(out)) |-> 0]
           s    == Padded(out, n)
<1>1. ByteBits \in Nat \ {0} /\ Len(out) \in Nat
  BY DEF WidthsAssumption
<1>2. q \in Nat /\ n <= bits
  <2> DEFINE x == n + ByteBits - 1
  <2>1. x \in Nat
    BY <1>1
  <2> HIDE DEF x
  <2>2. x \div ByteBits \in Nat /\ x < (x \div ByteBits) * ByteBits + ByteBits
    BY <1>1, <2>1, Division, Zenon
  <2>3. q = x \div ByteBits
    BY DEF InBytes, x
  <2> HIDE DEF q
  <2>4. x < bits + ByteBits /\ q \in Nat
    BY <2>2, <2>3
  <2>5. bits \in Nat
    BY <1>1, <2>4
  <2> HIDE DEF bits
  <2>6. QED
    BY <1>1, <2>4, <2>5 DEF x
<1> HIDE DEF q
<1>3. bits \in Nat
  BY <1>1, <1>2
<1>4. s = IF bits > Len(out) THEN out \o zeros ELSE out
  BY DEF Padded, q
<1> HIDE DEF s
<1>5. CASE bits > Len(out)
  <2>1. zeros \in Seq(Bits) /\ Len(zeros) = bits - Len(out) /\ \A k \in 1..bits - Len(out) : zeros[k] = 0
    <3> HIDE DEF bits
    <3> QED BY <1>1, <1>3, <1>5 DEF Bits
  <2>2. s = out \o zeros
    BY <1>4, <1>5
  <2> HIDE DEF zeros
  <2>3. s \in Seq(Bits) /\ Len(s) = bits
    <3> HIDE DEF bits
    <3> QED BY <1>1, <1>3, <1>5, <2>1, <2>2
  <2>4. ASSUME NEW k \in Nat
        PROVE  BitAt(s, k) = BitAt(out, k)
    <3> HIDE DEF bits
    <3>1. DOMAIN s = 1..bits /\ DOMAIN out = 1..Len(out)
      BY <1>1, <1>3, <2>3
    <3>2. CASE k \in 1..Len(out)
      BY <1>1, <1>3, <1>5, <2>1, <2>2, <3>1, <3>2 DEF BitAt
    <3>3. CASE k \in Len(out) + 1..bits
      <4>1. s[k] = zeros[k - Len(out)]
        BY <1>1, <1>3, <1>5, <2>1, <2>2, <3>3
      <4>2. k - Len(out) \in 1..bits - Len(out)
        BY <1>1, <1>3, <3>3
      <4>3. QED
        BY <1>1, <1>3, <2>1, <3>1, <3>3, <4>1, <4>2 DEF BitAt
    <3>4. CASE k \notin 1..bits
      BY <1>1, <1>3, <1>5, <3>1, <3>4 DEF BitAt
    <3>5. QED
      BY <1>1, <1>3, <3>2, <3>3, <3>4
  <2>5. WholeBytes(s)
    BY <1>2, <2>3 DEF WholeBytes
  <2>6. QED
    BY <1>2, <2>3, <2>4, <2>5 DEF s
<1>6. CASE ~(bits > Len(out))
  <2>1. s = out
    BY <1>4, <1>6
  <2>2. n <= Len(out)
    <3> HIDE DEF bits
    <3> QED BY <1>1, <1>2, <1>3, <1>6
  <2>3. QED
    BY <2>1, <2>2 DEF s
<1>7. QED
  BY <1>5, <1>6

LEMMA MaxIs ==
  ASSUME NEW n \in Nat, NEW S \in SUBSET (1..n), S # {}
  PROVE  Max(S) \in S /\ \A m \in S : m <= Max(S)
<1> DEFINE T == {n - m : m \in S}
<1>1. T \subseteq Nat /\ T # {}
  OBVIOUS
<1> HIDE DEF T
<1>2. PICK t \in T : \A u \in T : t <= u
  BY <1>1, Least
<1>3. PICK x \in S : t = n - x
  BY <1>2 DEF T
<1>4. ASSUME NEW y \in S
      PROVE  x >= y
  <2>1. n - y \in T
    BY DEF T
  <2>2. n - x <= n - y /\ x \in Nat /\ y \in Nat
    BY <1>2, <1>3, <2>1
  <2>3. QED
    BY <2>2
<1>5. \E z \in S : \A y \in S : z >= y
  BY <1>4
<1>6. Max(S) \in S /\ \A y \in S : Max(S) >= y
  BY <1>5 DEF Max
<1>7. QED
  BY <1>6

\* addBit() makes the number one more, and never runs past its first bit.
LEMMA AddBitAdds ==
  ASSUME WidthsAssumption, NEW out \in Seq(Bits), WholeBytes(out), NEW dest \in Nat, EmptyFrom(out, dest),
         NEW P, Prefixes(P, out), HasRoom(P, dest)
  PROVE  LET new == AddBit(out, dest)
         IN  /\ new \in Seq(Bits) /\ WholeBytes(new) /\ EmptyFrom(new, dest)
             /\ \E Q : Prefixes(Q, new) /\ Q[dest] = P[dest] + 1
<1> DEFINE bits  == Padded(out, dest)
           zeros == {p \in 1..dest : bits[p] = 0}
           stop  == Max(zeros)
           new   == [p \in DOMAIN bits |-> IF p \in stop..dest THEN 1 - bits[p] ELSE bits[p]]
<1>1. /\ bits \in Seq(Bits) /\ dest <= Len(bits) /\ WholeBytes(bits)
      /\ \A k \in Nat : BitAt(bits, k) = BitAt(out, k)
  BY PaddedIs
<1> HIDE DEF bits
<1>2. P \in [Nat -> Nat] /\ P[0] = 0 /\ \A n \in Nat : P[n + 1] = 2 * P[n] + BitAt(bits, n + 1)
  <2>1. \A n \in Nat : n + 1 \in Nat
    OBVIOUS
  <2>2. QED
    BY <1>1, <2>1, Zenon DEF Prefixes
<1>a. P \in [Nat -> Nat]
  BY <1>2
<1>b. ASSUME NEW k \in Nat
      PROVE  P[k] \in Nat /\ k + 1 \in Nat
  <2>1. P[k] \in Nat
    BY <1>a, Zenon
  <2>2. QED
    BY <2>1
<1>3. \A p \in 1..dest : p \in DOMAIN bits /\ bits[p] \in Bits
  BY <1>1
<1>4. zeros # {}
  <2> SUFFICES ASSUME zeros = {}
               PROVE  FALSE
    OBVIOUS
  <2>1. \A p \in 1..dest : bits[p] = 1
    BY <1>3 DEF Bits
  <2> DEFINE S == {k \in Nat : k <= dest => P[k] + 1 = Pow2[k]}
  <2>2. 0 \in S
    BY <1>2, Pow2Is
  <2>3. ASSUME NEW k \in Nat, k \in S
        PROVE  k + 1 \in S
    <3>1. CASE k + 1 <= dest
      <4>1. k + 1 \in 1..dest /\ P[k] + 1 = Pow2[k]
        BY <2>3, <3>1
      <4>2. BitAt(bits, k + 1) = 1
        BY <1>3, <2>1, <4>1 DEF BitAt
      <4>3. P[k + 1] = 2 * P[k] + 1 /\ P[k] \in Nat /\ Pow2[k + 1] = 2 * Pow2[k] /\ Pow2[k] \in Nat
        BY <1>2, <4>2, Pow2Is
      <4>4. P[k + 1] + 1 = Pow2[k + 1]
        <5>1. \A x \in Nat : (2 * x + 1) + 1 = 2 * (x + 1)
          OBVIOUS
        <5> HIDE DEF S
        <5>2. (2 * P[k] + 1) + 1 = 2 * (P[k] + 1)
          BY <4>3, <5>1, Zenon
        <5>3. QED
          BY <4>1, <4>3, <5>2, Zenon
      <4>5. QED
        BY <4>4
    <3>2. CASE ~(k + 1 <= dest)
      BY <3>2
    <3>3. QED
      BY <3>1, <3>2
  <2>4. \A k \in Nat : k \in S
    <3> HIDE DEF S
    <3> QED BY <2>2, <2>3, Induction
  <2>5. P[dest] + 1 = Pow2[dest]
    BY <2>4
  <2>6. P[dest] \in Nat /\ Pow2[dest] \in Nat
    BY <1>2, Pow2Positive
  <2>7. QED
    BY <2>5, <2>6 DEF HasRoom
<1>5. AddBit(out, dest) = new
  BY <1>4 DEF AddBit, bits
<1>6. stop \in zeros /\ \A m \in zeros : m <= stop
  <2>1. zeros \in SUBSET (1..dest)
    OBVIOUS
  <2> HIDE DEF zeros
  <2>2. QED
    BY <1>4, <2>1, MaxIs
<1> HIDE DEF stop
<1>7. stop \in 1..dest /\ bits[stop] = 0 /\ \A p \in 1..dest : p > stop => bits[p] = 1
  <2>1. stop \in 1..dest /\ bits[stop] = 0
    BY <1>6
  <2>2. ASSUME NEW p \in 1..dest, p > stop
        PROVE  bits[p] = 1
    <3>1. p \notin zeros
      BY <1>6, <2>1, <2>2
    <3>2. QED
      BY <1>3, <3>1 DEF Bits
  <2>3. QED
    BY <2>1, <2>2
<1>8. new \in Seq(Bits) /\ Len(new) = Len(bits) /\ DOMAIN new = DOMAIN bits
  <2>1. \A p \in DOMAIN bits : bits[p] \in Bits
    BY <1>1
  <2>2. \A p \in DOMAIN bits : (IF p \in stop..dest THEN 1 - bits[p] ELSE bits[p]) \in Bits
    BY <2>1 DEF Bits
  <2>3. DOMAIN bits = 1..Len(bits) /\ Len(bits) \in Nat
    BY <1>1
  <2>4. new \in [1..Len(bits) -> Bits]
    BY <2>2, <2>3
  <2>5. QED
    BY <2>3, <2>4
<1>9. \A p \in DOMAIN bits : new[p] = IF p \in stop..dest THEN 1 - bits[p] ELSE bits[p]
  OBVIOUS
<1> HIDE DEF new
<1>10. EmptyFrom(new, dest)
  <2> SUFFICES ASSUME NEW n \in Nat, n > dest
               PROVE  BitAt(new, n) = 0
    BY DEF EmptyFrom
  <2>1. n \notin stop..dest
    BY <1>7
  <2>2. BitAt(new, n) = BitAt(bits, n)
    BY <1>8, <1>9, <2>1 DEF BitAt
  <2>3. BitAt(out, n) = 0
    BY DEF EmptyFrom
  <2>4. QED
    BY <1>1, <2>2, <2>3
<1>11. WholeBytes(new)
  BY <1>1, <1>8 DEF WholeBytes
<1>12. PICK Q : Prefixes(Q, new)
  BY <1>8, PrefixesExist
<1>13. Q \in [Nat -> Nat] /\ Q[0] = 0 /\ \A n \in Nat : Q[n + 1] = 2 * Q[n] + BitAt(new, n + 1)
  BY <1>12, Zenon DEF Prefixes
<1> DEFINE More(k) == IF k >= stop THEN P[k] + 1 ELSE P[k]
           S == {k \in Nat : k <= dest => Q[k] = More(k)}
<1>14. 0 \in S
  BY <1>2, <1>7, <1>13
<1>15. ASSUME NEW k \in Nat, k \in S
       PROVE  k + 1 \in S
  <2>1. CASE k + 1 <= dest
    <3>1. k + 1 \in 1..dest /\ Q[k] = More(k) /\ k + 1 \in DOMAIN bits
      BY <1>3, <1>15, <2>1
    <3>2. BitAt(bits, k + 1) = bits[k + 1] /\ BitAt(new, k + 1) = new[k + 1]
      BY <1>8, <3>1 DEF BitAt
    <3>3. P[k + 1] = 2 * P[k] + bits[k + 1] /\ Q[k + 1] = 2 * Q[k] + new[k + 1] /\ P[k] \in Nat /\ Q[k] \in Nat
      BY <1>2, <1>13, <3>2
    <3>a. bits[k + 1] \in Bits /\ P[k + 1] \in Nat
      BY <1>b, <1>3, <3>1, Zenon
    <3>4. CASE k + 1 < stop
      <4>1. new[k + 1] = bits[k + 1] /\ Q[k] = P[k]
        BY <1>7, <1>9, <3>1, <3>4
      <4>2. QED
        BY <1>7, <3>3, <3>a, <3>4, <4>1
    <3>5. CASE k + 1 = stop
      <4>1. new[k + 1] = 1 /\ bits[k + 1] = 0 /\ Q[k] = P[k]
        BY <1>7, <1>9, <3>1, <3>5
      <4>2. QED
        BY <1>7, <3>3, <3>a, <3>5, <4>1
    <3>6. CASE k + 1 > stop
      <4>1. new[k + 1] = 0 /\ bits[k + 1] = 1 /\ Q[k] = P[k] + 1
        BY <1>7, <1>9, <3>1, <3>6
      <4>2. Q[k + 1] = P[k + 1] + 1
        <5>1. \A x \in Nat : 2 * (x + 1) + 0 = (2 * x + 1) + 1
          OBVIOUS
        <5> HIDE DEF S
        <5>2. 2 * (P[k] + 1) + 0 = (2 * P[k] + 1) + 1
          BY <3>3, <5>1, Zenon
        <5>3. Q[k + 1] = 2 * (P[k] + 1) + 0 /\ P[k + 1] = 2 * P[k] + 1
          BY <3>3, <4>1, Zenon
        <5>4. QED
          BY <5>2, <5>3, Zenon
      <4>3. QED
        BY <1>7, <3>6, <4>2
    <3>7. QED
      BY <1>7, <3>4, <3>5, <3>6
  <2>2. CASE ~(k + 1 <= dest)
    BY <2>2
  <2>3. QED
    BY <2>1, <2>2
<1>16. \A k \in Nat : k \in S
  <2> HIDE DEF S
  <2> QED BY <1>14, <1>15, Induction
<1>17. Q[dest] = P[dest] + 1
  BY <1>7, <1>16
<1>18. QED
  BY <1>5, <1>8, <1>10, <1>11, <1>12, <1>17

\* The first dest bits of out form the number V, and nothing follows them.
Stands(out, dest, V) ==
  /\ out \in Seq(Bits) /\ WholeBytes(out) /\ EmptyFrom(out, dest)
  /\ \E P : Prefixes(P, out) /\ V = (IF dest = -1 THEN 0 ELSE P[dest])

LEMMA PrefixStep ==
  ASSUME NEW s, NEW P, Prefixes(P, s), NEW n \in Nat
  PROVE  P[n] \in Nat /\ P[0] = 0 /\ P[n + 1] = 2 * P[n] + BitAt(s, n + 1)
<1>1. P \in [Nat -> Nat] /\ P[0] = 0 /\ P[n + 1] = 2 * P[n] + BitAt(s, n + 1)
  BY Zenon DEF Prefixes
<1>2. P[n] \in Nat
  BY <1>1
<1>3. QED
  BY <1>1, <1>2

LEMMA ContinuesStep ==
  ASSUME NEW s, NEW Q, Continues(Q, s), NEW n \in Nat
  PROVE  /\ Q[n] \in Nat /\ Q[0] = 0
         /\ Q[n + 1] \in {2 * Q[n], 2 * Q[n] + 1}
         /\ n < Len(s) => Q[n + 1] = 2 * Q[n] + s[n + 1]
<1>1. /\ Q \in [Nat -> Nat] /\ Q[0] = 0
      /\ Q[n + 1] \in {2 * Q[n], 2 * Q[n] + 1}
      /\ n < Len(s) => Q[n + 1] = 2 * Q[n] + s[n + 1]
  BY Zenon DEF Continues
<1>2. Q[n] \in Nat
  BY <1>1
<1>3. QED
  BY <1>1, <1>2

LEMMA NothingStands ==
  ASSUME WidthsAssumption
  PROVE  Stands(<<>>, -1, 0)
<1>1. <<>> \in Seq(Bits) /\ Len(<<>>) = 0
  OBVIOUS
<1>2. WholeBytes(<<>>)
  <2>1. Len(<<>>) = 0 * ByteBits
    BY <1>1 DEF WidthsAssumption
  <2>2. QED
    BY <2>1 DEF WholeBytes
<1>3. EmptyFrom(<<>>, -1)
  BY <1>1 DEF EmptyFrom, BitAt
<1>4. PICK P : Prefixes(P, <<>>)
  BY <1>1, PrefixesExist
<1>5. QED
  BY <1>1, <1>2, <1>3, <1>4 DEF Stands

LEMMA StandsNumber ==
  ASSUME NEW out, NEW dest \in Nat \union {-1}, NEW V, Stands(out, dest, V)
  PROVE  V \in Nat /\ out \in Seq(Bits) /\ (dest = -1 => V = 0)
<1>1. PICK P : Prefixes(P, out) /\ V = (IF dest = -1 THEN 0 ELSE P[dest])
  BY DEF Stands
<1>2. dest # -1 => P[dest] \in Nat
  BY <1>1, PrefixStep
<1>3. QED
  BY <1>1, <1>2 DEF Stands

\* One more bit, still zero, is counted.
LEMMA StandsShifted ==
  ASSUME NEW out, NEW dest \in Nat \union {-1}, NEW V, Stands(out, dest, V)
  PROVE  Stands(out, dest + 1, 2 * V)
<1>1. PICK P : Prefixes(P, out) /\ V = (IF dest = -1 THEN 0 ELSE P[dest])
  BY DEF Stands
<1>2. EmptyFrom(out, dest + 1) /\ (dest \in Nat => BitAt(out, dest + 1) = 0)
  BY DEF Stands, EmptyFrom
<1>3. CASE dest = -1
  <2>1. 0 \in Nat /\ dest + 1 = 0 /\ 2 * V = 0
    BY <1>1, <1>3
  <2>2. P[0] = 0
    BY <1>1, <2>1, PrefixStep
  <2>3. QED
    BY <1>1, <1>2, <2>1, <2>2 DEF Stands
<1>4. CASE dest \in Nat
  <2>1. V = P[dest] /\ dest + 1 # -1
    BY <1>1, <1>4
  <2>2. P[dest + 1] = 2 * P[dest] + BitAt(out, dest + 1) /\ P[dest] \in Nat
    BY <1>1, <1>4, PrefixStep
  <2>3. 2 * V = P[dest + 1]
    BY <1>2, <1>4, <2>1, <2>2
  <2>4. QED
    BY <1>1, <1>2, <2>1, <2>3 DEF Stands
<1>5. QED
  BY <1>3, <1>4

LEMMA StandsOneMore ==
  ASSUME WidthsAssumption, NEW out, NEW dest \in Nat, NEW V, Stands(out, dest, V), V + 1 < Pow2[dest]
  PROVE  Stands(AddBit(out, dest), dest, V + 1)
<1>1. PICK P : Prefixes(P, out) /\ V = P[dest]
  BY DEF Stands
<1>2. HasRoom(P, dest)
  BY <1>1 DEF HasRoom
<1>3. out \in Seq(Bits) /\ WholeBytes(out) /\ EmptyFrom(out, dest)
  BY DEF Stands
<1> DEFINE new == AddBit(out, dest)
<1>4. /\ new \in Seq(Bits) /\ WholeBytes(new) /\ EmptyFrom(new, dest)
      /\ \E Q : Prefixes(Q, new) /\ Q[dest] = P[dest] + 1
  BY <1>1, <1>2, <1>3, AddBitAdds, Zenon
<1> HIDE DEF new
<1>5. Stands(new, dest, V + 1)
  BY <1>1, <1>4 DEF Stands
<1>6. QED
  BY <1>5 DEF new

LEMMA StandsPadded ==
  ASSUME WidthsAssumption, NEW out, NEW dest \in Nat, NEW V, Stands(out, dest, V)
  PROVE  Stands(Padded(out, dest), dest, V) /\ dest <= Len(Padded(out, dest))
<1>1. PICK P : Prefixes(P, out) /\ V = P[dest]
  BY DEF Stands
<1>2. out \in Seq(Bits) /\ WholeBytes(out) /\ EmptyFrom(out, dest)
  BY DEF Stands
<1> DEFINE new == Padded(out, dest)
<1>3. /\ new \in Seq(Bits) /\ dest <= Len(new) /\ WholeBytes(new)
      /\ \A k \in Nat : BitAt(new, k) = BitAt(out, k)
  BY <1>2, PaddedIs, Zenon
<1> HIDE DEF new
<1>4. EmptyFrom(new, dest)
  BY <1>2, <1>3, Zenon DEF EmptyFrom
<1>5. Prefixes(P, new)
  <2>1. \A n \in Nat : n + 1 \in Nat
    OBVIOUS
  <2>2. QED
    BY <1>1, <1>3, <2>1, Zenon DEF Prefixes
<1>6. Stands(new, dest, V)
  BY <1>1, <1>3, <1>4, <1>5 DEF Stands
<1>7. QED
  BY <1>3, <1>6 DEF new

LEMMA StandsInAll ==
  ASSUME NEW out, NEW dest \in Nat, NEW V, Stands(out, dest, V), dest <= Len(out),
         NEW Q, Continues(Q, out)
  PROVE  Q[dest] = V
<1>1. PICK P : Prefixes(P, out) /\ V = P[dest]
  BY DEF Stands
<1>2. out \in Seq(Bits)
  BY DEF Stands
<1>3. Continues(P, out)
  BY <1>1, <1>2, PrefixesContinue
<1>4. Q[dest] = P[dest]
  BY <1>2, <1>3, ContinuationsAgree
<1>5. QED
  BY <1>1, <1>4

-----------------------------------------------------------------------------
(* The trail: every interval the coder has been in, with the doublings     *)
(* that made it and, in front, those the decoders start from.              *)

Codes == Seq(Contexts \X Bits)

Interval == [low : Nat, size : 1..One - 1, at : Nat, n : Nat, contexts : [Contexts -> 2..One - 1]]

Doubled(r) == [low |-> 2 * r.low, size |-> 2 * r.size, at |-> r.at + 1, n |-> r.n, contexts |-> r.contexts]

Narrowed(r, c, bit) ==
  LET threshold == Threshold(r.size, r.contexts[c])
  IN  [low |-> IF bit = 0 THEN r.low + threshold ELSE r.low,
       size |-> IF bit = 0 THEN r.size - threshold ELSE threshold,
       at |-> r.at, n |-> r.n + 1,
       contexts |-> [r.contexts EXCEPT ![c] = Learned(@, bit)]]

\* Where the bits in code lead from r.
Following(r, code) ==
  IF r.size < Half THEN Doubled(r) ELSE Narrowed(r, code[r.n + 1][1], code[r.n + 1][2])

Start == [low |-> 0, size |-> 1, at |-> 0, n |-> 0, contexts |-> Fresh]

Trail(S, last, code) ==
  /\ S \subseteq Interval /\ Start \in S /\ last \in S
  /\ last.n = Len(code)
  /\ \A r \in S : /\ r.n <= Len(code)
                  /\ r.at + r.n <= last.at + last.n
                  /\ r # last => /\ Following(r, code) \in S
                                 /\ r.size >= Half => r.n < Len(code)

LEMMA DoubledIs ==
  ASSUME WidthsAssumption, NEW r \in Interval, r.size < Half
  PROVE  /\ Doubled(r) \in Interval
         /\ Doubled(r).low = 2 * r.low /\ Doubled(r).size = 2 * r.size
         /\ Doubled(r).at = r.at + 1 /\ Doubled(r).n = r.n /\ Doubled(r).contexts = r.contexts
<1>1. One \in Nat /\ Half \in Nat /\ One = 2 * Half
  BY Widths
<1>2. 2 * r.size \in 1..One - 1 /\ 2 * r.low \in Nat /\ r.at + 1 \in Nat
  BY <1>1 DEF Interval
<1>3. QED
  BY <1>2 DEF Doubled, Interval

\* new is what coding bit in context c makes of r.
Narrows(new, r, c, bit) ==
  /\ new \in Interval
  /\ Threshold(r.size, r.contexts[c]) \in 1..r.size - 1
  /\ bit = 0 => /\ new.low = r.low + Threshold(r.size, r.contexts[c])
                /\ new.size = r.size - Threshold(r.size, r.contexts[c])
  /\ bit = 1 => new.low = r.low /\ new.size = Threshold(r.size, r.contexts[c])
  /\ new.at = r.at /\ new.n = r.n + 1
  /\ new.contexts = [r.contexts EXCEPT ![c] = Learned(@, bit)]

\* Coding a bit gives the lower part of the interval to a one, the upper to a
\* zero, and neither part is empty.
LEMMA NarrowedIs ==
  ASSUME WidthsAssumption, NEW r \in Interval, r.size >= Half, NEW c \in Contexts, NEW bit \in Bits
  PROVE  Narrows(Narrowed(r, c, bit), r, c, bit)
<1> DEFINE threshold == Threshold(r.size, r.contexts[c])
           new       == Narrowed(r, c, bit)
           learned   == [r.contexts EXCEPT ![c] = Learned(@, bit)]
<1>1. One \in Nat /\ Half \in Nat /\ One = 2 * Half
  BY Widths
<1>2. r.size \in Half..One - 1 /\ r.contexts \in [Contexts -> 2..One - 1] /\ r.low \in Nat /\ r.at \in Nat /\ r.n \in Nat
  BY <1>1 DEF Interval
<1>3. r.contexts[c] \in 2..One - 1
  BY <1>2
<1>4. threshold \in 1..r.size - 1
  BY <1>2, <1>3, ThresholdFits, Zenon
<1>5. learned \in [Contexts -> 2..One - 1]
  <2>1. Learned(r.contexts[c], bit) \in 2..One - 1
    BY <1>3, LearnedStays, Zenon DEF Bits
  <2>2. QED
    BY <1>2, <2>1
<1>6. new = [low |-> IF bit = 0 THEN r.low + threshold ELSE r.low,
             size |-> IF bit = 0 THEN r.size - threshold ELSE threshold,
             at |-> r.at, n |-> r.n + 1, contexts |-> learned]
  BY DEF Narrowed
<1> HIDE DEF threshold, learned, new
<1>7. new \in Interval
  <2>1. r.low + threshold \in Nat /\ r.size - threshold \in 1..One - 1 /\ threshold \in 1..One - 1 /\ r.n + 1 \in Nat
    BY <1>1, <1>2, <1>4
  <2>2. QED
    BY <1>2, <1>5, <1>6, <2>1 DEF Interval
<1>8. /\ bit = 0 => new.low = r.low + threshold /\ new.size = r.size - threshold
      /\ bit = 1 => new.low = r.low /\ new.size = threshold
      /\ new.at = r.at /\ new.n = r.n + 1
      /\ new.contexts = learned
  BY <1>6
<1>9. QED
  BY <1>4, <1>7, <1>8 DEF threshold, learned, new, Narrows

\* The trail goes on where the coder does.
LEMMA TrailGrows ==
  ASSUME WidthsAssumption, NEW code \in Codes, NEW S, NEW last, Trail(S, last, code), NEW next \in Codes,
         \/ last.size < Half /\ next = code
         \/ last.size >= Half /\ \E c \in Contexts, bit \in Bits : next = Append(code, <<c, bit>>)
  PROVE  LET new == Following(last, next)
         IN  new \in Interval /\ Trail(S \union {new}, new, next)
<1> DEFINE new == Following(last, next)
<1>1. S \subseteq Interval /\ Start \in S /\ last \in S /\ last.n = Len(code) /\ Len(code) \in Nat
  BY DEF Trail, Codes
<1>2. /\ new \in Interval
      /\ new.at + new.n = last.at + last.n + 1
      /\ new.n = Len(next)
      /\ Len(code) <= Len(next) /\ (last.size >= Half => Len(code) < Len(next))
      /\ \A i \in 1..Len(code) : next[i] = code[i]
  <2>1. last \in Interval /\ last.at \in Nat /\ last.n \in Nat
    BY <1>1 DEF Interval
  <2>2. CASE last.size < Half /\ next = code
    <3>1. new = Doubled(last)
      BY <2>2 DEF Following
    <3> HIDE DEF new
    <3>2. new \in Interval /\ new.at = last.at + 1 /\ new.n = last.n
      BY <2>1, <2>2, <3>1, DoubledIs
    <3>3. ~(last.size >= Half)
      <4>1. last.size \in Nat /\ Half \in Nat
        BY <2>1, Widths DEF Interval
      <4>2. QED
        BY <2>2, <4>1
    <3>4. QED
      BY <1>1, <2>1, <2>2, <3>2, <3>3
  <2>3. CASE last.size >= Half /\ \E c \in Contexts, bit \in Bits : next = Append(code, <<c, bit>>)
    <3>1. PICK c \in Contexts, bit \in Bits : next = Append(code, <<c, bit>>)
      BY <2>3
    <3>2. Len(next) = Len(code) + 1 /\ next[Len(code) + 1] = <<c, bit>> /\ \A i \in 1..Len(code) : next[i] = code[i]
      BY <3>1 DEF Codes
    <3>3. ~(last.size < Half)
      <4>1. last.size \in Nat /\ Half \in Nat
        BY <2>1, Widths DEF Interval
      <4>2. QED
        BY <2>3, <4>1
    <3>4. new = Narrowed(last, c, bit)
      BY <1>1, <3>2, <3>3 DEF Following
    <3> HIDE DEF new
    <3>5. new \in Interval /\ new.at = last.at /\ new.n = last.n + 1
      BY <2>1, <2>3, <3>4, NarrowedIs DEF Narrows
    <3>6. Len(next) = Len(code) + 1
      BY <3>2
    <3>7. /\ new.at + new.n = last.at + last.n + 1
          /\ new.n = Len(next)
      BY <1>1, <2>1, <3>5, <3>6
    <3>8. Len(code) <= Len(next) /\ Len(code) < Len(next)
      BY <1>1, <3>6
    <3>9. QED
      BY <3>2, <3>5, <3>7, <3>8, Zenon
  <2>4. QED
    BY <2>2, <2>3
<1>3. ASSUME NEW r \in S
      PROVE  /\ r.n <= Len(next)
             /\ r.at + r.n <= new.at + new.n
             /\ r # new => /\ Following(r, next) \in S \union {new}
                           /\ r.size >= Half => r.n < Len(next)
  <2>1. r \in Interval /\ r.at \in Nat /\ r.n \in Nat /\ last.at \in Nat /\ Len(next) \in Nat
    BY <1>1 DEF Interval, Codes
  <2>2. /\ r.n <= Len(code)
        /\ r.at + r.n <= last.at + last.n
        /\ r # last => /\ Following(r, code) \in S
                       /\ r.size >= Half => r.n < Len(code)
    BY DEF Trail
  <2>3. CASE r = last
    <3> HIDE DEF new
    <3>1. r.n <= Len(next) /\ r.at + r.n <= new.at + new.n /\ (r.size >= Half => r.n < Len(next))
      BY <1>1, <1>2, <2>1, <2>2, <2>3
    <3>2. Following(r, next) = new
      BY <2>3 DEF new
    <3>3. QED
      BY <3>1, <3>2
  <2>4. CASE r # last
    <3>1. Following(r, next) = Following(r, code)
      <4>1. CASE r.size < Half
        BY <4>1 DEF Following
      <4>2. CASE ~(r.size < Half)
        <5>1. r.size >= Half
          <6>1. r.size \in Nat /\ Half \in Nat
            BY <2>1, Widths DEF Interval
          <6>2. QED
            BY <4>2, <6>1
        <5>2. r.n + 1 \in 1..Len(code)
          BY <1>1, <2>1, <2>2, <2>4, <5>1
        <5>3. next[r.n + 1] = code[r.n + 1]
          BY <1>2, <5>2
        <5>4. QED
          BY <4>2, <5>3 DEF Following
      <4>3. QED
        BY <4>1, <4>2
    <3> HIDE DEF new
    <3>2. QED
      BY <1>1, <1>2, <2>1, <2>2, <2>4, <3>1
  <2>5. QED
    BY <2>3, <2>4
<1> HIDE DEF new
<1>4. new.n <= Len(next) /\ new.at + new.n <= new.at + new.n
  BY <1>2 DEF Interval
<1>5. Trail(S \union {new}, new, next)
  BY <1>1, <1>2, <1>3, <1>4 DEF Trail
<1>6. QED
  BY <1>2, <1>5 DEF new

\* Every number that continues the data lies in the interval.
Lands(r, out) == \A Q : Continues(Q, out) => r.low <= Q[r.at] /\ Q[r.at] < r.low + r.size

\* One interval comes from another.
Succeeds(new, r) ==
  \/ r.size < Half /\ new = Doubled(r)
  \/ r.size >= Half /\ \E c \in Contexts, bit \in Bits : new = Narrowed(r, c, bit)

LEMMA LandsBefore ==
  ASSUME WidthsAssumption, NEW out, NEW r \in Interval, NEW new \in Interval, Lands(new, out), Succeeds(new, r)
  PROVE  Lands(r, out)
<1> SUFFICES ASSUME NEW Q, Continues(Q, out)
             PROVE  r.low <= Q[r.at] /\ Q[r.at] < r.low + r.size
  BY DEF Lands
<1>1. r.low \in Nat /\ r.size \in Nat /\ r.at \in Nat
  <2>1. One \in Nat
    BY Widths
  <2>2. QED
    BY <2>1 DEF Interval
<1>2. new.low <= Q[new.at] /\ Q[new.at] < new.low + new.size
  BY Zenon DEF Lands
<1>3. Q[r.at] \in Nat
  BY <1>1, ContinuesStep
<1>4. CASE r.size < Half /\ new = Doubled(r)
  <2>1. new.low = 2 * r.low /\ new.size = 2 * r.size /\ new.at = r.at + 1
    BY <1>4, DoubledIs
  <2>2. Q[r.at + 1] \in {2 * Q[r.at], 2 * Q[r.at] + 1}
    BY <1>1, ContinuesStep
  <2>3. 2 * r.low <= Q[r.at + 1] /\ Q[r.at + 1] < 2 * r.low + 2 * r.size
    BY <1>2, <2>1
  <2>4. \A x, y, z, w \in Nat : 2 * x <= y /\ y < 2 * x + 2 * z /\ y \in {2 * w, 2 * w + 1} => x <= w /\ w < x + z
    OBVIOUS
  <2>5. Q[r.at + 1] \in Nat
    BY <1>3, <2>2
  <2>6. QED
    BY <1>1, <1>3, <2>2, <2>3, <2>4, <2>5, Zenon
<1>5. ASSUME NEW c \in Contexts, NEW bit \in Bits, r.size >= Half, new = Narrowed(r, c, bit)
      PROVE  r.low <= Q[r.at] /\ Q[r.at] < r.low + r.size
  <2> DEFINE threshold == Threshold(r.size, r.contexts[c])
             narrowed  == Narrowed(r, c, bit)
  <2>1. /\ threshold \in 1..r.size - 1
        /\ bit = 0 => narrowed.low = r.low + threshold /\ narrowed.size = r.size - threshold
        /\ bit = 1 => narrowed.low = r.low /\ narrowed.size = threshold
        /\ narrowed.at = r.at
    <3>1. r.size >= Half
      BY <1>5
    <3>2. QED
      <4>1. Narrows(Narrowed(r, c, bit), r, c, bit)
        BY <3>1, NarrowedIs, Zenon
      <4>2. QED
        BY <4>1 DEF Narrows
  <2>2. new = narrowed
    BY <1>5
  <2> HIDE DEF threshold, narrowed
  <2>3. QED
    BY <1>1, <1>2, <1>3, <2>1, <2>2 DEF Bits
<1>6. QED
  BY <1>4, <1>5 DEF Succeeds

\* Where the last interval holds the data, all on the trail to it do.
LEMMA TrailLands ==
  ASSUME WidthsAssumption, NEW code \in Codes, NEW S, NEW last, Trail(S, last, code),
         NEW out, Lands(last, out)
  PROVE  \A r \in S : Lands(r, out)
<1> DEFINE rank(r) == r.at + r.n
           top     == rank(last)
           T       == {k \in Nat : \A r \in S : rank(r) + k = top => Lands(r, out)}
<1>1. \A r \in S : r \in Interval /\ r.at \in Nat /\ r.n \in Nat /\ rank(r) \in Nat /\ rank(r) <= top
  <2>1. SUFFICES ASSUME NEW r \in S
                 PROVE  r \in Interval /\ r.at \in Nat /\ r.n \in Nat /\ rank(r) \in Nat /\ rank(r) <= top
    OBVIOUS
  <2>2. r \in Interval /\ rank(r) <= top
    BY DEF Trail
  <2>3. r.at \in Nat /\ r.n \in Nat
    BY <2>2 DEF Interval
  <2>4. QED
    BY <2>2, <2>3
<1>2. last \in S /\ top \in Nat
  <2>1. last \in S
    BY DEF Trail
  <2>2. rank(last) \in Nat
    BY <1>1, <2>1, Zenon
  <2>3. QED
    BY <2>1, <2>2
<1>3. ASSUME NEW r \in S, r # last
      PROVE  LET new == Following(r, code)
             IN  /\ new \in S /\ rank(new) = rank(r) + 1
                 /\ Lands(new, out) => Lands(r, out)
  <2> DEFINE new == Following(r, code)
  <2>1. new \in S /\ (r.size >= Half => r.n < Len(code)) /\ Len(code) \in Nat
    BY <1>3 DEF Trail, Codes
  <2>2. r \in Interval /\ r.size \in Nat /\ Half \in Nat /\ new \in Interval /\ r.at \in Nat /\ r.n \in Nat
    <3>1. One \in Nat /\ Half \in Nat
      BY Widths
    <3>2. r \in Interval /\ new \in Interval
      BY <1>1, <2>1
    <3>3. QED
      BY <3>1, <3>2 DEF Interval
  <2>3. CASE r.size < Half
    <3>1. new = Doubled(r)
      BY <2>3 DEF Following
    <3> HIDE DEF new
    <3>2. new.at = r.at + 1 /\ new.n = r.n
      BY <2>2, <2>3, <3>1, DoubledIs
    <3>3. Lands(new, out) => Lands(r, out)
      BY <2>2, <2>3, <3>1, LandsBefore DEF Succeeds
    <3>4. rank(new) = rank(r) + 1
      BY <2>2, <3>2
    <3>5. QED
      BY <2>1, <3>3, <3>4 DEF new
  <2>4. CASE r.size >= Half
    <3> DEFINE c   == code[r.n + 1][1]
               bit == code[r.n + 1][2]
    <3>1. c \in Contexts /\ bit \in Bits
      <4>1. r.n + 1 \in 1..Len(code)
        BY <2>1, <2>2, <2>4
      <4>2. code[r.n + 1] \in Contexts \X Bits
        BY <4>1 DEF Codes
      <4>3. QED
        BY <4>2
    <3>2. new = Narrowed(r, c, bit)
      BY <2>2, <2>4 DEF Following
    <3> HIDE DEF new, c, bit
    <3>3. new.at = r.at /\ new.n = r.n + 1
      BY <2>2, <2>4, <3>1, <3>2, NarrowedIs DEF Narrows
    <3>4. Lands(new, out) => Lands(r, out)
      BY <2>2, <2>4, <3>1, <3>2, LandsBefore DEF Succeeds
    <3>5. rank(new) = rank(r) + 1
      BY <2>2, <3>3
    <3>6. QED
      BY <2>1, <3>4, <3>5 DEF new
  <2>5. QED
    BY <2>2, <2>3, <2>4
<1> HIDE DEF rank, top
<1>4. \A r \in S : r # last => rank(r) + 1 \in Nat /\ rank(r) + 1 <= top
  <2>1. \A r \in S : r # last => rank(Following(r, code)) = rank(r) + 1 /\ Following(r, code) \in S
    BY <1>3, Zenon
  <2>2. QED
    BY <1>1, <2>1
<1>5. 0 \in T
  <2>1. \A r \in S : rank(r) + 0 = top => r = last
    BY <1>1, <1>2, <1>4
  <2>2. QED
    BY <2>1
<1>6. ASSUME NEW k \in Nat, k \in T
      PROVE  k + 1 \in T
  <2> SUFFICES ASSUME NEW r \in S, rank(r) + (k + 1) = top
               PROVE  Lands(r, out)
    OBVIOUS
  <2>1. CASE r = last
    BY <2>1
  <2>2. CASE r # last
    <3> DEFINE new == Following(r, code)
    <3>1. new \in S /\ rank(new) = rank(r) + 1 /\ (Lands(new, out) => Lands(r, out))
      BY <1>3, <2>2, Zenon
    <3> HIDE DEF new
    <3>2. rank(new) + k = top
      BY <1>1, <3>1
    <3>3. Lands(new, out)
      BY <1>6, <3>1, <3>2
    <3>4. QED
      BY <3>1, <3>3
  <2>3. QED
    BY <2>1, <2>2
<1>7. \A k \in Nat : k \in T
  <2> HIDE DEF T
  <2> QED BY <1>5, <1>6, Induction
<1>8. ASSUME NEW r \in S
      PROVE  Lands(r, out)
  <2>1. top - rank(r) \in Nat /\ rank(r) + (top - rank(r)) = top
    BY <1>1, <1>2
  <2>2. top - rank(r) \in T
    BY <1>7, <2>1
  <2>3. QED
    BY <2>1, <2>2
<1>9. QED
  BY <1>8

-----------------------------------------------------------------------------
(* The coder while it codes.                                               *)

Encoder == [contexts : [Contexts -> 2..One - 1], out : Seq(Bits), dest_bit : Nat \union {-1},
            size : Nat, min : Nat, final_min : Nat, final_size : Nat]

\* What the coder has written, and its register, are the low end of r.
CoderAt(e, r) ==
  /\ e \in Encoder /\ r \in Interval
  /\ e.size = r.size /\ e.contexts = r.contexts /\ r.at = e.dest_bit + RangeBits
  /\ e.min < One /\ r.low + r.size <= Pow2[r.at]
  /\ e.final_min = 0 /\ e.final_size = One
  /\ \E V : Stands(e.out, e.dest_bit, V) /\ r.low = V * One + e.min

\* A carry finds a zero among the bits before it.
LEMMA CarryFits ==
  ASSUME WidthsAssumption, NEW dest \in Nat \union {-1}, NEW V \in Nat, dest = -1 => V = 0,
         NEW min \in Nat, min >= One, NEW size \in Nat \ {0},
         V * One + min + size <= Pow2[dest + RangeBits]
  PROVE  dest \in Nat /\ V + 1 < Pow2[dest]
<1>1. RangeBits \in Nat /\ RangeBits - 1 \in Nat /\ One \in Nat \ {0} /\ Half \in Nat /\ One = 2 * Half /\ Half >= 2
  BY Widths DEF WidthsAssumption
<1>2. (V + 1) * One < Pow2[dest + RangeBits] /\ V * One \in Nat /\ Pow2[dest + RangeBits] \in Nat
  <2>1. V * One \in Nat /\ (V + 1) * One = V * One + One
    BY <1>1
  <2>2. dest + RangeBits \in Nat
    BY <1>1 DEF WidthsAssumption
  <2>3. Pow2[dest + RangeBits] \in Nat
    BY <2>2, Pow2Positive
  <2>4. QED
    BY <1>1, <2>1, <2>3
<1>3. dest # -1
  <2> SUFFICES ASSUME dest = -1
               PROVE  FALSE
    OBVIOUS
  <2>1. dest + RangeBits = RangeBits - 1
    BY <1>1
  <2>2. Pow2[dest + RangeBits] = Half
    BY <2>1 DEF Half
  <2>3. V = 0
    OBVIOUS
  <2>4. QED
    BY <1>1, <1>2, <2>2, <2>3
<1>4. Pow2[dest + RangeBits] = Pow2[dest] * One /\ Pow2[dest] \in Nat
  BY <1>1, <1>3, Pow2Sum, Pow2Positive DEF One
<1>5. \A x, y, z \in Nat : x * z < y * z => x < y
  OBVIOUS
<1>6. V + 1 \in Nat /\ (V + 1) * One < Pow2[dest] * One
  BY <1>2, <1>4
<1>7. V + 1 < Pow2[dest]
  BY <1>1, <1>4, <1>5, <1>6
<1>8. QED
  BY <1>3, <1>7

LEMMA CarriedIs ==
  ASSUME WidthsAssumption, NEW e \in Encoder, NEW min \in Nat, min < 2 * One, NEW size \in Nat \ {0},
         NEW V, Stands(e.out, e.dest_bit, V), V * One + min + size <= Pow2[e.dest_bit + RangeBits]
  PROVE  /\ Carried(e, min) \in Encoder
         /\ Carried(e, min).min < One
         /\ \E W : /\ Stands(Carried(e, min).out, e.dest_bit, W)
                   /\ V * One + min = W * One + Carried(e, min).min
         /\ Carried(e, min).size = e.size /\ Carried(e, min).contexts = e.contexts
         /\ Carried(e, min).dest_bit = e.dest_bit
         /\ Carried(e, min).final_min = e.final_min /\ Carried(e, min).final_size = e.final_size
<1>1. One \in Nat
  BY Widths
<1>2. V \in Nat /\ e.dest_bit \in Nat \union {-1} /\ (e.dest_bit = -1 => V = 0)
  BY StandsNumber DEF Encoder
<1>3. CASE min < One
  <2>1. Carried(e, min) = [e EXCEPT !.min = min]
    BY <1>3 DEF Carried
  <2>2. [e EXCEPT !.min = min] \in Encoder
    BY DEF Encoder
  <2>3. /\ [e EXCEPT !.min = min].min = min /\ [e EXCEPT !.min = min].out = e.out
        /\ [e EXCEPT !.min = min].size = e.size /\ [e EXCEPT !.min = min].contexts = e.contexts
        /\ [e EXCEPT !.min = min].dest_bit = e.dest_bit
        /\ [e EXCEPT !.min = min].final_min = e.final_min /\ [e EXCEPT !.min = min].final_size = e.final_size
    BY DEF Encoder
  <2>4. QED
    BY <1>3, <2>1, <2>2, <2>3, Zenon
<1>4. CASE ~(min < One)
  <2> DEFINE more == AddBit(e.out, e.dest_bit)
             less == min - One
             new  == [e EXCEPT !.min = less, !.out = more]
  <2>1. Carried(e, min) = new
    BY <1>4 DEF Carried
  <2>2. min >= One /\ less \in Nat /\ less < One
    BY <1>1, <1>4
  <2>3. e.dest_bit \in Nat /\ V + 1 < Pow2[e.dest_bit]
    BY <1>2, <2>2, CarryFits
  <2>4. Stands(more, e.dest_bit, V + 1)
    BY <2>3, StandsOneMore
  <2>5. more \in Seq(Bits)
    BY <2>4, Zenon DEF Stands
  <2>6. V * One + min = (V + 1) * One + less
    BY <1>1, <1>2
  <2> HIDE DEF more, less
  <2>7. new \in Encoder
    BY <2>2, <2>5 DEF Encoder
  <2>8. /\ new.min = less /\ new.out = more
        /\ new.size = e.size /\ new.contexts = e.contexts
        /\ new.dest_bit = e.dest_bit
        /\ new.final_min = e.final_min /\ new.final_size = e.final_size
    BY DEF Encoder
  <2> HIDE DEF new
  <2>9. QED
    BY <2>1, <2>2, <2>4, <2>6, <2>7, <2>8, Zenon
<1>5. QED
  BY <1>3, <1>4

LEMMA NormaliseKeeps ==
  ASSUME WidthsAssumption, NEW r, CoderAt(enc, r), Normalise
  PROVE  r.size < Half /\ CoderAt(enc', Doubled(r))
<1> DEFINE e   == [enc EXCEPT !.dest_bit = @ + 1, !.size = 2 * @]
           min == 2 * enc.min
<1>1. /\ enc \in Encoder /\ r \in Interval
      /\ enc.size = r.size /\ enc.contexts = r.contexts /\ r.at = enc.dest_bit + RangeBits
      /\ enc.min < One /\ r.low + r.size <= Pow2[r.at]
      /\ enc.final_min = 0 /\ enc.final_size = One
  BY DEF CoderAt
<1>2. PICK V : Stands(enc.out, enc.dest_bit, V) /\ r.low = V * One + enc.min
  BY DEF CoderAt
<1>3. r.size < Half /\ enc' = Carried(e, min)
  BY <1>1 DEF Normalise
<1>4. /\ Doubled(r) \in Interval
      /\ Doubled(r).low = 2 * r.low /\ Doubled(r).size = 2 * r.size
      /\ Doubled(r).at = r.at + 1 /\ Doubled(r).contexts = r.contexts
  BY <1>1, <1>3, DoubledIs
<1>5. One \in Nat /\ RangeBits \in Nat /\ enc.dest_bit \in Nat \union {-1} /\ enc.min \in Nat
      /\ r.low \in Nat /\ r.size \in Nat \ {0} /\ r.at \in Nat
  <2>1. One \in Nat /\ RangeBits \in Nat
    BY Widths DEF WidthsAssumption
  <2>2. QED
    BY <1>1, <2>1 DEF Encoder, Interval
<1>6. V \in Nat
  BY <1>2, <1>5, StandsNumber
<1>7. /\ e \in Encoder /\ e.out = enc.out /\ e.dest_bit = enc.dest_bit + 1 /\ e.size = 2 * enc.size
      /\ e.contexts = enc.contexts /\ e.final_min = enc.final_min /\ e.final_size = enc.final_size
  <2>1. enc.dest_bit + 1 \in Nat /\ 2 * enc.size \in Nat
    <3>1. enc.size \in Nat
      BY <1>1 DEF Encoder
    <3>2. QED
      BY <1>5, <3>1
  <2>2. QED
    BY <1>1, <2>1 DEF Encoder
<1> HIDE DEF e
<1>8. Stands(e.out, e.dest_bit, 2 * V)
  BY <1>2, <1>5, <1>7, StandsShifted
<1>9. (2 * V) * One + min = 2 * r.low
  BY <1>2, <1>5, <1>6
<1>10. (2 * V) * One + min + 2 * r.size <= Pow2[e.dest_bit + RangeBits] /\ e.dest_bit + RangeBits = r.at + 1
  <2>1. e.dest_bit + RangeBits = r.at + 1
    BY <1>1, <1>5, <1>7
  <2>2. Pow2[r.at + 1] = 2 * Pow2[r.at] /\ Pow2[r.at] \in Nat
    BY <1>5, Pow2Is
  <2>3. 2 * r.low + 2 * r.size <= 2 * Pow2[r.at]
    BY <1>1, <1>5, <2>2
  <2>4. QED
    BY <1>9, <2>1, <2>2, <2>3
<1>11. min \in Nat /\ min < 2 * One /\ 2 * r.size \in Nat \ {0}
  BY <1>1, <1>5
<1> HIDE DEF min
<1>12. /\ Carried(e, min) \in Encoder
       /\ Carried(e, min).min < One
       /\ \E W : /\ Stands(Carried(e, min).out, e.dest_bit, W)
                 /\ (2 * V) * One + min = W * One + Carried(e, min).min
       /\ Carried(e, min).size = e.size /\ Carried(e, min).contexts = e.contexts
       /\ Carried(e, min).dest_bit = e.dest_bit
       /\ Carried(e, min).final_min = e.final_min /\ Carried(e, min).final_size = e.final_size
  <2> DEFINE W == 2 * V
             t == 2 * r.size
  <2>1. t \in Nat \ {0} /\ Stands(e.out, e.dest_bit, W) /\ W * One + min + t <= Pow2[e.dest_bit + RangeBits]
    BY <1>8, <1>10, <1>11
  <2> HIDE DEF W, t
  <2>2. /\ Carried(e, min) \in Encoder
        /\ Carried(e, min).min < One
        /\ \E X : /\ Stands(Carried(e, min).out, e.dest_bit, X)
                  /\ W * One + min = X * One + Carried(e, min).min
        /\ Carried(e, min).size = e.size /\ Carried(e, min).contexts = e.contexts
        /\ Carried(e, min).dest_bit = e.dest_bit
        /\ Carried(e, min).final_min = e.final_min /\ Carried(e, min).final_size = e.final_size
    BY <1>7, <1>11, <2>1, CarriedIs, Zenon
  <2>3. QED
    BY <2>2 DEF W
<1>13. CoderAt(enc', Doubled(r))
  <2> DEFINE new == Doubled(r)
             f   == Carried(e, min)
  <2> HIDE DEF new, f
  <2>1. new \in Interval /\ new.low = 2 * r.low /\ new.size = 2 * r.size /\ new.at = r.at + 1 /\ new.contexts = r.contexts
    BY <1>4 DEF new
  <2>2. /\ f \in Encoder /\ f.min < One /\ f.size = e.size /\ f.contexts = e.contexts /\ f.dest_bit = e.dest_bit
        /\ f.final_min = e.final_min /\ f.final_size = e.final_size
        /\ \E W : Stands(f.out, e.dest_bit, W) /\ (2 * V) * One + min = W * One + f.min
    BY <1>12 DEF f
  <2>3. f.size = new.size /\ f.contexts = new.contexts /\ new.at = f.dest_bit + RangeBits
        /\ f.final_min = 0 /\ f.final_size = One
    BY <1>1, <1>7, <1>10, <2>1, <2>2
  <2>4. new.low + new.size <= Pow2[new.at]
    BY <1>9, <1>10, <2>1
  <2>5. \E W : Stands(f.out, f.dest_bit, W) /\ new.low = W * One + f.min
    BY <1>9, <2>1, <2>2
  <2>6. CoderAt(f, new)
    BY <2>1, <2>2, <2>3, <2>4, <2>5 DEF CoderAt
  <2>7. QED
    BY <1>3, <2>6 DEF new, f
<1>14. QED
  BY <1>3, <1>13

LEMMA CodeKeeps ==
  ASSUME WidthsAssumption, NEW r, CoderAt(enc, r), NEW c \in Contexts, NEW bit \in Bits, Code(c, bit)
  PROVE  r.size >= Half /\ CoderAt(enc', Narrowed(r, c, bit))
<1> DEFINE threshold == Threshold(r.size, r.contexts[c])
           carried   == Carried(enc, enc.min + threshold)
           new       == Narrowed(r, c, bit)
           learned   == [r.contexts EXCEPT ![c] = Learned(@, bit)]
<1>1. /\ enc \in Encoder /\ r \in Interval
      /\ enc.size = r.size /\ enc.contexts = r.contexts /\ r.at = enc.dest_bit + RangeBits
      /\ enc.min < One /\ r.low + r.size <= Pow2[r.at]
      /\ enc.final_min = 0 /\ enc.final_size = One
  BY DEF CoderAt
<1>2. PICK V : Stands(enc.out, enc.dest_bit, V) /\ r.low = V * One + enc.min
  BY DEF CoderAt
<1>3. r.size >= Half
  BY <1>1 DEF Code
<1>4. /\ new \in Interval
      /\ threshold \in 1..r.size - 1
      /\ bit = 0 => new.low = r.low + threshold /\ new.size = r.size - threshold
      /\ bit = 1 => new.low = r.low /\ new.size = threshold
      /\ new.at = r.at /\ new.contexts = learned
  <2>1. Narrows(Narrowed(r, c, bit), r, c, bit)
    BY <1>1, <1>3, NarrowedIs, Zenon
  <2>2. QED
    BY <2>1 DEF Narrows
<1>5. One \in Nat /\ RangeBits \in Nat /\ enc.dest_bit \in Nat \union {-1} /\ enc.min \in Nat
      /\ r.low \in Nat /\ r.size \in Nat \ {0} /\ r.size < One /\ r.at \in Nat
  <2>1. One \in Nat /\ RangeBits \in Nat
    BY Widths DEF WidthsAssumption
  <2>2. QED
    BY <1>1, <2>1 DEF Encoder, Interval
<1>6. V \in Nat
  BY <1>2, <1>5, StandsNumber
<1>7. bit = 0 => enc' = [[carried EXCEPT !.size = @ - threshold] EXCEPT !.contexts[c] = Learned(@, bit)]
  BY <1>1 DEF Code
<1>8. bit = 1 => enc' = [[enc EXCEPT !.size = threshold] EXCEPT !.contexts[c] = Learned(@, bit)]
  BY <1>1 DEF Code
<1>9. learned \in [Contexts -> 2..One - 1]
  BY <1>4 DEF Interval
<1>10. CASE bit = 0
  <2> DEFINE m == enc.min + threshold
             t == r.size - threshold
  <2>1. m \in Nat /\ m < 2 * One /\ t \in Nat \ {0} /\ V * One + m + t <= Pow2[enc.dest_bit + RangeBits]
        /\ V * One + m = r.low + threshold
    <3> HIDE DEF threshold
    <3>1. V * One \in Nat
      BY <1>5, <1>6
    <3>2. QED
      BY <1>1, <1>2, <1>4, <1>5, <3>1
  <2>2. carried = Carried(enc, m)
    OBVIOUS
  <2> HIDE DEF m, t, carried, threshold, new, learned
  <2>3. /\ carried \in Encoder
        /\ carried.min < One
        /\ \E W : Stands(carried.out, enc.dest_bit, W) /\ V * One + m = W * One + carried.min
        /\ carried.size = enc.size /\ carried.contexts = enc.contexts
        /\ carried.dest_bit = enc.dest_bit
        /\ carried.final_min = enc.final_min /\ carried.final_size = enc.final_size
    <3>1. /\ Carried(enc, m) \in Encoder
          /\ Carried(enc, m).min < One
          /\ \E W : /\ Stands(Carried(enc, m).out, enc.dest_bit, W)
                    /\ V * One + m = W * One + Carried(enc, m).min
          /\ Carried(enc, m).size = enc.size /\ Carried(enc, m).contexts = enc.contexts
          /\ Carried(enc, m).dest_bit = enc.dest_bit
          /\ Carried(enc, m).final_min = enc.final_min /\ Carried(enc, m).final_size = enc.final_size
      BY <1>1, <1>2, <2>1, CarriedIs, Zenon
    <3>2. QED
      BY <2>2, <3>1, Zenon
  <2>4. enc' = [[carried EXCEPT !.size = @ - threshold] EXCEPT !.contexts[c] = Learned(@, bit)]
    BY <1>7, <1>10
  <2>5. r.size - threshold \in Nat
    BY <1>4, <1>5
  <2>6. /\ enc' \in Encoder /\ enc'.size = r.size - threshold /\ enc'.contexts = learned
        /\ enc'.min = carried.min /\ enc'.out = carried.out /\ enc'.dest_bit = enc.dest_bit
        /\ enc'.final_min = 0 /\ enc'.final_size = One
    <3>1. carried.size - threshold = r.size - threshold /\ [carried.contexts EXCEPT ![c] = Learned(@, bit)] = learned
      BY <1>1, <2>3 DEF learned
    <3>2. enc' = [carried EXCEPT !.size = r.size - threshold, !.contexts = learned]
      BY <2>3, <2>4, <3>1 DEF Encoder
    <3>3. QED
      BY <1>1, <1>9, <2>3, <2>5, <3>2 DEF Encoder
  <2>7. \E W : Stands(enc'.out, enc'.dest_bit, W) /\ new.low = W * One + enc'.min
    BY <1>4, <1>10, <2>1, <2>3, <2>6
  <2>8. new.low + new.size <= Pow2[new.at]
    BY <1>1, <1>4, <1>5, <1>10
  <2>9. CoderAt(enc', new)
    BY <1>1, <1>4, <1>10, <2>3, <2>6, <2>7, <2>8 DEF CoderAt
  <2>10. QED
    BY <1>3, <2>9 DEF new
<1>11. CASE bit = 1
  <2> HIDE DEF carried, threshold, new, learned
  <2>1. threshold \in Nat
    BY <1>4, <1>5
  <2>2. /\ enc' \in Encoder /\ enc'.size = threshold /\ enc'.contexts = learned
        /\ enc'.min = enc.min /\ enc'.out = enc.out /\ enc'.dest_bit = enc.dest_bit
        /\ enc'.final_min = 0 /\ enc'.final_size = One
    <3>1. enc' = [enc EXCEPT !.size = threshold, !.contexts = learned]
      BY <1>1, <1>8, <1>11 DEF Encoder, learned
    <3>2. QED
      BY <1>1, <1>9, <2>1, <3>1 DEF Encoder
  <2>3. new.low = V * One + enc'.min
    BY <1>2, <1>4, <1>11, <2>2
  <2>4. new.low + new.size <= Pow2[new.at]
    <3>1. Pow2[r.at] \in Nat
      BY <1>5, Pow2Positive
    <3>2. QED
      BY <1>1, <1>4, <1>5, <1>11, <3>1
  <2>5. Stands(enc'.out, enc'.dest_bit, V)
    BY <1>2, <2>2
  <2>6. CoderAt(enc', new)
    BY <1>1, <1>4, <1>11, <2>2, <2>3, <2>4, <2>5 DEF CoderAt
  <2>7. QED
    BY <1>3, <2>6 DEF new
<1>12. QED
  BY <1>10, <1>11 DEF Bits

-----------------------------------------------------------------------------
(* The coder while it looks for the shortest number in its interval.       *)

\* The bits before dest form final_min above base, in steps of final_size.
Halves(e, at, base, N) ==
  \/ \E x \in Nat : /\ e.dest_bit + x = at /\ e.final_size = Pow2[x]
                    /\ N * Pow2[x] = base + e.final_min
                    /\ e.final_min < e.min + e.size /\ e.min + e.size <= e.final_min + 2 * Pow2[x]
  \/ /\ e.dest_bit = at + 1 /\ e.final_size = 0
     /\ N = 2 * (base + e.final_min)
     /\ e.min + e.size = e.final_min + 1

FinishAt(e, r) ==
  /\ e \in Encoder /\ r \in Interval
  /\ e.size = r.size /\ r.low + r.size <= Pow2[r.at]
  /\ \E base \in Nat, N \in Nat : /\ r.low = base + e.min
                                   /\ Stands(e.out, e.dest_bit, N) /\ Halves(e, r.at, base, N)

LEMMA FinishStarts ==
  ASSUME WidthsAssumption, NEW e, NEW r, CoderAt(e, r)
  PROVE  FinishAt(e, r)
<1>1. /\ e \in Encoder /\ r \in Interval
      /\ e.size = r.size /\ r.at = e.dest_bit + RangeBits
      /\ e.min < One /\ r.low + r.size <= Pow2[r.at]
      /\ e.final_min = 0 /\ e.final_size = One
  BY DEF CoderAt
<1>2. PICK V : Stands(e.out, e.dest_bit, V) /\ r.low = V * One + e.min
  BY DEF CoderAt
<1>3. One \in Nat /\ RangeBits \in Nat /\ One = Pow2[RangeBits]
  BY Widths DEF WidthsAssumption, One
<1>4. e.dest_bit \in Nat \union {-1} /\ e.min \in Nat /\ r.size \in Nat \ {0} /\ r.size < One
  BY <1>1, <1>3 DEF Encoder, Interval
<1>5. V \in Nat /\ V * One \in Nat
  <2>1. V \in Nat
    BY <1>2, <1>4, StandsNumber, Zenon
  <2>2. QED
    BY <1>3, <2>1
<1>6. V * Pow2[RangeBits] = V * One + e.final_min /\ e.final_size = Pow2[RangeBits]
  BY <1>1, <1>3, <1>5
<1>7. e.final_min < e.min + e.size /\ e.min + e.size <= e.final_min + 2 * Pow2[RangeBits]
  BY <1>1, <1>3, <1>4
<1>8. Halves(e, r.at, V * One, V)
  BY <1>1, <1>3, <1>6, <1>7 DEF Halves
<1>9. QED
  BY <1>1, <1>2, <1>5, <1>8 DEF FinishAt

LEMMA FinishStepKeeps ==
  ASSUME WidthsAssumption, NEW r, FinishAt(enc, r), FinishStep
  PROVE  FinishAt(enc', r)
<1>1. /\ enc \in Encoder /\ r \in Interval
      /\ enc.size = r.size /\ r.low + r.size <= Pow2[r.at]
  BY DEF FinishAt
<1>2. PICK base \in Nat, N \in Nat :
         r.low = base + enc.min /\ Stands(enc.out, enc.dest_bit, N) /\ Halves(enc, r.at, base, N)
  BY DEF FinishAt
<1>3. /\ enc.dest_bit \in Nat \union {-1} /\ enc.min \in Nat /\ r.size \in Nat \ {0} /\ r.at \in Nat
      /\ enc.final_min \in Nat /\ enc.final_size \in Nat /\ r.low \in Nat
  <2>1. One \in Nat
    BY Widths
  <2>2. QED
    BY <1>1, <2>1 DEF Encoder, Interval
<1>4. PICK x \in Nat : /\ enc.dest_bit + x = r.at /\ enc.final_size = Pow2[x]
                       /\ N * Pow2[x] = base + enc.final_min
                       /\ enc.final_min < enc.min + enc.size
                       /\ enc.min + enc.size <= enc.final_min + 2 * Pow2[x]
  <2>1. ~(enc.final_size = 0 /\ enc.min + enc.size = enc.final_min + 1)
    <3>1. ~Settled
      BY DEF FinishStep
    <3>2. QED
      BY <1>1, <1>3, <3>1 DEF Settled
  <2>2. QED
    BY <1>2, <2>1 DEF Halves
<1> DEFINE step  == Pow2[x]
           below == enc.final_min + enc.final_size < enc.min + enc.size
           out   == IF below THEN AddBit(enc.out, enc.dest_bit) ELSE enc.out
           least == IF below THEN enc.final_min + step ELSE enc.final_min
           M     == IF below THEN N + 1 ELSE N
<1>5. step \in Nat \ {0}
  BY Pow2Positive
<1>6. enc' = [[[enc EXCEPT !.out = out] EXCEPT !.final_min = least] EXCEPT
                !.dest_bit = @ + 1, !.final_size = @ \div 2]
  <2>1. CASE below
    <3>1. enc' = [[enc EXCEPT !.out = AddBit(@, enc.dest_bit), !.final_min = @ + enc.final_size]
                  EXCEPT !.dest_bit = @ + 1, !.final_size = @ \div 2]
      BY <2>1 DEF FinishStep
    <3>2. out = AddBit(enc.out, enc.dest_bit) /\ least = enc.final_min + enc.final_size
      BY <1>4, <2>1
    <3> HIDE DEF out, least, below, step
    <3>3. QED
      BY <1>1, <3>1, <3>2 DEF Encoder
  <2>2. CASE ~below
    <3>1. enc' = [enc EXCEPT !.dest_bit = @ + 1, !.final_size = @ \div 2]
      BY <2>2 DEF FinishStep
    <3>2. out = enc.out /\ least = enc.final_min
      BY <2>2
    <3> HIDE DEF out, least, below, step
    <3>3. QED
      BY <1>1, <3>1, <3>2 DEF Encoder
  <2>3. QED
    BY <2>1, <2>2
<1>7. /\ Stands(out, enc.dest_bit, M) /\ M \in Nat
      /\ M * step = base + least
      /\ least \in Nat /\ least < enc.min + enc.size /\ enc.min + enc.size <= least + step
  <2>1. CASE below
    <3>1. out = AddBit(enc.out, enc.dest_bit) /\ least = enc.final_min + step /\ M = N + 1
      BY <2>1
    <3>2. enc.final_min + step < enc.min + enc.size
      BY <1>4, <2>1
    <3> HIDE DEF out, least, below, M, step
    <3>3. M * step = N * step + step /\ M \in Nat /\ N * step = base + enc.final_min
      <4>1. (N + 1) * step = N * step + step
        BY <1>5
      <4>2. N * step = base + enc.final_min
        BY <1>4 DEF step
      <4>3. QED
        BY <3>1, <4>1, <4>2
    <3>4. Pow2[r.at] \in Nat
      BY <1>3, Pow2Positive
    <3>5. M * step < Pow2[r.at] /\ M * step = base + least
      BY <1>1, <1>2, <1>3, <1>5, <3>1, <3>2, <3>3, <3>4
    <3>6. enc.dest_bit \in Nat
      <4> SUFFICES ASSUME enc.dest_bit = -1
                   PROVE  FALSE
        BY <1>3
      <4>1. x = r.at + 1
        BY <1>3, <1>4
      <4>2. step = 2 * Pow2[r.at]
        BY <1>3, <4>1, Pow2Is DEF step
      <4>3. step <= M * step
        BY <1>5, <3>1, <3>3
      <4>4. QED
        BY <1>5, <3>3, <3>4, <3>5, <4>2, <4>3
    <3>7. M < Pow2[enc.dest_bit]
      <4>1. Pow2[r.at] = Pow2[enc.dest_bit] * step /\ Pow2[enc.dest_bit] \in Nat
        BY <1>4, <3>6, Pow2Sum, Pow2Positive DEF step
      <4>2. \A u, v, w \in Nat : u * w < v * w => u < v
        OBVIOUS
      <4>3. QED
        BY <1>5, <3>3, <3>5, <4>1, <4>2
    <3>8. Stands(out, enc.dest_bit, M)
      BY <1>2, <3>1, <3>6, <3>7, StandsOneMore
    <3>9. least \in Nat /\ least < enc.min + enc.size /\ enc.min + enc.size <= least + step
      <4>1. enc.min + enc.size <= enc.final_min + 2 * step
        BY <1>4 DEF step
      <4>2. QED
        BY <1>1, <1>3, <1>5, <3>1, <3>2, <4>1
    <3>10. QED
      BY <3>3, <3>5, <3>8, <3>9
  <2>2. CASE ~below
    <3>1. out = enc.out /\ least = enc.final_min /\ M = N
      BY <2>2
    <3>2. ~(enc.final_min + step < enc.min + enc.size)
      BY <1>4, <2>2
    <3>3. N * step = base + enc.final_min
      BY <1>4
    <3> HIDE DEF out, least, below, M, step
    <3>4. QED
      BY <1>1, <1>2, <1>3, <1>4, <1>5, <3>1, <3>2, <3>3
  <2>3. QED
    BY <2>1, <2>2
<1> HIDE DEF out, least, below, M
<1>8. out \in Seq(Bits)
  BY <1>7 DEF Stands
<1>9. /\ enc' \in Encoder /\ enc'.out = out /\ enc'.final_min = least /\ enc'.dest_bit = enc.dest_bit + 1
      /\ enc'.final_size = enc.final_size \div 2 /\ enc'.min = enc.min /\ enc'.size = enc.size
  <2>1. enc.dest_bit + 1 \in Nat /\ enc.final_size \div 2 \in Nat
    BY <1>3
  <2>2. QED
    BY <1>1, <1>6, <1>7, <1>8, <2>1 DEF Encoder
<1>10. Stands(enc'.out, enc'.dest_bit, 2 * M) /\ 2 * M \in Nat
  BY <1>3, <1>7, <1>9, StandsShifted
<1>11. Halves(enc', r.at, base, 2 * M)
  <2>1. CASE x = 0
    <3>1. step = 1 /\ enc'.final_size = 0
      BY <1>4, <1>9, <2>1, Pow2Is
    <3> HIDE DEF step
    <3>2. 2 * M = 2 * (base + enc'.final_min) /\ enc'.min + enc'.size = enc'.final_min + 1 /\ enc'.dest_bit = r.at + 1
      <4>1. enc.dest_bit = r.at
        BY <1>3, <1>4, <2>1
      <4>2. M = base + least
        BY <1>7, <3>1
      <4>3. QED
        BY <1>1, <1>3, <1>7, <1>9, <3>1, <4>1, <4>2
    <3>3. QED
      BY <3>1, <3>2 DEF Halves
  <2>2. CASE x # 0
    <3>1. x - 1 \in Nat /\ (x - 1) + 1 = x
      BY <2>2
    <3>2. Pow2[(x - 1) + 1] = 2 * Pow2[x - 1] /\ Pow2[x - 1] \in Nat
      BY <3>1, Pow2Is
    <3>3. step = 2 * Pow2[x - 1]
      BY <3>1, <3>2
    <3> DEFINE half == Pow2[x - 1]
    <3>4. step = 2 * half /\ half \in Nat
      BY <3>2, <3>3
    <3>5. enc.final_size = step
      BY <1>4
    <3> HIDE DEF step, half
    <3>6. enc'.final_size = half
      BY <1>9, <3>4, <3>5
    <3>7. (2 * M) * half = base + least
      <4>1. (2 * M) * half = M * (2 * half)
        BY <1>7, <3>4
      <4>2. QED
        BY <1>7, <3>4, <4>1
    <3>8. enc'.dest_bit + (x - 1) = r.at
      BY <1>3, <1>4, <1>9, <3>1
    <3>9. enc'.final_min < enc'.min + enc'.size /\ enc'.min + enc'.size <= enc'.final_min + 2 * half
      BY <1>7, <1>9, <3>4
    <3>10. (2 * M) * half = base + enc'.final_min
      BY <1>9, <3>7
    <3>11. QED
      BY <3>1, <3>6, <3>8, <3>9, <3>10 DEF Halves, half
  <2>3. QED
    BY <2>1, <2>2
<1>12. QED
  BY <1>1, <1>2, <1>9, <1>10, <1>11 DEF FinishAt

\* What finish() leaves lies in the interval, whatever may follow it.
LEMMA FinishLands ==
  ASSUME WidthsAssumption, NEW r, FinishAt(enc, r), Finish
  PROVE  enc'.out \in Seq(Bits) /\ WholeBytes(enc'.out) /\ Lands(r, enc'.out)
<1>1. /\ enc \in Encoder /\ r \in Interval
      /\ enc.size = r.size /\ r.low + r.size <= Pow2[r.at]
  BY DEF FinishAt
<1>2. PICK base \in Nat, N \in Nat :
         r.low = base + enc.min /\ Stands(enc.out, enc.dest_bit, N) /\ Halves(enc, r.at, base, N)
  BY DEF FinishAt
<1>3. /\ enc.dest_bit \in Nat \union {-1} /\ enc.min \in Nat /\ r.size \in Nat \ {0} /\ r.at \in Nat
      /\ enc.final_min \in Nat /\ enc.final_size \in Nat /\ r.low \in Nat
  <2>1. One \in Nat
    BY Widths
  <2>2. QED
    BY <1>1, <2>1 DEF Encoder, Interval
<1>4. enc.final_min >= enc.min /\ enc.final_min + enc.final_size < enc.min + enc.size
  BY DEF Finish, Settled
<1>5. enc.dest_bit \in Nat
  <2> SUFFICES ASSUME enc.dest_bit = -1
               PROVE  FALSE
    BY <1>3
  <2>1. PICK x \in Nat : enc.dest_bit + x = r.at /\ enc.final_size = Pow2[x]
    BY <1>2, <1>3 DEF Halves
  <2>2. x = r.at + 1
    BY <1>3, <2>1
  <2>3. Pow2[x] = 2 * Pow2[r.at] /\ Pow2[r.at] \in Nat
    BY <1>3, <2>2, Pow2Is
  <2>4. enc.final_size < Pow2[r.at]
    BY <1>1, <1>2, <1>3, <1>4, <2>3
  <2>5. QED
    BY <2>1, <2>3, <2>4
<1> DEFINE out == Padded(enc.out, enc.dest_bit)
<1>6. enc'.out = out
  BY <1>1 DEF Finish, Encoder
<1>7. Stands(out, enc.dest_bit, N) /\ enc.dest_bit <= Len(out)
  BY <1>2, <1>5, StandsPadded, Zenon
<1> HIDE DEF out
<1>8. ASSUME NEW Q, Continues(Q, out)
      PROVE  r.low <= Q[r.at] /\ Q[r.at] < r.low + r.size
  <2>1. Q[enc.dest_bit] = N
    BY <1>5, <1>7, <1>8, StandsInAll, Zenon
  <2>2. Q[r.at] \in Nat
    BY <1>3, <1>8, ContinuesStep
  <2>3. ASSUME NEW x \in Nat, enc.dest_bit + x = r.at, enc.final_size = Pow2[x],
               N * Pow2[x] = base + enc.final_min
        PROVE  r.low <= Q[r.at] /\ Q[r.at] < r.low + r.size
    <3>1. Q[enc.dest_bit] * Pow2[x] <= Q[enc.dest_bit + x]
          /\ Q[enc.dest_bit + x] < Q[enc.dest_bit] * Pow2[x] + Pow2[x]
      BY <1>5, <1>8, NumbersNest, Zenon
    <3>2. N * Pow2[x] <= Q[r.at] /\ Q[r.at] < N * Pow2[x] + Pow2[x]
      BY <2>1, <2>3, <3>1
    <3>3. base + enc.final_min <= Q[r.at] /\ Q[r.at] < base + enc.final_min + enc.final_size
      BY <2>3, <3>2
    <3>4. QED
      BY <1>1, <1>2, <1>3, <1>4, <2>2, <3>3
  <2>4. ASSUME enc.dest_bit = r.at + 1, N = 2 * (base + enc.final_min)
        PROVE  r.low <= Q[r.at] /\ Q[r.at] < r.low + r.size
    <3>1. Q[r.at + 1] \in {2 * Q[r.at], 2 * Q[r.at] + 1}
      BY <1>3, <1>8, ContinuesStep
    <3>2. Q[r.at + 1] = 2 * (base + enc.final_min)
      BY <2>1, <2>4
    <3>3. Q[r.at] = base + enc.final_min
      BY <1>2, <1>3, <2>2, <3>1, <3>2
    <3>4. QED
      BY <1>1, <1>2, <1>3, <1>4, <3>3
  <2>5. QED
    BY <1>2, <2>3, <2>4 DEF Halves
<1>9. Lands(r, out)
  BY <1>8 DEF Lands
<1>10. QED
  BY <1>6, <1>7, <1>9 DEF Stands

-----------------------------------------------------------------------------
(* The decoder on the host.                                                *)

\* After the data, one after the other.
Tops(P, out) == Continues(P, out) /\ \A n \in Nat : n >= Len(out) => P[n + 1] = 2 * P[n] + 1

LEMMA TwoPlusBit ==
  ASSUME NEW x \in Nat, NEW bit \in Bits
  PROVE  2 * x + bit \in {2 * x, 2 * x + 1}
BY DEF Bits

LEMMA TopsExist ==
  ASSUME NEW out \in Seq(Bits)
  PROVE  \E P : Tops(P, out)
<1> DEFINE b == [n \in Nat |-> IF n < Len(out) THEN out[n + 1] ELSE 1]
<1>1. ASSUME NEW n \in Nat
      PROVE  b[n] \in Bits
  BY DEF Bits
<1>2. b \in [Nat -> Nat] /\ 0 \in Nat
  BY <1>1 DEF Bits
<1>3. \A n \in Nat : b[n] = IF n < Len(out) THEN out[n + 1] ELSE 1
  OBVIOUS
<1> HIDE DEF b
<1>4. PICK P \in [Nat -> Nat] : P[0] = 0 /\ \A n \in Nat : P[n + 1] = 2 * P[n] + b[n]
  BY <1>2, NumbersExist
<1>5. ASSUME NEW n \in Nat
      PROVE  /\ P[n + 1] \in {2 * P[n], 2 * P[n] + 1}
             /\ n < Len(out) => P[n + 1] = 2 * P[n] + out[n + 1]
             /\ n >= Len(out) => P[n + 1] = 2 * P[n] + 1
  <2>1. P[n + 1] = 2 * P[n] + b[n] /\ b[n] \in Bits /\ b[n] = IF n < Len(out) THEN out[n + 1] ELSE 1
    BY <1>1, <1>3, <1>4, Zenon
  <2>2. P[n] \in Nat
    BY <1>4
  <2>3. Len(out) \in Nat
    OBVIOUS
  <2>4. CASE n < Len(out)
    <3>1. b[n] = out[n + 1]
      BY <2>1, <2>4
    <3>2. P[n + 1] = 2 * P[n] + out[n + 1]
      BY <2>1, <3>1, Zenon
    <3>3. ~(n >= Len(out))
      BY <2>3, <2>4
    <3>4. PICK bit \in Bits : P[n + 1] = 2 * P[n] + bit
      BY <2>1, Zenon
    <3>5. P[n + 1] \in {2 * P[n], 2 * P[n] + 1}
      BY <2>2, <3>4, TwoPlusBit, Zenon
    <3>6. QED
      BY <3>2, <3>3, <3>5, Zenon
  <2>5. CASE ~(n < Len(out))
    <3>1. b[n] = 1 /\ P[n + 1] = 2 * P[n] + b[n]
      BY <2>1, <2>5, Zenon
    <3>2. QED
      BY <2>5, <3>1
  <2>6. QED
    BY <2>4, <2>5
<1>6. QED
  BY <1>4, <1>5, Zenon DEF Tops, Continues

HostDecoder == [contexts : [Contexts -> 2..One - 1], bit_index : Nat, size : Nat, value : Int,
                uncertainty : Int, bits : Nat, wrong : BOOLEAN]

\* The decoder is in r: what it read lies between the least and the greatest
\* number the data may stand for.
HostAt(d, r, out) ==
  /\ d \in HostDecoder
  /\ d.contexts = r.contexts /\ d.bit_index = r.at /\ d.size = r.size /\ d.bits = r.n
  /\ ~d.wrong
  /\ \E P, Q : /\ Prefixes(P, out) /\ Tops(Q, out)
               /\ d.value = P[r.at] - r.low /\ d.uncertainty = Q[r.at] - P[r.at] + 1

LEMMA ReadBitKeeps ==
  ASSUME WidthsAssumption, NEW r \in Interval, enc.out \in Seq(Bits), HostAt(decoder, r, enc.out), ReadBit
  PROVE  r.size < Half /\ HostAt(decoder', Doubled(r), enc.out)
<1>1. /\ decoder \in HostDecoder /\ decoder.contexts = r.contexts /\ decoder.bit_index = r.at
      /\ decoder.size = r.size /\ decoder.bits = r.n /\ ~decoder.wrong
  BY DEF HostAt
<1>2. PICK P, Q : /\ Prefixes(P, enc.out) /\ Tops(Q, enc.out)
                  /\ decoder.value = P[r.at] - r.low /\ decoder.uncertainty = Q[r.at] - P[r.at] + 1
  BY DEF HostAt
<1>3. r.size < Half
  BY <1>1 DEF ReadBit
<1> DEFINE new  == Doubled(r)
           past == r.at >= Len(enc.out)
           bit  == IF past THEN 0 ELSE enc.out[r.at + 1]
           more == IF past THEN 2 * decoder.uncertainty ELSE decoder.uncertainty
<1>4. /\ new \in Interval /\ new.low = 2 * r.low /\ new.size = 2 * r.size
      /\ new.at = r.at + 1 /\ new.n = r.n /\ new.contexts = r.contexts
  BY <1>3, DoubledIs
<1>5. decoder' = [decoder EXCEPT !.bit_index = @ + 1, !.size = 2 * @, !.value = 2 * @ + bit, !.uncertainty = more]
  BY <1>1 DEF ReadBit, Data, HostDecoder
<1>6. r.low \in Nat /\ r.at \in Nat /\ r.size \in Nat /\ Len(enc.out) \in Nat
  <2>1. One \in Nat
    BY Widths
  <2>2. QED
    BY <2>1 DEF Interval
<1>7. P[r.at] \in Nat /\ P[r.at + 1] = 2 * P[r.at] + BitAt(enc.out, r.at + 1) /\ Q[r.at] \in Nat
  <2>1. Continues(Q, enc.out)
    BY <1>2, Zenon DEF Tops
  <2>2. P[r.at] \in Nat /\ P[r.at + 1] = 2 * P[r.at] + BitAt(enc.out, r.at + 1)
    BY <1>2, <1>6, PrefixStep, Zenon
  <2>3. Q[r.at] \in Nat
    BY <1>6, <2>1, ContinuesStep, Zenon
  <2>4. QED
    BY <2>2, <2>3, Zenon
<1>8. bit \in Bits /\ BitAt(enc.out, r.at + 1) = bit
  <2>1. CASE past
    <3>1. ~(r.at + 1 \in DOMAIN enc.out)
      BY <1>6, <2>1
    <3>2. QED
      BY <2>1, <3>1 DEF BitAt, Bits
  <2>2. CASE ~past
    <3>1. r.at + 1 \in DOMAIN enc.out
      BY <1>6, <2>2
    <3>2. enc.out[r.at + 1] \in Bits
      BY <3>1
    <3>3. QED
      BY <2>2, <3>1, <3>2, Zenon DEF BitAt
  <2>3. QED
    BY <2>1, <2>2
<1>9. more = Q[r.at + 1] - P[r.at + 1] + 1 /\ Q[r.at + 1] \in Nat
  <2>1. CASE past
    <3>1. Q[r.at + 1] = 2 * Q[r.at] + 1
      BY <1>2, <1>6, <2>1, Zenon DEF Tops
    <3>2. P[r.at + 1] = 2 * P[r.at] + 0
      BY <1>7, <1>8, <2>1
    <3>3. more = 2 * (Q[r.at] - P[r.at] + 1)
      BY <1>2, <2>1
    <3> DEFINE least    == P[r.at]
               greatest == Q[r.at]
               low      == P[r.at + 1]
               top      == Q[r.at + 1]
    <3>4. /\ least \in Nat /\ greatest \in Nat /\ low = 2 * least + 0 /\ top = 2 * greatest + 1
          /\ more = 2 * (greatest - least + 1)
      BY <1>7, <3>1, <3>2, <3>3, Zenon
    <3> HIDE DEF least, greatest, low, top, more
    <3>5. more = top - low + 1 /\ top \in Nat
      BY <3>4
    <3>6. QED
      BY <3>5 DEF low, top
  <2>2. CASE ~past
    <3>1. r.at + 1 \in Nat /\ r.at + 1 <= Len(enc.out) /\ r.at <= Len(enc.out)
      BY <1>6, <2>2
    <3>2. Continues(P, enc.out) /\ Continues(Q, enc.out)
      BY <1>2, PrefixesContinue, Zenon DEF Tops
    <3>3. P[r.at] = Q[r.at] /\ P[r.at + 1] = Q[r.at + 1]
      <4>1. P[r.at] = Q[r.at]
        BY <1>6, <3>1, <3>2, ContinuationsAgree
      <4>2. P[r.at + 1] = Q[r.at + 1]
        BY <3>1, <3>2, ContinuationsAgree
      <4>3. QED
        BY <4>1, <4>2, Zenon
    <3>4. Q[r.at + 1] \in Nat
      BY <3>1, <3>2, ContinuesStep, Zenon
    <3>5. more = Q[r.at] - P[r.at] + 1
      BY <1>2, <2>2
    <3> HIDE DEF more
    <3>6. QED
      BY <1>7, <3>3, <3>4, <3>5
  <2>3. QED
    BY <2>1, <2>2
<1> HIDE DEF bit, more, past, new
<1>10. 2 * decoder.value + bit = P[r.at + 1] - new.low /\ P[r.at + 1] \in Nat
  <2>1. bit \in Nat
    BY <1>8 DEF Bits
  <2>2. P[r.at + 1] = 2 * P[r.at] + bit
    BY <1>7, <1>8
  <2>3. \A x, y, z \in Int : 2 * (x - y) + z = (2 * x + z) - 2 * y
    OBVIOUS
  <2>4. decoder.value \in Int /\ r.low \in Int /\ bit \in Int /\ P[r.at] \in Int
    BY <1>1, <1>6, <1>7, <2>1 DEF HostDecoder
  <2>5. 2 * decoder.value + bit = (2 * P[r.at] + bit) - 2 * r.low
    <3>1. 2 * (P[r.at] - r.low) + bit = (2 * P[r.at] + bit) - 2 * r.low
      BY <2>3, <2>4, Zenon
    <3>2. QED
      BY <1>2, <3>1, Zenon
  <2>6. P[r.at + 1] \in Nat
    <3>1. \A x, y \in Nat : 2 * x + y \in Nat
      OBVIOUS
    <3>2. QED
      BY <1>7, <2>1, <2>2, <3>1, Zenon
  <2>7. QED
    BY <1>4, <2>2, <2>5, <2>6, Zenon
<1>11. /\ decoder' \in HostDecoder /\ decoder'.contexts = decoder.contexts
       /\ decoder'.bit_index = decoder.bit_index + 1 /\ decoder'.size = 2 * decoder.size
       /\ decoder'.bits = decoder.bits /\ decoder'.wrong = decoder.wrong
       /\ decoder'.value = 2 * decoder.value + bit /\ decoder'.uncertainty = more
  <2>1. /\ decoder.bit_index + 1 \in Nat /\ 2 * decoder.size \in Nat
        /\ 2 * decoder.value + bit \in Int /\ more \in Int
    <3>1. new.low \in Nat /\ r.at \in Nat
      BY <1>4, <1>6 DEF Interval
    <3>2. P[r.at + 1] - new.low \in Int
      BY <1>10, <3>1
    <3>3. more \in Int
      <4>1. \A x, y \in Nat : x - y + 1 \in Int
        OBVIOUS
      <4>2. QED
        BY <1>9, <1>10, <4>1, Zenon
    <3>4. decoder.bit_index + 1 \in Nat /\ 2 * decoder.size \in Nat
      BY <1>1, <3>1 DEF HostDecoder
    <3>5. QED
      BY <1>10, <3>2, <3>3, <3>4, Zenon
  <2>2. QED
    BY <1>1, <1>5, <2>1 DEF HostDecoder
<1>12. HostAt(decoder', new, enc.out)
  BY <1>1, <1>2, <1>4, <1>9, <1>10, <1>11 DEF HostAt
<1>13. QED
  BY <1>3, <1>12 DEF new

LEMMA HostDecodeKeeps ==
  ASSUME WidthsAssumption, NEW r \in Interval, HostAt(decoder, r, enc.out), HostDecode,
         NEW c \in Contexts, NEW bit \in Bits, coded[r.n + 1] = <<c, bit>>,
         Lands(Narrowed(r, c, bit), enc.out), enc.out \in Seq(Bits)
  PROVE  r.size >= Half /\ HostAt(decoder', Narrowed(r, c, bit), enc.out)
<1> DEFINE new       == Narrowed(r, c, bit)
           threshold == Threshold(r.size, r.contexts[c])
           read      == IF decoder.value >= threshold THEN 0 ELSE 1
           sure      == read = 0 \/ decoder.value + decoder.uncertainty <= threshold
           learned   == [r.contexts EXCEPT ![c] = Learned(@, bit)]
<1>1. /\ decoder \in HostDecoder /\ decoder.contexts = r.contexts /\ decoder.bit_index = r.at
      /\ decoder.size = r.size /\ decoder.bits = r.n /\ ~decoder.wrong
  BY DEF HostAt
<1>2. PICK P, Q : /\ Prefixes(P, enc.out) /\ Tops(Q, enc.out)
                  /\ decoder.value = P[r.at] - r.low /\ decoder.uncertainty = Q[r.at] - P[r.at] + 1
  BY DEF HostAt
<1>3. r.size >= Half
  BY <1>1 DEF HostDecode
<1>4. /\ new \in Interval
      /\ threshold \in 1..r.size - 1
      /\ bit = 0 => new.low = r.low + threshold /\ new.size = r.size - threshold
      /\ bit = 1 => new.low = r.low /\ new.size = threshold
      /\ new.at = r.at /\ new.n = r.n + 1 /\ new.contexts = learned
  <2>1. Narrows(Narrowed(r, c, bit), r, c, bit)
    BY <1>3, NarrowedIs, Zenon
  <2>2. QED
    BY <2>1 DEF Narrows
<1>5. Context(decoder) = c /\ coded[decoder.bits + 1][2] = bit
  BY <1>1 DEF Context
<1>6. decoder' = [decoder EXCEPT
           !.value = IF read = 0 THEN @ - threshold ELSE @,
           !.size = IF read = 0 THEN @ - threshold ELSE threshold,
           !.contexts[c] = Learned(@, read),
           !.bits = @ + 1,
           !.wrong = @ \/ ~sure \/ read # bit]
  BY <1>1, <1>5, Zenon DEF HostDecode
<1>7. r.low \in Nat /\ r.at \in Nat /\ r.size \in Nat
  <2>1. One \in Nat
    BY Widths
  <2>2. QED
    BY <2>1 DEF Interval
<1>8. Continues(P, enc.out) /\ Continues(Q, enc.out)
  BY <1>2, PrefixesContinue, Zenon DEF Tops
<1>9. P[r.at] \in Nat /\ Q[r.at] \in Nat
  BY <1>7, <1>8, ContinuesStep, Zenon
<1>10. /\ new.low <= P[r.at] /\ P[r.at] < new.low + new.size
       /\ new.low <= Q[r.at] /\ Q[r.at] < new.low + new.size
  BY <1>4, <1>8, Zenon DEF Lands
<1> HIDE DEF new, threshold, learned
<1>11. read = bit /\ sure
  <2>1. CASE bit = 0
    <3>1. threshold \in Nat /\ new.low = r.low + threshold
      BY <1>4, <1>7, <2>1
    <3>2. decoder.value >= threshold
      BY <1>2, <1>7, <1>9, <1>10, <3>1
    <3>3. QED
      BY <2>1, <3>2
  <2>2. CASE bit = 1
    <3>1. threshold \in Nat /\ new.low = r.low /\ new.size = threshold
      BY <1>4, <1>7, <2>2
    <3>2. decoder.value < threshold /\ decoder.value + decoder.uncertainty <= threshold
      BY <1>2, <1>7, <1>9, <1>10, <3>1
    <3>3. ~(decoder.value >= threshold)
      BY <1>2, <1>7, <1>9, <3>1, <3>2
    <3>4. QED
      BY <2>2, <3>2, <3>3
  <2>3. QED
    BY <2>1, <2>2 DEF Bits
<1> DEFINE value == IF bit = 0 THEN decoder.value - threshold ELSE decoder.value
<1> HIDE DEF read, sure
<1>12. ~(decoder.wrong \/ ~sure \/ read # bit)
  BY <1>1, <1>11
<1>13. /\ decoder' \in HostDecoder /\ decoder'.bit_index = decoder.bit_index /\ decoder'.bits = decoder.bits + 1
       /\ decoder'.size = new.size /\ decoder'.value = value /\ decoder'.contexts = learned
       /\ decoder'.uncertainty = decoder.uncertainty /\ ~decoder'.wrong
  <2> DEFINE bad == decoder.wrong \/ ~sure \/ read # bit
  <2>1. decoder.value \in Int /\ threshold \in Int
    BY <1>1, <1>4, <1>7 DEF HostDecoder
  <2>2. value \in Int /\ new.size \in Nat /\ new.size = IF read = 0 THEN r.size - threshold ELSE threshold
    BY <1>4, <1>7, <1>11, <2>1 DEF Bits
  <2>3. value = IF read = 0 THEN decoder.value - threshold ELSE decoder.value
    BY <1>11
  <2>4. bad \in BOOLEAN /\ ~bad
    BY <1>12, Zenon
  <2> HIDE DEF bad, value
  <2>5. decoder' = [decoder EXCEPT !.value = value, !.size = new.size, !.contexts = learned, !.bits = @ + 1, !.wrong = bad]
    <3>1. [decoder.contexts EXCEPT ![c] = Learned(@, read)] = learned
      BY <1>1, <1>11 DEF learned
    <3>2. decoder' = [decoder EXCEPT
           !.value = IF read = 0 THEN @ - threshold ELSE @,
           !.size = IF read = 0 THEN @ - threshold ELSE threshold,
           !.contexts[c] = Learned(@, read),
           !.bits = @ + 1,
           !.wrong = bad]
      BY <1>1, <1>6 DEF HostDecoder, bad
    <3>3. QED
      BY <1>1, <2>2, <2>3, <3>1, <3>2 DEF HostDecoder
  <2>6. learned \in [Contexts -> 2..One - 1] /\ decoder.bits + 1 \in Nat
    BY <1>1, <1>4 DEF Interval, HostDecoder
  <2>7. decoder' \in HostDecoder
    BY <1>1, <2>2, <2>4, <2>5, <2>6 DEF HostDecoder
  <2>8. /\ decoder'.bit_index = decoder.bit_index /\ decoder'.bits = decoder.bits + 1
        /\ decoder'.size = new.size /\ decoder'.value = value /\ decoder'.contexts = learned
        /\ decoder'.uncertainty = decoder.uncertainty /\ decoder'.wrong = bad
    BY <1>1, <2>5 DEF HostDecoder
  <2>9. QED
    BY <2>4, <2>7, <2>8, Zenon
<1>14. value = P[r.at] - new.low
  BY <1>2, <1>4, <1>7, <1>9 DEF Bits
<1>15. HostAt(decoder', new, enc.out)
  <2> HIDE DEF value
  <2> QED BY <1>1, <1>2, <1>4, <1>13, <1>14 DEF HostAt
<1>16. QED
  BY <1>3, <1>15 DEF new

-----------------------------------------------------------------------------
(* The bytes the Amiga fetches.                                            *)

\* The number of the bits up to a byte's end ends in that byte.
Bytewise(Q, data, after) ==
  \A m \in Nat : /\ ByteOf(data, after, m + 1) \in 0..Byte - 1
                 /\ Q[m * ByteBits + ByteBits] = Q[m * ByteBits] * Byte + ByteOf(data, after, m + 1)

\* Q[n] is the number of the first n of the digits b.
Counts(Q, b) == Q \in [Nat -> Nat] /\ b \in [Nat -> Nat] /\ \A n \in Nat : Q[n + 1] = 2 * Q[n] + b[n]

Shifted(b, start) == [i \in Nat |-> b[start + i]]

LEMMA DigitsFollow ==
  ASSUME NEW Q, NEW b, NEW start \in Nat, NEW count \in Nat, NEW f, Counts(Q, b),
         Doubles(f, 0, Shifted(b, start), count)
  PROVE  Q[start + count] = Q[start] * Pow2[count] + f[count]
<1> DEFINE S == {k \in Nat : k <= count => Q[start + k] = Q[start] * Pow2[k] + f[k]}
<1>0. Q \in [Nat -> Nat] /\ b \in [Nat -> Nat]
  BY DEF Counts
<1>1. f \in [0..count -> Nat] /\ f[0] = 0 /\ Q[start] \in Nat
  <2>1. f \in [0..count -> Nat] /\ f[0] = 0
    BY Zenon DEF Doubles
  <2>2. Q[start] \in Nat
    BY <1>0
  <2>3. QED
    BY <2>1, <2>2, Zenon
<1>2. \A k \in 0..count - 1 : f[k + 1] = 2 * f[k] + b[start + k]
  <2>1. \A k \in 0..count - 1 : f[k + 1] = 2 * f[k] + Shifted(b, start)[k]
    BY Zenon DEF Doubles
  <2>2. \A k \in 0..count - 1 : Shifted(b, start)[k] = b[start + k]
    BY DEF Shifted
  <2>3. QED
    BY <2>1, <2>2, Zenon
<1>3. 0 \in S
  <2>1. start + 0 = start /\ Pow2[0] = 1
    BY Pow2Is
  <2>2. Q[start] = Q[start] * 1 + 0
    BY <1>1
  <2>3. Q[start + 0] = Q[start] * Pow2[0] + f[0]
    BY <1>1, <2>1, <2>2, Zenon
  <2>4. QED
    BY <2>3
<1>4. ASSUME NEW k \in Nat, k \in S
      PROVE  k + 1 \in S
  <2>1. CASE k + 1 <= count
    <3>1. k \in 0..count - 1 /\ start + k \in Nat /\ k <= count /\ start + (k + 1) = (start + k) + 1
      BY <2>1
    <3>2. f[k + 1] = 2 * f[k] + b[start + k] /\ Q[(start + k) + 1] = 2 * Q[start + k] + b[start + k]
      BY <1>2, <3>1, Zenon DEF Counts
    <3>3. Q[start + k] = Q[start] * Pow2[k] + f[k]
      BY <1>4, <3>1
    <3>4. Pow2[k + 1] = 2 * Pow2[k] /\ Pow2[k] \in Nat /\ f[k] \in Nat /\ b[start + k] \in Nat
      <4>1. Pow2[k + 1] = 2 * Pow2[k] /\ Pow2[k] \in Nat
        BY Pow2Is, Pow2Positive, Zenon
      <4>2. f[k] \in Nat
        BY <1>1, <3>1
      <4>3. b[start + k] \in Nat
        BY <1>0, <3>1
      <4>4. QED
        BY <4>1, <4>2, <4>3
    <3>5. \A x, y, z, w \in Nat : 2 * (x * y + z) + w = x * (2 * y) + (2 * z + w)
      OBVIOUS
    <3>6. 2 * (Q[start] * Pow2[k] + f[k]) + b[start + k] = Q[start] * (2 * Pow2[k]) + (2 * f[k] + b[start + k])
      <4> DEFINE x == Q[start]
                 y == Pow2[k]
                 z == f[k]
                 w == b[start + k]
      <4>1. x \in Nat /\ y \in Nat /\ z \in Nat /\ w \in Nat
        BY <1>1, <3>4, Zenon
      <4> HIDE DEF x, y, z, w
      <4>2. 2 * (x * y + z) + w = x * (2 * y) + (2 * z + w)
        BY <3>5, <4>1
      <4>3. QED
        BY <4>2 DEF x, y, z, w
    <3>7. Q[start + (k + 1)] = Q[start] * Pow2[k + 1] + f[k + 1]
      BY <3>1, <3>2, <3>3, <3>4, <3>6, Zenon
    <3>8. QED
      BY <3>7
  <2>2. CASE ~(k + 1 <= count)
    BY <2>2
  <2>3. QED
    BY <2>1, <2>2
<1>5. \A k \in Nat : k \in S
  <2> HIDE DEF S
  <2> QED BY <1>3, <1>4, Induction
<1>6. QED
  BY <1>5

LEMMA DigitsFit ==
  ASSUME NEW b \in [Nat -> Bits], NEW count \in Nat, NEW f, Doubles(f, 0, b, count)
  PROVE  f[count] \in Nat /\ f[count] < Pow2[count]
<1> DEFINE S == {k \in Nat : k <= count => f[k] < Pow2[k]}
<1>1. f \in [0..count -> Nat] /\ f[0] = 0
  BY DEF Doubles
<1>2. 0 \in S
  BY <1>1, Pow2Is
<1>3. ASSUME NEW k \in Nat, k \in S
      PROVE  k + 1 \in S
  <2>1. CASE k + 1 <= count
    <3>1. k \in 0..count - 1 /\ k <= count
      BY <2>1
    <3>2. f[k + 1] = 2 * f[k] + b[k]
      BY <3>1, Zenon DEF Doubles
    <3>3. f[k] \in Nat /\ f[k] < Pow2[k] /\ b[k] \in {0, 1}
      BY <1>1, <1>3, <3>1 DEF Bits
    <3>4. Pow2[k + 1] = 2 * Pow2[k] /\ Pow2[k] \in Nat
      BY Pow2Is, Pow2Positive, Zenon
    <3>5. f[k + 1] < Pow2[k + 1]
      BY <3>2, <3>3, <3>4
    <3>6. QED
      BY <3>5
  <2>2. CASE ~(k + 1 <= count)
    BY <2>2
  <2>3. QED
    BY <2>1, <2>2
<1>4. \A k \in Nat : k \in S
  <2> HIDE DEF S
  <2> QED BY <1>2, <1>3, Induction
<1>5. QED
  BY <1>1, <1>4

LEMMA HalfQuotient ==
  ASSUME NEW v \in Nat, NEW p \in Nat \ {0}
  PROVE  v \div p = 2 * (v \div (2 * p)) + ((v \div p) % 2)
<1> DEFINE x == v \div p
           y == v \div (2 * p)
<1>1. x \in Nat /\ x * p <= v /\ v < x * p + p
  BY Division
<1>2. y \in Nat /\ y * (2 * p) <= v /\ v < y * (2 * p) + 2 * p
  <2>1. 2 * p \in Nat \ {0}
    OBVIOUS
  <2>2. QED
    BY <2>1, Division, Zenon
<1> HIDE DEF x, y
<1>3. (2 * y) * p <= v /\ v < (2 * y + 2) * p
  BY <1>1, <1>2
<1>4. \A u, w \in Nat : u * p < w * p => u < w
  OBVIOUS
<1>5. (2 * y) * p < (x + 1) * p /\ x * p < (2 * y + 2) * p
  BY <1>1, <1>2, <1>3
<1>6. 2 * y < x + 1 /\ x < 2 * y + 2
  BY <1>1, <1>2, <1>4, <1>5
<1>7. x = 2 * y + (x % 2)
  BY <1>1, <1>2, <1>6
<1>8. QED
  BY <1>7 DEF x, y

LEMMA ByteOfData ==
  ASSUME WidthsAssumption, NEW data, NEW after, NEW m \in Nat, ~((m + 1) * ByteBits > Len(data)),
         NEW d \in [Nat -> Nat], \A k \in 0..ByteBits - 1 : d[k] = data[m * ByteBits + (k + 1)]
  PROVE  \E f : Doubles(f, 0, d, ByteBits) /\ ByteOf(data, after, m + 1) = f[ByteBits]
<1> DEFINE P(f) == f = [n \in 0..ByteBits |-> IF n = 0 THEN 0 ELSE 2 * f[n - 1] + data[((m + 1) - 1) * ByteBits + n]]
           number == CHOOSE f : P(f)
<1>1. ByteBits \in Nat /\ 0 \in Nat /\ (m + 1) - 1 = m
  BY DEF WidthsAssumption
<1>2. PICK g \in [Nat -> Nat] : g[0] = 0 /\ \A n \in Nat : g[n + 1] = 2 * g[n] + d[n]
  BY <1>1, NumbersExist
<1> DEFINE f == [n \in 0..ByteBits |-> g[n]]
<1>3. P(f)
  <2>1. ASSUME NEW n \in 0..ByteBits
        PROVE  f[n] = IF n = 0 THEN 0 ELSE 2 * f[n - 1] + data[((m + 1) - 1) * ByteBits + n]
    <3>1. CASE n = 0
      BY <1>1, <1>2, <3>1
    <3>2. CASE n # 0
      <4>1. n - 1 \in 0..ByteBits - 1 /\ (n - 1) + 1 = n /\ n - 1 \in Nat /\ n - 1 \in 0..ByteBits
        BY <1>1, <3>2
      <4>2. g[(n - 1) + 1] = 2 * g[n - 1] + d[n - 1] /\ d[n - 1] = data[m * ByteBits + ((n - 1) + 1)]
        BY <1>2, <4>1, Zenon
      <4>3. f[n] = g[n] /\ f[n - 1] = g[n - 1]
        BY <4>1
      <4>4. QED
        BY <1>1, <3>2, <4>1, <4>2, <4>3, Zenon
    <3>3. QED
      BY <3>1, <3>2
  <2>2. QED
    BY <2>1, Zenon
<1> HIDE DEF f
<1>4. P(number)
  BY <1>3, Zenon
<1>5. ByteOf(data, after, m + 1) = number[ByteBits]
  BY Zenon DEF ByteOf
<1> HIDE DEF number
<1>6. /\ number = [n \in 0..ByteBits |-> IF n = 0 THEN 0 ELSE 2 * number[n - 1] + data[((m + 1) - 1) * ByteBits + n]]
      /\ number[0] = 0
  <2>1. number = [n \in 0..ByteBits |-> IF n = 0 THEN 0 ELSE 2 * number[n - 1] + data[((m + 1) - 1) * ByteBits + n]]
    BY <1>4
  <2>2. 0 \in 0..ByteBits
    BY <1>1
  <2>3. number[0] = 0
    BY <2>1, <2>2, Zenon
  <2>4. QED
    BY <2>1, <2>3, Zenon
<1>7. ASSUME NEW k \in 0..ByteBits - 1
      PROVE  number[k + 1] = 2 * number[k] + d[k]
  <2>1. k + 1 \in 0..ByteBits /\ k + 1 # 0 /\ (k + 1) - 1 = k
    BY <1>1
  <2>2. number[k + 1] = 2 * number[(k + 1) - 1] + data[((m + 1) - 1) * ByteBits + (k + 1)]
    BY <1>6, <2>1, Zenon
  <2>3. d[k] = data[m * ByteBits + (k + 1)]
    BY Zenon
  <2>4. QED
    BY <1>1, <2>1, <2>2, <2>3, Zenon
<1> DEFINE S == {k \in Nat : k <= ByteBits => number[k] \in Nat}
<1>8. 0 \in S
  BY <1>6
<1>9. ASSUME NEW k \in Nat, k \in S
      PROVE  k + 1 \in S
  <2>1. CASE k + 1 <= ByteBits
    <3>1. k \in 0..ByteBits - 1 /\ k <= ByteBits
      BY <1>1, <2>1
    <3>2. number[k + 1] = 2 * number[k] + d[k] /\ d[k] \in Nat /\ number[k] \in Nat
      <4>1. number[k + 1] = 2 * number[k] + d[k]
        BY <1>7, <3>1, Zenon
      <4>2. number[k] \in Nat
        BY <1>9, <3>1
      <4>3. d[k] \in Nat
        OBVIOUS
      <4>4. QED
        BY <4>1, <4>2, <4>3, Zenon
    <3>3. \A x, y \in Nat : 2 * x + y \in Nat
      OBVIOUS
    <3>4. number[k + 1] \in Nat
      BY <3>2, <3>3, Zenon
    <3>5. QED
      BY <3>4
  <2>2. CASE ~(k + 1 <= ByteBits)
    BY <2>2
  <2>3. QED
    BY <2>1, <2>2
<1>10. \A k \in Nat : k \in S
  <2> HIDE DEF S
  <2> QED BY <1>8, <1>9, Induction
<1>11. number \in [0..ByteBits -> Nat]
  <2>1. \A k \in 0..ByteBits : number[k] \in Nat
    BY <1>1, <1>10
  <2>2. DOMAIN number = 0..ByteBits /\ number = [k \in 0..ByteBits |-> number[k]]
    BY <1>6, Zenon
  <2>3. QED
    BY <2>1, <2>2, Zenon
<1>12. Doubles(number, 0, d, ByteBits)
  BY <1>6, <1>7, <1>11, Zenon DEF Doubles
<1>13. QED
  BY <1>5, <1>12

LEMMA QuotientIs ==
  ASSUME NEW p \in Nat \ {0}, NEW x \in Nat, NEW q \in Nat, NEW u \in Nat, u < p, x = q * p + u
  PROVE  x \div p = q /\ x % p = u
OBVIOUS

\* The bits of a byte, from the highest, form the byte.
LEMMA BitsOfByte ==
  ASSUME WidthsAssumption, NEW v \in 0..Byte - 1, NEW d \in [Nat -> Nat],
         \A k \in 0..ByteBits - 1 : d[k] = (v \div Pow2[(ByteBits - 1) - k]) % 2
  PROVE  \E f : Doubles(f, 0, d, ByteBits) /\ f[ByteBits] = v
<1> DEFINE f == [k \in 0..ByteBits |-> v \div Pow2[ByteBits - k]]
<1>1. ByteBits \in Nat \ {0} /\ v \in Nat /\ v < Pow2[ByteBits] /\ Pow2[ByteBits] \in Nat
  BY Widths DEF WidthsAssumption, Byte
<1>2. \A k \in 0..ByteBits : v \div Pow2[ByteBits - k] \in Nat
  <2>1. ASSUME NEW k \in 0..ByteBits
        PROVE  v \div Pow2[ByteBits - k] \in Nat
    <3>1. ByteBits - k \in Nat
      BY <1>1
    <3>2. Pow2[ByteBits - k] \in Nat \ {0}
      BY <3>1, Pow2Positive
    <3>3. QED
      BY <1>1, <3>2, Division
  <2>2. QED
    BY <2>1
<1>3. f \in [0..ByteBits -> Nat]
  BY <1>2
<1>4. f[0] = 0
  <2>1. v \div Pow2[ByteBits] = 0
    <3>1. \A x, y \in Nat : x < y => x \div y = 0
      OBVIOUS
    <3>2. QED
      BY <1>1, <3>1
  <2>2. ByteBits - 0 = ByteBits /\ 0 \in 0..ByteBits
    BY <1>1
  <2>3. QED
    BY <2>1, <2>2
<1>5. ASSUME NEW k \in 0..ByteBits - 1
      PROVE  f[k + 1] = 2 * f[k] + d[k]
  <2> DEFINE e == (ByteBits - 1) - k
  <2>1. e \in Nat /\ ByteBits - (k + 1) = e /\ ByteBits - k = e + 1 /\ k \in 0..ByteBits /\ k + 1 \in 0..ByteBits
    BY <1>1
  <2> HIDE DEF e
  <2>2. Pow2[e + 1] = 2 * Pow2[e] /\ Pow2[e] \in Nat \ {0}
    BY <2>1, Pow2Is, Pow2Positive
  <2>3. v \div Pow2[e] = 2 * (v \div (2 * Pow2[e])) + ((v \div Pow2[e]) % 2)
    BY <1>1, <2>2, HalfQuotient
  <2>4. f[k + 1] = v \div Pow2[e] /\ f[k] = v \div (2 * Pow2[e])
    BY <2>1, <2>2
  <2>5. d[k] = (v \div Pow2[e]) % 2
    BY Zenon DEF e
  <2> HIDE DEF f
  <2>6. QED
    BY <2>3, <2>4, <2>5, Zenon
<1>6. f[ByteBits] = v
  <2>1. ByteBits - ByteBits = 0 /\ ByteBits \in 0..ByteBits /\ Pow2[0] = 1 /\ v \div 1 = v
    BY <1>1, Pow2Is
  <2>2. QED
    BY <2>1
<1> HIDE DEF f
<1>7. Doubles(f, 0, d, ByteBits)
  BY <1>3, <1>4, <1>5 DEF Doubles
<1>8. QED
  BY <1>6, <1>7

\* One number continues the data and goes on with the bytes behind it.
LEMMA BytesAreRead ==
  ASSUME WidthsAssumption, NEW data \in Seq(Bits), WholeBytes(data), NEW after \in [1..2 -> 0..Byte - 1]
  PROVE  \E Q : Continues(Q, data) /\ Bytewise(Q, data, after)
<1> DEFINE behind(k) == Behind(data, after, (k \div ByteBits) + 1)
           digit(k)  == (behind(k) \div Pow2[(ByteBits - 1) - (k % ByteBits)]) % 2
           b == [k \in Nat |-> IF k < Len(data) THEN data[k + 1] ELSE digit(k)]
<1>1. ByteBits \in Nat \ {0} /\ Len(data) \in Nat /\ Byte \in Nat /\ Byte = Pow2[ByteBits]
  BY Widths DEF WidthsAssumption, Byte
<1>2. \A a4 : Behind(data, after, a4) \in 0..Byte - 1
  BY DEF Behind
<1>3. ASSUME NEW k \in Nat
      PROVE  digit(k) \in Bits
  <2>1. k % ByteBits \in 0..ByteBits - 1
    BY <1>1
  <2>2. (ByteBits - 1) - (k % ByteBits) \in Nat
    BY <1>1, <2>1
  <2>3. Pow2[(ByteBits - 1) - (k % ByteBits)] \in Nat \ {0}
    BY <2>2, Pow2Positive
  <2>4. behind(k) \in Nat
    BY <1>1, <1>2
  <2> HIDE DEF behind
  <2>5. behind(k) \div Pow2[(ByteBits - 1) - (k % ByteBits)] \in Nat
    BY <2>3, <2>4, Division, Zenon
  <2>6. \A x \in Nat : x % 2 \in {0, 1}
    OBVIOUS
  <2>7. QED
    BY <2>5, <2>6, Zenon DEF Bits
<1> HIDE DEF digit
<1>4. ASSUME NEW k \in Nat
      PROVE  b[k] \in Bits /\ (k < Len(data) => b[k] = data[k + 1])
             /\ (~(k < Len(data)) => b[k] = digit(k))
  <2>1. CASE k < Len(data)
    <3>1. k + 1 \in 1..Len(data)
      BY <1>1, <2>1
    <3>2. data[k + 1] \in Bits
      BY <3>1
    <3>3. b[k] = data[k + 1]
      BY <2>1
    <3>4. QED
      BY <2>1, <3>2, <3>3, Zenon
  <2>2. CASE ~(k < Len(data))
    <3>1. b[k] = digit(k)
      BY <2>2
    <3>2. digit(k) \in Bits
      BY <1>3, Zenon
    <3>3. QED
      BY <2>2, <3>1, <3>2, Zenon
  <2>3. QED
    BY <2>1, <2>2
<1>5. b \in [Nat -> Bits]
  <2>1. \A k \in Nat : b[k] \in Bits
    BY <1>4, Zenon
  <2>2. b = [k \in Nat |-> b[k]]
    OBVIOUS
  <2> HIDE DEF b
  <2>3. QED
    BY <2>1, <2>2, Zenon
<1> HIDE DEF b
<1>6. b \in [Nat -> Nat]
  <2>1. \A x \in Bits : x \in Nat
    BY DEF Bits
  <2>2. \A k \in Nat : b[k] \in Nat
    BY <1>5, <2>1
  <2>3. QED
    BY <1>5, <2>2
<1>7. PICK Q : Q[0] = 0 /\ Counts(Q, b)
  <2>1. 0 \in Nat
    OBVIOUS
  <2>2. PICK Q \in [Nat -> Nat] : Q[0] = 0 /\ \A n \in Nat : Q[n + 1] = 2 * Q[n] + b[n]
    BY <1>6, <2>1, NumbersExist
  <2>3. QED
    BY <1>6, <2>2, Zenon DEF Counts
<1>8. Q \in [Nat -> Nat]
  BY <1>7, Zenon DEF Counts
<1>9. Continues(Q, data)
  <2>1. ASSUME NEW n \in Nat
        PROVE  /\ Q[n + 1] \in {2 * Q[n], 2 * Q[n] + 1}
               /\ n < Len(data) => Q[n + 1] = 2 * Q[n] + data[n + 1]
    <3>1. Q[n + 1] = 2 * Q[n] + b[n] /\ b[n] \in Bits
      BY <1>4, <1>7, Zenon DEF Counts
    <3>2. Q[n] \in Nat
      BY <1>8
    <3>3. Q[n + 1] \in {2 * Q[n], 2 * Q[n] + 1}
      BY <3>1, <3>2, TwoPlusBit, Zenon
    <3>4. n < Len(data) => b[n] = data[n + 1]
      BY <1>4, Zenon
    <3>5. QED
      BY <3>1, <3>3, <3>4, Zenon
  <2>2. QED
    BY <1>7, <1>8, <2>1, Zenon DEF Continues
<1>10. PICK L : Len(data) = L * ByteBits /\ L \in Nat
  BY DEF WholeBytes
<1>11. ASSUME NEW m \in Nat
       PROVE  /\ ByteOf(data, after, m + 1) \in 0..Byte - 1
              /\ Q[m * ByteBits + ByteBits] = Q[m * ByteBits] * Byte + ByteOf(data, after, m + 1)
  <2> DEFINE start == m * ByteBits
             d     == Shifted(b, start)
  <2>1. start \in Nat /\ (m + 1) * ByteBits = start + ByteBits
    BY <1>1
  <2>2. d \in [Nat -> Bits] /\ d \in [Nat -> Nat] /\ \A k \in Nat : d[k] = b[start + k]
    <3> HIDE DEF start
    <3>1. \A k \in Nat : start + k \in Nat
      BY <2>1
    <3>2. \A k \in Nat : b[start + k] \in Bits /\ b[start + k] \in Nat
      BY <1>5, <1>6, <3>1
    <3>3. QED
      BY <3>2 DEF Shifted
  <2>3. ASSUME NEW f, Doubles(f, 0, d, ByteBits), ByteOf(data, after, m + 1) = f[ByteBits]
        PROVE  /\ ByteOf(data, after, m + 1) \in 0..Byte - 1
               /\ Q[start + ByteBits] = Q[start] * Byte + ByteOf(data, after, m + 1)
    <3> HIDE DEF start
    <3>1. ByteBits \in Nat
      BY <1>1
    <3>2. Q[start + ByteBits] = Q[start] * Pow2[ByteBits] + f[ByteBits]
      <4>1. Counts(Q, b) /\ start \in Nat
        BY <1>7, <2>1
      <4>2. Doubles(f, 0, Shifted(b, start), ByteBits)
        BY <2>3
      <4>3. QED
        BY <3>1, <4>1, <4>2, DigitsFollow, SMT
    <3>3. f[ByteBits] \in Nat /\ f[ByteBits] < Pow2[ByteBits]
      BY <2>2, <2>3, <3>1, DigitsFit, Zenon
    <3>4. f[ByteBits] \in 0..Byte - 1
      BY <1>1, <3>3
    <3>5. QED
      BY <1>1, <2>3, <3>2, <3>4, Zenon
  <2>4. \E f : Doubles(f, 0, d, ByteBits) /\ ByteOf(data, after, m + 1) = f[ByteBits]
    <3>1. CASE ~((m + 1) * ByteBits > Len(data))
      <4>1. ASSUME NEW k \in 0..ByteBits - 1
            PROVE  d[k] = data[start + (k + 1)]
        <5> HIDE DEF start
        <5>1. k \in Nat /\ start + k \in Nat /\ start + k < Len(data) /\ (start + k) + 1 = start + (k + 1)
          BY <1>1, <2>1, <3>1
        <5>2. b[start + k] = data[(start + k) + 1] /\ d[k] = b[start + k]
          BY <1>4, <2>2, <5>1, Zenon
        <5>3. QED
          BY <5>1, <5>2, Zenon
      <4>2. \A k \in 0..ByteBits - 1 : d[k] = data[m * ByteBits + (k + 1)]
        BY <4>1
      <4>3. d \in [Nat -> Nat]
        BY <2>2
      <4> HIDE DEF d
      <4>4. QED
        BY <3>1, <4>2, <4>3, ByteOfData, Zenon
    <3>2. CASE (m + 1) * ByteBits > Len(data)
      <4> DEFINE after_m == Behind(data, after, m + 1)
      <4>1. ByteOf(data, after, m + 1) = after_m
        BY <3>2, Zenon DEF ByteOf
      <4>2. start >= Len(data)
        <5>1. L < m + 1
          <6>1. \A x, y, z \in Nat : x * z < y * z => x < y
            OBVIOUS
          <6>2. L * ByteBits < (m + 1) * ByteBits /\ m + 1 \in Nat /\ ByteBits \in Nat
            BY <1>1, <1>10, <2>1, <3>2
          <6>3. QED
            BY <1>10, <6>1, <6>2
        <5>2. L <= m
          BY <1>10, <5>1
        <5>3. \A x, y, z \in Nat : x <= y => x * z <= y * z
          OBVIOUS
        <5>4. QED
          BY <1>1, <1>10, <5>2, <5>3
      <4>3. ASSUME NEW k \in 0..ByteBits - 1
            PROVE  d[k] = (after_m \div Pow2[(ByteBits - 1) - k]) % 2
        <5>1. start + k \in Nat /\ (start + k) \div ByteBits = m /\ (start + k) % ByteBits = k
          <6>1. start + k \in Nat /\ start + k = m * ByteBits + k /\ k < ByteBits /\ k \in Nat
            BY <1>1, <2>1
          <6> HIDE DEF start
          <6>2. QED
            BY <1>1, <6>1, QuotientIs
        <5> HIDE DEF start
        <5>2. k \in Nat /\ start + k \in Nat /\ ~(start + k < Len(data))
          BY <1>1, <2>1, <4>2
        <5>3. d[k] = digit(start + k)
          BY <1>4, <2>2, <5>2, Zenon
        <5> HIDE DEF d
        <5>4. QED
          BY <5>1, <5>3, Zenon DEF digit
      <4>4. after_m \in 0..Byte - 1
        BY <1>2
      <4> HIDE DEF d, after_m
      <4>5. \E f : Doubles(f, 0, d, ByteBits) /\ f[ByteBits] = after_m
        BY <2>2, <4>3, <4>4, BitsOfByte, Zenon
      <4>6. QED
        BY <4>1, <4>5, Zenon
    <3>3. QED
      BY <3>1, <3>2
  <2>5. QED
    BY <2>3, <2>4
<1>12. Bytewise(Q, data, after)
  BY <1>11 DEF Bytewise
<1>13. QED
  BY <1>9, <1>12

-----------------------------------------------------------------------------
(* The Amiga's shift register.                                             *)

\* Of the byte before a4 the last left bits are still to come, the number rest;
\* they are at the top of the register, the mark behind them.
Holds(d4, left, rest, fetched, at, Q) ==
  /\ fetched * ByteBits = at + left
  /\ rest < Pow2[left] /\ Q[at + left] = Q[at] * Pow2[left] + rest
  /\ d4 = (2 * rest + 1) * Pow2[(ByteBits - 1) - left]

Buffered(d4, a4, at, Q) ==
  \E left \in 0..ByteBits - 1, rest \in Nat, fetched \in Nat :
     a4 = fetched + 1 /\ Holds(d4, left, rest, fetched, at, Q)

LEMMA SameQuotient ==
  ASSUME NEW p \in Nat \ {0}, NEW x \in Nat, NEW y \in Nat, NEW u \in Nat, u < p,
         x * p <= y * p + u, y * p + u < x * p + p
  PROVE  x = y
<1>1. \A a, b \in Nat : a * p < b * p => a < b
  OBVIOUS
<1>2. x * p < (y + 1) * p /\ y * p < (x + 1) * p
  OBVIOUS
<1>3. x < y + 1 /\ y < x + 1
  BY <1>1, <1>2
<1>4. QED
  BY <1>3

\* With nothing left but the mark, the next byte is fetched.
LEMMA BufferFilled ==
  ASSUME WidthsAssumption, NEW data, NEW after, NEW Q, Continues(Q, data), Bytewise(Q, data, after),
         NEW at \in Nat, NEW d4, NEW a4, NEW fetched \in Nat, a4 = fetched + 1, fetched * ByteBits = at, d4 = ByteHalf,
         NEW next, next = ByteOf(data, after, a4)
  PROVE  /\ (2 * d4) % Byte = 0
         /\ next \div ByteHalf \in Bits /\ Q[at + 1] = 2 * Q[at] + next \div ByteHalf
         /\ Buffered((2 * next + d4 \div ByteHalf) % Byte, a4 + 1, at + 1, Q)
<1>1. ByteBits \in Nat \ {0} /\ ByteHalf \in Nat \ {0} /\ Byte \in Nat /\ Byte = 2 * ByteHalf
      /\ ByteBits - 1 \in Nat /\ ByteHalf = Pow2[ByteBits - 1]
  BY Widths DEF WidthsAssumption, ByteHalf
<1>2. (2 * d4) % Byte = 0 /\ d4 \div ByteHalf = 1
  <2>1. 2 * d4 = 1 * Byte + 0 /\ d4 = 1 * ByteHalf + 0 /\ Byte \in Nat \ {0} /\ 2 * d4 \in Nat /\ d4 \in Nat
    BY <1>1
  <2>2. QED
    BY <1>1, <2>1, QuotientIs
<1>3. next \in 0..Byte - 1 /\ Q[at + ByteBits] = Q[at] * Byte + next
  BY Zenon DEF Bytewise
<1> DEFINE bit  == next \div ByteHalf
           rest == next - bit * ByteHalf
<1>4. bit \in Nat /\ bit * ByteHalf <= next /\ next < bit * ByteHalf + ByteHalf /\ next \in Nat /\ next < 2 * ByteHalf
  <2>1. next \in Nat /\ next < 2 * ByteHalf
    BY <1>1, <1>3
  <2>2. bit \in Nat /\ bit * ByteHalf <= next /\ next < bit * ByteHalf + ByteHalf
    BY <1>1, <2>1, Division, Zenon
  <2>3. QED
    BY <2>1, <2>2
<1> HIDE DEF bit
<1>5. bit \in {0, 1}
  <2>1. \A x, y \in Nat : x * ByteHalf < y * ByteHalf => x < y
    BY <1>1
  <2>2. bit * ByteHalf < 2 * ByteHalf
    BY <1>1, <1>4
  <2>3. bit < 2
    BY <1>4, <2>1, <2>2
  <2>4. QED
    BY <1>4, <2>3
<1>6. rest \in Nat /\ rest < ByteHalf /\ next = bit * ByteHalf + rest
  BY <1>1, <1>4, <1>5
<1> HIDE DEF rest
<1>7. Q[at] \in Nat /\ Q[at + 1] \in Nat
  <2>1. at + 1 \in Nat
    OBVIOUS
  <2>2. QED
    BY <2>1, ContinuesStep, Zenon
<1>8. Q[at] * Byte + next = (2 * Q[at] + bit) * ByteHalf + rest
  <2>1. \A q, h, r \in Nat, z \in {0, 1} : q * (2 * h) + (z * h + r) = (2 * q + z) * h + r
    <3>1. \A q, h, r \in Nat : q * (2 * h) + r = (2 * q) * h + r
      OBVIOUS
    <3>2. \A q, h, r \in Nat : q * (2 * h) + (h + r) = (2 * q + 1) * h + r
      OBVIOUS
    <3>3. QED
      BY <3>1, <3>2
  <2>2. Q[at] * (2 * ByteHalf) + (bit * ByteHalf + rest) = (2 * Q[at] + bit) * ByteHalf + rest
    BY <1>1, <1>5, <1>6, <1>7, <2>1
  <2>3. QED
    BY <1>1, <1>6, <2>2, Zenon
<1>9. Q[at + 1] * ByteHalf <= Q[at + ByteBits] /\ Q[at + ByteBits] < Q[at + 1] * ByteHalf + ByteHalf
  <2>1. at + 1 \in Nat /\ (at + 1) + (ByteBits - 1) = at + ByteBits
    BY <1>1
  <2>2. Q[at + 1] * Pow2[ByteBits - 1] <= Q[(at + 1) + (ByteBits - 1)]
        /\ Q[(at + 1) + (ByteBits - 1)] < Q[at + 1] * Pow2[ByteBits - 1] + Pow2[ByteBits - 1]
    BY <1>1, <2>1, NumbersNest, Zenon
  <2>3. QED
    BY <1>1, <2>1, <2>2, Zenon
<1>10. Q[at + 1] = 2 * Q[at] + bit
  <2> DEFINE x == Q[at + 1]
             y == 2 * Q[at] + bit
  <2>1. x \in Nat /\ y \in Nat
    BY <1>5, <1>7
  <2>2. x * ByteHalf <= y * ByteHalf + rest /\ y * ByteHalf + rest < x * ByteHalf + ByteHalf
    BY <1>3, <1>8, <1>9, Zenon
  <2> HIDE DEF x, y
  <2>3. x = y
    BY <1>1, <1>6, <2>1, <2>2, SameQuotient
  <2>4. QED
    BY <2>3 DEF x, y
<1>11. (2 * next + 1) % Byte = 2 * rest + 1
  <2>1. /\ 2 * next + 1 = bit * Byte + (2 * rest + 1) /\ 2 * rest + 1 < Byte /\ 2 * rest + 1 \in Nat
        /\ Byte \in Nat \ {0} /\ 2 * next + 1 \in Nat
    <3>1. \A h, r \in Nat, z \in {0, 1} : 2 * (z * h + r) + 1 = z * (2 * h) + (2 * r + 1)
      OBVIOUS
    <3>2. 2 * next + 1 = bit * Byte + (2 * rest + 1)
      BY <1>1, <1>5, <1>6, <3>1
    <3>3. QED
      BY <1>1, <1>4, <1>6, <3>2
  <2>2. QED
    BY <1>4, <2>1, QuotientIs
<1>12. Buffered(2 * rest + 1, a4 + 1, at + 1, Q)
  <2> DEFINE left == ByteBits - 1
             then == fetched + 1
  <2>1. left \in 0..ByteBits - 1 /\ then \in Nat /\ a4 + 1 = then + 1 /\ then * ByteBits = (at + 1) + left
    <3>1. (fetched + 1) * ByteBits = fetched * ByteBits + ByteBits
      BY <1>1
    <3>2. QED
      BY <1>1, <3>1
  <2>2. rest < Pow2[left] /\ Pow2[(ByteBits - 1) - left] = 1
    BY <1>1, <1>6, Pow2Is
  <2>3. Q[(at + 1) + left] = Q[at + 1] * Pow2[left] + rest
    <3>1. (at + 1) + left = at + ByteBits
      BY <1>1
    <3>2. Q[(at + 1) + left] = (2 * Q[at] + bit) * ByteHalf + rest
      BY <1>3, <1>8, <3>1, Zenon
    <3>3. QED
      BY <1>1, <1>10, <3>2, Zenon
  <2>4. 2 * rest + 1 = (2 * rest + 1) * Pow2[(ByteBits - 1) - left]
    <3>1. \A x \in Nat : x = x * 1
      OBVIOUS
    <3>2. 2 * rest + 1 \in Nat
      BY <1>6
    <3>3. QED
      BY <2>2, <3>1, <3>2
  <2> HIDE DEF left, then
  <2>5. QED
    BY <1>6, <2>1, <2>2, <2>3, <2>4, Zenon DEF Buffered, Holds
<1>13. QED
  BY <1>2, <1>5, <1>10, <1>11, <1>12 DEF Bits, bit

\* With bits left, the highest of them leaves the register.
LEMMA BufferShifted ==
  ASSUME WidthsAssumption, NEW data, NEW Q, Continues(Q, data), NEW at \in Nat, NEW d4, NEW a4,
         NEW l \in Nat, l + 1 <= ByteBits - 1, NEW rest \in Nat, NEW fetched \in Nat,
         a4 = fetched + 1, Holds(d4, l + 1, rest, fetched, at, Q)
  PROVE  /\ (2 * d4) % Byte # 0
         /\ d4 \div ByteHalf \in Bits /\ Q[at + 1] = 2 * Q[at] + d4 \div ByteHalf
         /\ Buffered((2 * d4) % Byte, a4, at + 1, Q)
<1> DEFINE p   == Pow2[l]
           h   == Pow2[(ByteBits - 1) - (l + 1)]
           x   == Q[at]
           bit == IF rest < p THEN 0 ELSE 1
           now == IF rest < p THEN rest ELSE rest - p
<1>0. /\ fetched * ByteBits = at + (l + 1) /\ rest < Pow2[l + 1]
      /\ Q[at + (l + 1)] = Q[at] * Pow2[l + 1] + rest
      /\ d4 = (2 * rest + 1) * Pow2[(ByteBits - 1) - (l + 1)]
  BY DEF Holds
<1>1. p \in Nat \ {0} /\ h \in Nat \ {0} /\ Pow2[l + 1] = 2 * p /\ Pow2[(ByteBits - 1) - l] = 2 * h
  <2>1. ByteBits \in Nat /\ (ByteBits - 1) - (l + 1) \in Nat /\ (ByteBits - 1) - l = ((ByteBits - 1) - (l + 1)) + 1
    BY DEF WidthsAssumption
  <2>2. QED
    BY <2>1, Pow2Is, Pow2Positive
<1>2. ByteHalf = p * (2 * h) /\ Byte = 2 * (p * (2 * h))
  <2>1. ByteBits - 1 = l + ((ByteBits - 1) - l) /\ (ByteBits - 1) - l \in Nat
    BY DEF WidthsAssumption
  <2>2. Pow2[ByteBits - 1] = Pow2[l] * Pow2[(ByteBits - 1) - l]
    BY <2>1, Pow2Sum
  <2>3. ByteHalf = p * (2 * h)
    BY <1>1, <2>2 DEF ByteHalf
  <2>4. QED
    BY <2>3, Widths
<1>3. x \in Nat /\ Q[at + 1] \in Nat
  <2>1. at + 1 \in Nat
    OBVIOUS
  <2>2. QED
    BY <2>1, ContinuesStep, Zenon
<1>4. d4 = (2 * rest + 1) * h /\ Q[at + (l + 1)] = x * (2 * p) + rest /\ rest < 2 * p
  BY <1>0, <1>1
<1>5. Q[at + 1] * p <= Q[at + (l + 1)] /\ Q[at + (l + 1)] < Q[at + 1] * p + p
  <2>1. at + 1 \in Nat /\ (at + 1) + l = at + (l + 1)
    OBVIOUS
  <2>2. Q[at + 1] * Pow2[l] <= Q[(at + 1) + l] /\ Q[(at + 1) + l] < Q[at + 1] * Pow2[l] + Pow2[l]
    BY <2>1, NumbersNest, Zenon
  <2>3. QED
    BY <2>1, <2>2, Zenon
<1> HIDE DEF p, h, x
<1>6. bit \in {0, 1} /\ now \in Nat /\ now < p /\ rest = bit * p + now
  BY <1>1, <1>4
<1> HIDE DEF bit, now
<1>7. x * (2 * p) + rest = (2 * x + bit) * p + now
  <2>1. \A q, k, r \in Nat, z \in {0, 1} : q * (2 * k) + (z * k + r) = (2 * q + z) * k + r
    <3>1. \A q, k, r \in Nat : q * (2 * k) + r = (2 * q) * k + r
      OBVIOUS
    <3>2. \A q, k, r \in Nat : q * (2 * k) + (k + r) = (2 * q + 1) * k + r
      OBVIOUS
    <3>3. QED
      BY <3>1, <3>2
  <2>2. x * (2 * p) + (bit * p + now) = (2 * x + bit) * p + now
    BY <1>1, <1>3, <1>6, <2>1
  <2>3. QED
    BY <1>6, <2>2, Zenon
<1>8. Q[at + 1] = 2 * x + bit
  <2> DEFINE y == Q[at + 1]
             z == 2 * x + bit
  <2>1. y \in Nat /\ z \in Nat
    BY <1>3, <1>6
  <2>2. y * p <= z * p + now /\ z * p + now < y * p + p
    BY <1>4, <1>5, <1>7, Zenon
  <2> HIDE DEF y, z
  <2>3. y = z
    BY <1>1, <1>6, <2>1, <2>2, SameQuotient
  <2>4. QED
    BY <2>3 DEF y, z
<1>9. d4 = bit * (p * (2 * h)) + (2 * now + 1) * h /\ (2 * now + 1) * h < p * (2 * h)
      /\ (2 * now + 1) * h \in Nat \ {0} /\ p * (2 * h) \in Nat \ {0}
  <2>1. \A k, q, r \in Nat, z \in {0, 1} : (2 * (z * q + r) + 1) * k = z * (q * (2 * k)) + (2 * r + 1) * k
    <3>1. \A k, q, r \in Nat : (2 * (q + r) + 1) * k = q * (2 * k) + (2 * r + 1) * k
      OBVIOUS
    <3>2. \A k, r \in Nat : (2 * (0 + r) + 1) * k = 0 + (2 * r + 1) * k
      OBVIOUS
    <3>3. \A k, q \in Nat : 0 * q = 0 /\ 0 * (q * (2 * k)) = 0 /\ 1 * q = q /\ 1 * (q * (2 * k)) = q * (2 * k)
      OBVIOUS
    <3>4. QED
      BY <3>1, <3>2, <3>3
  <2>2. (2 * (bit * p + now) + 1) * h = bit * (p * (2 * h)) + (2 * now + 1) * h
    BY <1>1, <1>6, <2>1
  <2>3. \A u, w, k \in Nat : u < w /\ k # 0 => u * k < w * k
    OBVIOUS
  <2>4. 2 * now + 1 < 2 * p /\ 2 * now + 1 \in Nat \ {0} /\ 2 * p \in Nat
    BY <1>1, <1>6
  <2>5. (2 * now + 1) * h < (2 * p) * h
    BY <1>1, <2>3, <2>4
  <2>6. (2 * p) * h = p * (2 * h)
    BY <1>1
  <2>7. \A u, w \in Nat \ {0} : u * w \in Nat \ {0}
    OBVIOUS
  <2>8. (2 * now + 1) * h \in Nat \ {0} /\ p * (2 * h) \in Nat \ {0}
    BY <1>1, <2>4, <2>6, <2>7
  <2>9. QED
    BY <1>4, <1>6, <2>2, <2>5, <2>6, <2>8, Zenon
<1> DEFINE half  == p * (2 * h)
           below == (2 * now + 1) * h
<1>10. half \in Nat \ {0} /\ below \in Nat \ {0} /\ below < half /\ d4 = bit * half + below
       /\ ByteHalf = half /\ Byte = 2 * half
  BY <1>2, <1>9, Zenon
<1>11. 2 * below = (2 * now + 1) * (2 * h)
  BY <1>1, <1>6
<1> HIDE DEF half, below
<1>12. d4 \div ByteHalf = bit /\ (2 * d4) % Byte = 2 * below
  <2>1. d4 \in Nat /\ 2 * d4 \in Nat /\ bit \in Nat /\ Byte \in Nat \ {0} /\ 2 * below < Byte /\ 2 * below \in Nat
        /\ 2 * d4 = bit * Byte + 2 * below
    <3>1. CASE bit = 0
      BY <1>10, <3>1
    <3>2. CASE bit = 1
      BY <1>10, <3>2
    <3>3. QED
      BY <1>6, <3>1, <3>2
  <2>2. d4 \div ByteHalf = bit
    BY <1>10, <2>1, QuotientIs
  <2>3. (2 * d4) % Byte = 2 * below
    BY <2>1, QuotientIs
  <2>4. QED
    BY <2>2, <2>3
<1>13. Buffered(2 * below, a4, at + 1, Q)
  <2>1. l \in 0..ByteBits - 1 /\ fetched * ByteBits = (at + 1) + l /\ (at + 1) + l = at + (l + 1)
    BY <1>0 DEF WidthsAssumption
  <2>2. now < Pow2[l] /\ 2 * below = (2 * now + 1) * Pow2[(ByteBits - 1) - l]
    BY <1>1, <1>6, <1>11 DEF p
  <2>3. Q[(at + 1) + l] = Q[at + 1] * Pow2[l] + now
    <3>1. Q[at + (l + 1)] = (2 * x + bit) * p + now
      BY <1>4, <1>7, Zenon
    <3>2. QED
      BY <1>8, <2>1, <3>1, Zenon DEF p
  <2>4. QED
    BY <1>6, <2>1, <2>2, <2>3, Zenon DEF Buffered, Holds
<1>14. (2 * d4) % Byte # 0
  BY <1>10, <1>12
<1>15. QED
  BY <1>6, <1>8, <1>12, <1>13, <1>14, Zenon DEF Bits, x

-----------------------------------------------------------------------------
(* The decoder on the Amiga.                                               *)

Registers == [contexts : [Contexts -> 2..One - 1], d2 : Nat, d3 : Nat, d4 : Nat, a4 : Nat,
              bits : Nat, wrong : BOOLEAN]

\* The registers are in r, of the numbers Q that the bytes in memory form.
AmigaAt(g, r, Q) ==
  /\ g \in Registers
  /\ g.contexts = r.contexts /\ g.d3 = r.size /\ g.bits = r.n
  /\ ~g.wrong
  /\ g.d2 = Q[r.at] - r.low
  /\ Buffered(g.d4, g.a4, r.at, Q)

LEMMA BufferedFits ==
  ASSUME WidthsAssumption, NEW d4, NEW a4, NEW at, NEW Q, Buffered(d4, a4, at, Q)
  PROVE  d4 \in Nat /\ a4 \in Nat
<1>1. PICK left \in 0..ByteBits - 1, rest \in Nat, fetched \in Nat :
         a4 = fetched + 1 /\ d4 = (2 * rest + 1) * Pow2[(ByteBits - 1) - left]
  BY DEF Buffered, Holds
<1>2. Pow2[(ByteBits - 1) - left] \in Nat
  <2>1. (ByteBits - 1) - left \in Nat
    BY DEF WidthsAssumption
  <2>2. QED
    BY <2>1, Pow2Positive
<1>3. QED
  BY <1>1, <1>2

\* The bit that leaves the buffer, or the byte fetched for it, is the next.
LEMMA BufferMoves ==
  ASSUME WidthsAssumption, NEW data, NEW after, NEW Q, Continues(Q, data), Bytewise(Q, data, after),
         NEW at \in Nat, NEW d4, NEW a4, Buffered(d4, a4, at, Q),
         NEW left, left = (2 * d4) % Byte, NEW mark, mark = d4 \div ByteHalf,
         NEW next, next = ByteOf(data, after, a4),
         NEW bit, bit = IF left = 0 THEN next \div ByteHalf ELSE mark
  PROVE  /\ bit \in Bits /\ Q[at + 1] = 2 * Q[at] + bit
         /\ left = 0 => Buffered((2 * next + mark) % Byte, a4 + 1, at + 1, Q)
         /\ left # 0 => Buffered(left, a4, at + 1, Q)
<1>1. PICK n \in 0..ByteBits - 1, rest \in Nat, fetched \in Nat :
         a4 = fetched + 1 /\ Holds(d4, n, rest, fetched, at, Q)
  BY DEF Buffered
<1>2. ByteBits \in Nat /\ n \in Nat
  BY DEF WidthsAssumption
<1>3. CASE n = 0
  <2>1. fetched * ByteBits = at /\ rest = 0 /\ d4 = ByteHalf
    <3>1. Pow2[0] = 1 /\ ByteHalf \in Nat /\ (ByteBits - 1) - n = ByteBits - 1
      BY <1>2, <1>3, Pow2Is, Widths
    <3>2. rest = 0
      BY <1>1, <1>3, <3>1 DEF Holds
    <3>3. d4 = 1 * ByteHalf
      BY <1>1, <3>1, <3>2 DEF ByteHalf, Holds
    <3>4. QED
      BY <1>1, <1>3, <3>1, <3>2, <3>3 DEF Holds
  <2>2. /\ left = 0
        /\ next \div ByteHalf \in Bits /\ Q[at + 1] = 2 * Q[at] + next \div ByteHalf
        /\ Buffered((2 * next + mark) % Byte, a4 + 1, at + 1, Q)
    <3>1. /\ (2 * d4) % Byte = 0
          /\ next \div ByteHalf \in Bits /\ Q[at + 1] = 2 * Q[at] + next \div ByteHalf
          /\ Buffered((2 * next + d4 \div ByteHalf) % Byte, a4 + 1, at + 1, Q)
      BY <1>1, <2>1, BufferFilled, SMT
    <3>2. QED
      BY <3>1, Zenon
  <2>3. QED
    BY <2>2, Zenon
<1>4. CASE n # 0
  <2> DEFINE l == n - 1
  <2>1. l \in Nat /\ l + 1 = n /\ l + 1 <= ByteBits - 1
    BY <1>2, <1>4
  <2>2. Holds(d4, l + 1, rest, fetched, at, Q)
    BY <1>1, <2>1, Zenon
  <2> HIDE DEF l
  <2>3. /\ left # 0
        /\ mark \in Bits /\ Q[at + 1] = 2 * Q[at] + mark
        /\ Buffered(left, a4, at + 1, Q)
    <3>1. /\ (2 * d4) % Byte # 0
          /\ d4 \div ByteHalf \in Bits /\ Q[at + 1] = 2 * Q[at] + d4 \div ByteHalf
          /\ Buffered((2 * d4) % Byte, a4, at + 1, Q)
      BY <1>1, <2>1, <2>2, BufferShifted, SMT
    <3>2. QED
      BY <3>1, Zenon
  <2>4. QED
    BY <2>3, Zenon
<1>5. QED
  BY <1>3, <1>4

LEMMA ReadBitAmigaKeeps ==
  ASSUME WidthsAssumption, NEW r \in Interval, NEW Q, Continues(Q, enc.out), Bytewise(Q, enc.out, trailer),
         AmigaAt(registers, r, Q), ReadBitAmiga, Lands(Doubled(r), enc.out)
  PROVE  r.size < Half /\ AmigaAt(registers', Doubled(r), Q)
<1> DEFINE new  == Doubled(r)
           left == (2 * registers.d4) % Byte
           mark == registers.d4 \div ByteHalf
           next == ByteOf(enc.out, trailer, registers.a4)
           bit  == IF left = 0 THEN next \div ByteHalf ELSE mark
           d4   == IF left = 0 THEN (2 * next + mark) % Byte ELSE left
           a4   == IF left = 0 THEN registers.a4 + 1 ELSE registers.a4
           d2   == (2 * registers.d2 + bit) % One
           d3   == (2 * registers.d3) % One
<1>1. /\ registers \in Registers /\ registers.contexts = r.contexts /\ registers.d3 = r.size
      /\ registers.bits = r.n /\ ~registers.wrong /\ registers.d2 = Q[r.at] - r.low
      /\ Buffered(registers.d4, registers.a4, r.at, Q)
  BY DEF AmigaAt
<1>2. r.size < Half
  BY <1>1 DEF ReadBitAmiga
<1>3. /\ new \in Interval /\ new.low = 2 * r.low /\ new.size = 2 * r.size
      /\ new.at = r.at + 1 /\ new.n = r.n /\ new.contexts = r.contexts
  BY <1>2, DoubledIs
<1>4. registers' = [registers EXCEPT !.d4 = d4, !.a4 = a4, !.d2 = d2, !.d3 = d3]
  BY <1>1 DEF ReadBitAmiga, Data, Registers
<1>5. r.low \in Nat /\ r.at \in Nat /\ r.size \in Nat /\ 2 * r.size < One /\ One \in Nat \ {0} /\ 2 * r.size \in Nat
  <2>1. One \in Nat /\ One = 2 * Half /\ Half \in Nat /\ Half >= 2
    BY Widths
  <2>2. QED
    BY <1>2, <2>1 DEF Interval
<1>6. /\ bit \in Bits /\ Q[r.at + 1] = 2 * Q[r.at] + bit
      /\ Buffered(d4, a4, r.at + 1, Q)
  <2> HIDE DEF left, mark, next
  <2>1. /\ bit \in Bits /\ Q[r.at + 1] = 2 * Q[r.at] + bit
        /\ left = 0 => Buffered((2 * next + mark) % Byte, registers.a4 + 1, r.at + 1, Q)
        /\ left # 0 => Buffered(left, registers.a4, r.at + 1, Q)
    <3>1. left = (2 * registers.d4) % Byte /\ mark = registers.d4 \div ByteHalf
          /\ next = ByteOf(enc.out, trailer, registers.a4)
      BY DEF left, mark, next
    <3>2. QED
      BY <1>1, <1>5, <3>1, BufferMoves, SMT
  <2>2. Buffered(d4, a4, r.at + 1, Q)
    BY <2>1, Zenon
  <2>3. QED
    BY <2>1, <2>2, Zenon
<1>7. new.low <= Q[new.at] /\ Q[new.at] < new.low + new.size
  BY Zenon DEF Lands
<1> HIDE DEF new, left, mark, next, bit, d4, a4
<1>8. Q[r.at] \in Nat
  BY <1>5, ContinuesStep, Zenon
<1>9. /\ 2 * registers.d2 + bit = Q[r.at + 1] - 2 * r.low
      /\ 2 * registers.d2 + bit \in Nat /\ 2 * registers.d2 + bit < One
  <2>1. bit \in Nat
    BY <1>6 DEF Bits
  <2>2. \A x, y \in Int, z \in Nat : 2 * (x - y) + z = (2 * x + z) - 2 * y
    OBVIOUS
  <2>3. 2 * (Q[r.at] - r.low) + bit = (2 * Q[r.at] + bit) - 2 * r.low
    BY <1>5, <1>8, <2>1, <2>2
  <2>4. 2 * registers.d2 + bit = Q[r.at + 1] - 2 * r.low
    BY <1>1, <1>6, <2>3, Zenon
  <2>5. Q[r.at + 1] \in Nat
    <3>1. r.at + 1 \in Nat
      BY <1>5
    <3>2. QED
      BY <3>1, ContinuesStep, Zenon
  <2>6. 2 * r.low <= Q[r.at + 1] /\ Q[r.at + 1] < 2 * r.low + 2 * r.size
    BY <1>3, <1>7, Zenon
  <2>7. Q[r.at + 1] - 2 * r.low \in Nat /\ Q[r.at + 1] - 2 * r.low < One
    BY <1>5, <2>5, <2>6
  <2>8. QED
    BY <2>4, <2>7, Zenon
<1>10. d2 = Q[new.at] - new.low /\ d2 \in Nat /\ d3 = new.size /\ d3 \in Nat
  <2>1. \A x, p \in Nat : x < p => x % p = x
    OBVIOUS
  <2>2. d2 = 2 * registers.d2 + bit
    BY <1>5, <1>9, <2>1, Zenon
  <2>3. d3 = 2 * r.size
    BY <1>1, <1>5, <2>1, Zenon
  <2> HIDE DEF d2, d3
  <2>4. QED
    BY <1>3, <1>5, <1>9, <2>2, <2>3, Zenon
<1> HIDE DEF d2, d3
<1>11. d4 \in Nat /\ a4 \in Nat
  BY <1>6, BufferedFits, Zenon
<1>12. /\ registers' \in Registers /\ registers'.contexts = registers.contexts /\ registers'.bits = registers.bits
       /\ registers'.wrong = registers.wrong /\ registers'.d2 = d2 /\ registers'.d3 = d3
       /\ registers'.d4 = d4 /\ registers'.a4 = a4
  BY <1>1, <1>4, <1>10, <1>11 DEF Registers
<1>13. Buffered(registers'.d4, registers'.a4, new.at, Q)
  BY <1>3, <1>6, <1>12, Zenon
<1>14. AmigaAt(registers', new, Q)
  BY <1>1, <1>3, <1>10, <1>12, <1>13, Zenon DEF AmigaAt
<1>15. QED
  BY <1>2, <1>14 DEF new

LEMMA GetBitKeeps ==
  ASSUME WidthsAssumption, NEW r \in Interval, NEW Q, Continues(Q, enc.out), AmigaAt(registers, r, Q), GetBit,
         NEW c \in Contexts, NEW bit \in Bits, coded[r.n + 1] = <<c, bit>>,
         Lands(Narrowed(r, c, bit), enc.out)
  PROVE  r.size >= Half /\ AmigaAt(registers', Narrowed(r, c, bit), Q)
<1> DEFINE new       == Narrowed(r, c, bit)
           threshold == Threshold(r.size, r.contexts[c])
           read      == IF registers.d2 < threshold THEN 1 ELSE 0
           learned   == [r.contexts EXCEPT ![c] = Learned(@, bit)]
<1>1. /\ registers \in Registers /\ registers.contexts = r.contexts /\ registers.d3 = r.size
      /\ registers.bits = r.n /\ ~registers.wrong /\ registers.d2 = Q[r.at] - r.low
      /\ Buffered(registers.d4, registers.a4, r.at, Q)
  BY DEF AmigaAt
<1>2. r.size >= Half
  BY <1>1 DEF GetBit
<1>3. /\ new \in Interval
      /\ threshold \in 1..r.size - 1
      /\ bit = 0 => new.low = r.low + threshold /\ new.size = r.size - threshold
      /\ bit = 1 => new.low = r.low /\ new.size = threshold
      /\ new.at = r.at /\ new.n = r.n + 1 /\ new.contexts = learned
  <2>1. Narrows(Narrowed(r, c, bit), r, c, bit)
    BY <1>2, NarrowedIs, Zenon
  <2>2. QED
    BY <2>1 DEF Narrows
<1>4. Context(registers) = c /\ coded[registers.bits + 1][2] = bit
  BY <1>1 DEF Context
<1>5. registers' = [registers EXCEPT
           !.d2 = IF read = 0 THEN @ - threshold ELSE @,
           !.d3 = IF read = 0 THEN @ - threshold ELSE threshold,
           !.contexts[c] = Learned(@, read),
           !.bits = @ + 1,
           !.wrong = @ \/ read # bit]
  BY <1>1, <1>4, Zenon DEF GetBit
<1>6. r.low \in Nat /\ r.at \in Nat /\ r.size \in Nat
  <2>1. One \in Nat
    BY Widths
  <2>2. QED
    BY <2>1 DEF Interval
<1>7. Q[r.at] \in Nat
  BY <1>6, ContinuesStep, Zenon
<1>8. new.low <= Q[r.at] /\ Q[r.at] < new.low + new.size
  BY <1>3, Zenon DEF Lands
<1> HIDE DEF new, threshold, learned
<1>9. read = bit
  <2>1. CASE bit = 0
    BY <1>1, <1>3, <1>6, <1>7, <1>8, <2>1
  <2>2. CASE bit = 1
    BY <1>1, <1>3, <1>6, <1>7, <1>8, <2>2
  <2>3. QED
    BY <2>1, <2>2 DEF Bits
<1> DEFINE d2 == IF bit = 0 THEN registers.d2 - threshold ELSE registers.d2
<1> HIDE DEF read
<1>10. /\ registers' \in Registers /\ registers'.bits = registers.bits + 1
       /\ registers'.d2 = d2 /\ registers'.d3 = new.size /\ registers'.contexts = learned
       /\ registers'.d4 = registers.d4 /\ registers'.a4 = registers.a4 /\ ~registers'.wrong
  <2> DEFINE bad == registers.wrong \/ read # bit
  <2>1. registers.d2 \in Nat /\ threshold \in Nat
    BY <1>1, <1>3, <1>6 DEF Registers
  <2>2. d2 \in Nat /\ new.size \in Nat
    <3>1. CASE bit = 0
      BY <1>1, <1>3, <1>6, <1>7, <1>8, <2>1, <3>1
    <3>2. CASE bit = 1
      BY <1>3, <1>6, <2>1, <3>2
    <3>3. QED
      BY <3>1, <3>2 DEF Bits
  <2>3. /\ d2 = IF read = 0 THEN registers.d2 - threshold ELSE registers.d2
        /\ new.size = IF read = 0 THEN r.size - threshold ELSE threshold
    BY <1>3, <1>9 DEF Bits
  <2>4. bad \in BOOLEAN /\ ~bad
    BY <1>1, <1>9, Zenon
  <2> HIDE DEF bad, d2
  <2>5. registers' = [registers EXCEPT !.d2 = d2, !.d3 = new.size, !.contexts = learned, !.bits = @ + 1, !.wrong = bad]
    <3>1. [registers.contexts EXCEPT ![c] = Learned(@, read)] = learned
      BY <1>1, <1>9 DEF learned
    <3>2. QED
      BY <1>1, <1>5, <2>3, <3>1 DEF Registers, bad
  <2>6. learned \in [Contexts -> 2..One - 1] /\ registers.bits + 1 \in Nat
    BY <1>1, <1>3 DEF Interval, Registers
  <2>7. registers' \in Registers
    BY <1>1, <2>2, <2>4, <2>5, <2>6 DEF Registers
  <2>8. /\ registers'.bits = registers.bits + 1
        /\ registers'.d2 = d2 /\ registers'.d3 = new.size /\ registers'.contexts = learned
        /\ registers'.d4 = registers.d4 /\ registers'.a4 = registers.a4 /\ registers'.wrong = bad
    BY <1>1, <2>5 DEF Registers
  <2>9. QED
    BY <2>4, <2>7, <2>8, Zenon
<1>11. d2 = Q[new.at] - new.low
  <2>1. CASE bit = 0
    BY <1>1, <1>3, <1>6, <1>7, <2>1
  <2>2. CASE bit = 1
    BY <1>1, <1>3, <2>2
  <2>3. QED
    BY <2>1, <2>2 DEF Bits
<1>12. AmigaAt(registers', new, Q)
  <2> HIDE DEF d2
  <2> QED BY <1>1, <1>3, <1>10, <1>11 DEF AmigaAt
<1>13. QED
  BY <1>2, <1>12 DEF new

-----------------------------------------------------------------------------
(* Where they all start.                                                   *)

\* The interval of one number, doubled t times.
Opening(t) == [low |-> 0, size |-> Pow2[t], at |-> t, n |-> 0, contexts |-> Fresh]

LEMMA OpeningIs ==
  ASSUME WidthsAssumption, NEW t \in 0..RangeBits - 1
  PROVE  /\ Opening(t) \in Interval /\ Opening(0) = Start
         /\ t # RangeBits - 1 => /\ t + 1 \in 0..RangeBits - 1 /\ Opening(t).size < Half
                                 /\ Doubled(Opening(t)) = Opening(t + 1)
<1>1. RangeBits \in Nat /\ RangeBits - 1 \in Nat /\ t \in Nat /\ t <= RangeBits - 1
  BY DEF WidthsAssumption
<1>2. One \in Nat /\ Half \in Nat /\ One = 2 * Half /\ Half >= 2 /\ Half = Pow2[RangeBits - 1]
  BY Widths DEF Half
<1>3. Pow2[t] \in Nat \ {0} /\ Pow2[t] <= Half /\ Pow2[t + 1] = 2 * Pow2[t]
  BY <1>1, <1>2, Pow2Positive, Pow2Grows, Pow2Is
<1>4. Pow2[t] \in 1..One - 1
  BY <1>2, <1>3
<1>5. Fresh \in [Contexts -> 2..One - 1]
  BY <1>2 DEF Fresh
<1>6. Opening(t) \in Interval
  BY <1>1, <1>4, <1>5 DEF Opening, Interval
<1>7. Opening(0) = Start
  BY Pow2Is DEF Opening, Start
<1>8. ASSUME t # RangeBits - 1
      PROVE  /\ t + 1 \in 0..RangeBits - 1 /\ Opening(t).size < Half
             /\ Doubled(Opening(t)) = Opening(t + 1)
  <2>1. t + 1 \in Nat /\ t + 1 <= RangeBits - 1
    BY <1>1, <1>8
  <2>2. Pow2[t + 1] <= Pow2[RangeBits - 1]
    BY <1>1, <2>1, Pow2Grows
  <2>3. Pow2[t] < Half
    BY <1>2, <1>3, <2>2
  <2>4. Doubled(Opening(t)) = Opening(t + 1)
    <3> DEFINE r == Opening(t)
    <3>1. r.low = 0 /\ r.size = Pow2[t] /\ r.at = t /\ r.n = 0 /\ r.contexts = Fresh
      BY DEF Opening
    <3> HIDE DEF r
    <3>2. 2 * r.low = 0 /\ 2 * r.size = Pow2[t + 1] /\ r.at + 1 = t + 1
      BY <1>3, <3>1
    <3>3. Doubled(r) = Opening(t + 1)
      BY <3>1, <3>2, Zenon DEF Opening, Doubled
    <3>4. QED
      BY <3>3 DEF r
  <2>5. QED
    BY <2>1, <2>3, <2>4 DEF Opening
<1>9. QED
  BY <1>6, <1>7, <1>8

LEMMA TrailStarts ==
  ASSUME WidthsAssumption, CoderInit
  PROVE  \E S, last : Trail(S, last, coded) /\ CoderAt(enc, last)
<1> DEFINE S    == {Opening(t) : t \in 0..RangeBits - 1}
           last == Opening(RangeBits - 1)
<1>1. RangeBits \in Nat /\ RangeBits - 1 \in 0..RangeBits - 1 /\ 0 \in 0..RangeBits - 1
  BY DEF WidthsAssumption
<1>2. S \subseteq Interval /\ Start \in S /\ last \in S
  <2>1. \A t \in 0..RangeBits - 1 : Opening(t) \in Interval
    BY OpeningIs, Zenon
  <2>2. Opening(0) = Start
    BY <1>1, OpeningIs, Zenon
  <2>3. QED
    BY <1>1, <2>1, <2>2, Zenon
<1>3. coded = <<>> /\ Len(coded) = 0
  BY DEF CoderInit
<1>4. ASSUME NEW r \in S
      PROVE  /\ r.n <= Len(coded)
             /\ r.at + r.n <= last.at + last.n
             /\ r # last => /\ Following(r, coded) \in S
                            /\ r.size >= Half => r.n < Len(coded)
  <2>1. PICK t \in 0..RangeBits - 1 : r = Opening(t)
    OBVIOUS
  <2>2. r.n = 0 /\ r.at = t /\ last.n = 0 /\ last.at = RangeBits - 1
    BY <2>1 DEF Opening
  <2>3. ASSUME r # last
        PROVE  Following(r, coded) \in S /\ r.size < Half
    <3>1. t # RangeBits - 1
      BY <2>1, <2>3
    <3>2. t + 1 \in 0..RangeBits - 1 /\ r.size < Half /\ Doubled(r) = Opening(t + 1)
      BY <2>1, <3>1, OpeningIs, Zenon
    <3>3. Following(r, coded) = Doubled(r)
      BY <3>2, Zenon DEF Following
    <3>4. QED
      BY <3>2, <3>3, Zenon
  <2>4. r.size < Half => ~(r.size >= Half)
    <3>1. r \in Interval /\ One \in Nat /\ Half \in Nat
      BY <1>2, Widths
    <3>2. r.size \in Nat
      BY <3>1 DEF Interval
    <3>3. QED
      BY <3>1, <3>2
  <2>5. r.n <= Len(coded) /\ r.at + r.n <= last.at + last.n
    BY <1>1, <1>3, <2>2
  <2>6. QED
    BY <2>3, <2>4, <2>5, Zenon
<1>5. last.n = Len(coded)
  BY <1>3 DEF Opening
<1>6. Trail(S, last, coded)
  BY <1>2, <1>4, <1>5, Zenon DEF Trail
<1>7. enc = [contexts |-> Fresh, out |-> <<>>, dest_bit |-> -1, size |-> Half, min |-> 0,
             final_min |-> 0, final_size |-> One]
  BY DEF CoderInit, InitCoder
<1>8. Stands(enc.out, enc.dest_bit, 0)
  BY <1>7, NothingStands
<1>9. last.low = 0 /\ last.size = Half /\ last.at = RangeBits - 1 /\ last.contexts = Fresh
  BY DEF Opening, Half
<1>10. last \in Interval
  BY <1>2, Zenon
<1>11. One \in Nat /\ Half \in Nat /\ One = 2 * Half /\ Half >= 2 /\ Half = Pow2[RangeBits - 1]
  BY Widths DEF Half
<1>12. enc \in Encoder
  <2>1. enc.out \in Seq(Bits)
    BY <1>8 DEF Stands
  <2>2. Fresh \in [Contexts -> 2..One - 1]
    BY <1>9, <1>10 DEF Interval
  <2>3. QED
    BY <1>7, <1>11, <2>1, <2>2 DEF Encoder
<1> HIDE DEF last, S
<1>13. /\ enc.size = last.size /\ enc.contexts = last.contexts /\ last.at = enc.dest_bit + RangeBits
       /\ enc.min < One /\ last.low + last.size <= Pow2[last.at]
       /\ enc.final_min = 0 /\ enc.final_size = One
       /\ last.low = 0 * One + enc.min
  BY <1>1, <1>7, <1>9, <1>11
<1>14. CoderAt(enc, last)
  BY <1>8, <1>10, <1>12, <1>13, Zenon DEF CoderAt
<1>15. QED
  BY <1>6, <1>14

LEMMA HostStarts ==
  ASSUME WidthsAssumption, InitHost, NEW out \in Seq(Bits)
  PROVE  HostAt(decoder, Start, out)
<1>1. decoder = [contexts |-> Fresh, bit_index |-> 0, size |-> 1, value |-> 0,
                 uncertainty |-> 1, bits |-> 0, wrong |-> FALSE]
  BY DEF InitHost
<1>2. PICK P : Prefixes(P, out)
  BY PrefixesExist
<1>3. PICK Q : Tops(Q, out)
  BY TopsExist
<1>4. P[0] = 0 /\ Q[0] = 0
  <2>1. 0 \in Nat
    OBVIOUS
  <2>2. P[0] = 0
    BY <1>2, <2>1, PrefixStep, Zenon
  <2>3. Q[0] = 0
    BY <1>3, <2>1, ContinuesStep, Zenon DEF Tops
  <2>4. QED
    BY <2>2, <2>3
<1>5. decoder \in HostDecoder
  <2>1. Fresh \in [Contexts -> 2..One - 1]
    BY Widths DEF Fresh
  <2>2. QED
    BY <1>1, <2>1 DEF HostDecoder
<1>6. decoder.value = P[Start.at] - Start.low /\ decoder.uncertainty = Q[Start.at] - P[Start.at] + 1
  BY <1>1, <1>4 DEF Start
<1>7. QED
  BY <1>1, <1>2, <1>3, <1>5, <1>6 DEF HostAt, Start

LEMMA AmigaStarts ==
  ASSUME WidthsAssumption, InitAmiga, NEW data, NEW Q, Continues(Q, data)
  PROVE  AmigaAt(registers, Start, Q)
<1>1. registers = [contexts |-> Fresh, d2 |-> 0, d3 |-> 1, d4 |-> ByteHalf, a4 |-> 1,
                   bits |-> 0, wrong |-> FALSE]
  BY DEF InitAmiga
<1>2. Q[0] = 0
  BY ContinuesStep
<1>3. registers \in Registers
  <2>1. Fresh \in [Contexts -> 2..One - 1]
    BY Widths DEF Fresh
  <2>2. ByteHalf \in Nat
    BY Widths
  <2>3. QED
    BY <1>1, <2>1, <2>2 DEF Registers
<1>4. Buffered(ByteHalf, 1, 0, Q)
  <2>1. ByteBits \in Nat /\ 0 \in 0..ByteBits - 1 /\ ByteBits - 1 = (ByteBits - 1) - 0
    BY DEF WidthsAssumption
  <2>2. Pow2[0] = 1 /\ ByteHalf \in Nat /\ ByteHalf = Pow2[ByteBits - 1]
    BY Pow2Is, Widths DEF ByteHalf
  <2>3. Holds(ByteHalf, 0, 0, 0, 0, Q)
    BY <1>2, <2>1, <2>2 DEF Holds
  <2>4. 0 \in Nat /\ 1 = 0 + 1
    OBVIOUS
  <2>5. QED
    BY <2>1, <2>3, <2>4, Zenon DEF Buffered
<1>5. QED
  BY <1>1, <1>2, <1>3, <1>4 DEF AmigaAt, Start

-----------------------------------------------------------------------------
(* The invariant.                                                          *)

Coding == /\ InitHost /\ InitAmiga
          /\ \E S, last : Trail(S, last, coded) /\ CoderAt(enc, last)

Finishing == /\ InitHost /\ InitAmiga
             /\ \E S, last : Trail(S, last, coded) /\ FinishAt(enc, last)

\* The coder's trail, all of which holds the data.
Landed(S, last) == Trail(S, last, coded) /\ \A r \in S : Lands(r, enc.out)

Checking == /\ InitAmiga
            /\ enc.out \in Seq(Bits) /\ WholeBytes(enc.out)
            /\ \E S, last : Landed(S, last) /\ \E r \in S : HostAt(decoder, r, enc.out)

Unpacking == /\ ~decoder.wrong
             /\ \E S, last, Q : /\ Landed(S, last)
                                /\ Continues(Q, enc.out) /\ Bytewise(Q, enc.out, trailer)
                                /\ \E r \in S : AmigaAt(registers, r, Q)

CoderInv ==
  /\ coded \in Codes
  /\ \/ phase = "code" /\ Coding
     \/ phase = "finish" /\ Finishing
     \/ phase = "check" /\ Checking
     \/ phase = "unpack" /\ Unpacking

\* A decoder that has bits to come has somewhere to go on the trail.
LEMMA TrailLeads ==
  ASSUME WidthsAssumption, coded \in Codes, NEW S, NEW last, Landed(S, last), NEW r \in S, r.n # Len(coded)
  PROVE  /\ r \in Interval
         /\ r.size < Half => Doubled(r) \in S /\ Lands(Doubled(r), enc.out)
         /\ r.size >= Half => \E c \in Contexts, bit \in Bits :
                                 /\ coded[r.n + 1] = <<c, bit>>
                                 /\ Narrowed(r, c, bit) \in S /\ Lands(Narrowed(r, c, bit), enc.out)
<1>1. /\ S \subseteq Interval /\ last.n = Len(coded)
      /\ r # last => /\ Following(r, coded) \in S
                     /\ r.size >= Half => r.n < Len(coded)
      /\ \A x \in S : Lands(x, enc.out)
  BY DEF Landed, Trail
<1>2. r \in Interval /\ r # last
  BY <1>1
<1>3. Half \in Nat /\ One \in Nat
  BY Widths
<1>4. r.size \in Nat /\ r.n \in Nat
  BY <1>2, <1>3 DEF Interval
<1>5. r.size < Half => Doubled(r) \in S
  BY <1>1, <1>2 DEF Following
<1>6. ASSUME r.size >= Half
      PROVE  \E c \in Contexts, bit \in Bits : coded[r.n + 1] = <<c, bit>> /\ Narrowed(r, c, bit) \in S
  <2>1. r.n + 1 \in 1..Len(coded) /\ ~(r.size < Half)
    <3>1. r.n < Len(coded) /\ Len(coded) \in Nat
      BY <1>1, <1>2, <1>6 DEF Codes
    <3>2. QED
      BY <1>3, <1>4, <1>6, <3>1
  <2>2. coded[r.n + 1] \in Contexts \X Bits
    BY <2>1 DEF Codes
  <2>3. PICK c \in Contexts, bit \in Bits : coded[r.n + 1] = <<c, bit>>
    BY <2>2
  <2>4. Narrowed(r, c, bit) \in S
    BY <1>1, <1>2, <2>1, <2>3 DEF Following
  <2>5. QED
    BY <2>3, <2>4
<1>7. QED
  BY <1>1, <1>2, <1>5, <1>6, Zenon

LEMMA CodeStep ==
  ASSUME WidthsAssumption, coded \in Codes, Coding, NEW c \in Contexts, NEW bit \in Bits, Code(c, bit)
  PROVE  coded' \in Codes /\ Coding'
<1>1. PICK S, last : Trail(S, last, coded) /\ CoderAt(enc, last)
  BY DEF Coding
<1>2. coded' = Append(coded, <<c, bit>>)
  BY DEF Code
<1>3. coded' \in Codes /\ coded'[Len(coded) + 1] = <<c, bit>>
  BY <1>2 DEF Codes
<1>4. last.size >= Half /\ CoderAt(enc', Narrowed(last, c, bit))
  BY <1>1, CodeKeeps
<1>5. last.n = Len(coded) /\ Half \in Nat /\ last.size \in Nat
  <2>1. last.n = Len(coded) /\ last \in Interval
    BY <1>1 DEF Trail
  <2>2. Half \in Nat /\ One \in Nat
    BY Widths
  <2>3. QED
    BY <2>1, <2>2 DEF Interval
<1>6. Following(last, coded') = Narrowed(last, c, bit)
  <2>1. ~(last.size < Half)
    BY <1>4, <1>5
  <2>2. QED
    BY <1>3, <1>5, <2>1 DEF Following
<1>7. Trail(S \union {Narrowed(last, c, bit)}, Narrowed(last, c, bit), coded')
  <2>1. LET new == Following(last, coded')
        IN  new \in Interval /\ Trail(S \union {new}, new, coded')
    BY <1>1, <1>2, <1>3, <1>4, TrailGrows
  <2>2. QED
    BY <1>6, <2>1
<1>8. decoder' = decoder /\ registers' = registers
  BY DEF Code
<1>9. QED
  BY <1>3, <1>4, <1>7, <1>8 DEF Coding, InitHost, InitAmiga

LEMMA NormaliseStep ==
  ASSUME WidthsAssumption, coded \in Codes, Coding, Normalise
  PROVE  Coding'
<1>1. PICK S, last : Trail(S, last, coded) /\ CoderAt(enc, last)
  BY DEF Coding
<1>2. last.size < Half /\ CoderAt(enc', Doubled(last))
  BY <1>1, NormaliseKeeps
<1>3. Following(last, coded) = Doubled(last)
  BY <1>2 DEF Following
<1>4. Trail(S \union {Doubled(last)}, Doubled(last), coded)
  <2>1. LET new == Following(last, coded)
        IN  new \in Interval /\ Trail(S \union {new}, new, coded)
    BY <1>1, <1>2, TrailGrows
  <2>2. QED
    BY <1>3, <2>1
<1>5. decoder' = decoder /\ registers' = registers /\ coded' = coded
  BY DEF Normalise
<1>6. QED
  BY <1>2, <1>4, <1>5 DEF Coding, InitHost, InitAmiga

LEMMA FinishStops ==
  ASSUME WidthsAssumption, coded \in Codes, Finishing, Finish
  PROVE  Checking'
<1>1. PICK S, last : Trail(S, last, coded) /\ FinishAt(enc, last)
  BY DEF Finishing
<1>2. enc'.out \in Seq(Bits) /\ WholeBytes(enc'.out) /\ Lands(last, enc'.out)
  BY <1>1, FinishLands
<1>3. \A r \in S : Lands(r, enc'.out)
  BY <1>1, <1>2, TrailLands
<1>4. Start \in S
  BY <1>1 DEF Trail
<1>5. HostAt(decoder, Start, enc'.out)
  BY <1>2, HostStarts DEF Finishing
<1>6. decoder' = decoder /\ registers' = registers /\ coded' = coded
  BY DEF Finish
<1>7. InitAmiga'
  BY <1>6 DEF Finishing, InitAmiga
<1>8. Landed(S, last)'
  BY <1>1, <1>3, <1>6 DEF Landed
<1>9. \E r \in S : HostAt(decoder', r, enc'.out)
  BY <1>4, <1>5, <1>6
<1>10. QED
  BY <1>2, <1>7, <1>8, <1>9 DEF Checking

LEMMA HostReads ==
  ASSUME WidthsAssumption, coded \in Codes, Checking, ReadBit \/ HostDecode
  PROVE  Checking'
<1>1. PICK S, last : Landed(S, last) /\ \E r \in S : HostAt(decoder, r, enc.out)
  BY DEF Checking
<1>2. PICK r \in S : HostAt(decoder, r, enc.out)
  BY <1>1
<1>3. ~Done(decoder) /\ enc' = enc /\ registers' = registers /\ coded' = coded
  BY DEF ReadBit, HostDecode
<1>4. r.n # Len(coded) /\ decoder.size = r.size
  BY <1>2, <1>3 DEF HostAt, Done
<1>5. /\ r \in Interval
      /\ r.size < Half => Doubled(r) \in S
      /\ r.size >= Half => \E c \in Contexts, bit \in Bits :
                              /\ coded[r.n + 1] = <<c, bit>>
                              /\ Narrowed(r, c, bit) \in S /\ Lands(Narrowed(r, c, bit), enc.out)
  BY <1>1, <1>4, TrailLeads
<1>6. \E x \in S : HostAt(decoder', x, enc.out)
  <2>1. CASE ReadBit
    <3>1. r.size < Half /\ HostAt(decoder', Doubled(r), enc.out)
      BY <1>2, <1>5, <2>1, ReadBitKeeps DEF Checking
    <3>2. QED
      BY <1>5, <3>1
  <2>2. CASE HostDecode
    <3>1. r.size >= Half
      BY <1>4, <2>2 DEF HostDecode
    <3>2. PICK c \in Contexts, bit \in Bits : /\ coded[r.n + 1] = <<c, bit>>
                                              /\ Narrowed(r, c, bit) \in S /\ Lands(Narrowed(r, c, bit), enc.out)
      BY <1>5, <3>1
    <3>3. HostAt(decoder', Narrowed(r, c, bit), enc.out)
      BY <1>2, <1>5, <2>2, <3>2, HostDecodeKeeps DEF Checking
    <3>4. QED
      BY <3>2, <3>3
  <2>3. QED
    BY <2>1, <2>2
<1>7. Landed(S, last)'
  BY <1>1, <1>3 DEF Landed
<1>8. QED
  BY <1>3, <1>6, <1>7 DEF Checking, InitAmiga

LEMMA ShipStep ==
  ASSUME WidthsAssumption, coded \in Codes, Checking, Ship
  PROVE  Unpacking'
<1>1. PICK S, last : Landed(S, last)
  BY DEF Checking
<1>2. /\ ~decoder.wrong /\ trailer' \in [1..2 -> Trailers]
      /\ coded' = coded /\ enc' = enc /\ decoder' = decoder /\ registers' = registers
  BY DEF Ship
<1>3. trailer' \in [1..2 -> 0..Byte - 1]
  BY <1>2 DEF WidthsAssumption
<1>4. PICK Q : Continues(Q, enc.out) /\ Bytewise(Q, enc.out, trailer')
  BY <1>3, BytesAreRead DEF Checking
<1>5. AmigaAt(registers, Start, Q)
  BY <1>4, AmigaStarts DEF Checking
<1>6. Start \in S /\ Landed(S, last)'
  BY <1>1, <1>2 DEF Landed, Trail
<1>7. QED
  BY <1>2, <1>4, <1>5, <1>6 DEF Unpacking

LEMMA AmigaReads ==
  ASSUME WidthsAssumption, coded \in Codes, Unpacking, ReadBitAmiga \/ GetBit
  PROVE  Unpacking'
<1>1. PICK S, last, Q : /\ Landed(S, last)
                        /\ Continues(Q, enc.out) /\ Bytewise(Q, enc.out, trailer)
                        /\ \E r \in S : AmigaAt(registers, r, Q)
  BY DEF Unpacking
<1>2. PICK r \in S : AmigaAt(registers, r, Q)
  BY <1>1
<1>3. ~Done(registers) /\ enc' = enc /\ decoder' = decoder /\ coded' = coded /\ trailer' = trailer
  BY DEF ReadBitAmiga, GetBit
<1>4. r.n # Len(coded) /\ registers.d3 = r.size
  BY <1>2, <1>3 DEF AmigaAt, Done
<1>5. /\ r \in Interval
      /\ r.size < Half => Doubled(r) \in S /\ Lands(Doubled(r), enc.out)
      /\ r.size >= Half => \E c \in Contexts, bit \in Bits :
                              /\ coded[r.n + 1] = <<c, bit>>
                              /\ Narrowed(r, c, bit) \in S /\ Lands(Narrowed(r, c, bit), enc.out)
  BY <1>1, <1>4, TrailLeads
<1>6. \E x \in S : AmigaAt(registers', x, Q)
  <2>1. CASE ReadBitAmiga
    <3>1. r.size < Half
      BY <1>4, <2>1 DEF ReadBitAmiga
    <3>2. AmigaAt(registers', Doubled(r), Q)
      BY <1>1, <1>2, <1>5, <2>1, <3>1, ReadBitAmigaKeeps
    <3>3. QED
      BY <1>5, <3>1, <3>2
  <2>2. CASE GetBit
    <3>1. r.size >= Half
      BY <1>4, <2>2 DEF GetBit
    <3>2. PICK c \in Contexts, bit \in Bits : /\ coded[r.n + 1] = <<c, bit>>
                                              /\ Narrowed(r, c, bit) \in S /\ Lands(Narrowed(r, c, bit), enc.out)
      BY <1>5, <3>1
    <3>3. AmigaAt(registers', Narrowed(r, c, bit), Q)
      BY <1>1, <1>2, <1>5, <2>2, <3>2, GetBitKeeps
    <3>4. QED
      BY <3>2, <3>3
  <2>3. QED
    BY <2>1, <2>2
<1>7. Landed(S, last)'
  BY <1>1, <1>3 DEF Landed
<1>8. QED
  BY <1>1, <1>3, <1>6, <1>7 DEF Unpacking

LEMMA CoderStarts ==
  ASSUME WidthsAssumption, CoderInit
  PROVE  CoderInv
<1>1. coded \in Codes
  BY DEF CoderInit, Codes
<1>2. Coding
  BY TrailStarts DEF CoderInit, Coding
<1>3. QED
  BY <1>1, <1>2 DEF CoderInv, CoderInit

LEMMA CoderInvStep ==
  ASSUME WidthsAssumption, CoderInv, [CoderNext]_coder_vars
  PROVE  CoderInv'
<1>1. coded \in Codes
  BY DEF CoderInv
<1>2. phase = "code" => Coding
  BY DEF CoderInv
<1>3. phase = "finish" => Finishing
  BY DEF CoderInv
<1>4. phase = "check" => Checking
  BY DEF CoderInv
<1>5. phase = "unpack" => Unpacking
  BY DEF CoderInv
<1>6. ASSUME NEW c \in Contexts, NEW bit \in {0, 1}, Code(c, bit)
      PROVE  CoderInv'
  <2>1. phase = "code" /\ phase' = phase /\ bit \in Bits
    BY <1>6 DEF Code, Bits
  <2>2. coded' \in Codes /\ Coding'
    BY <1>1, <1>2, <1>6, <2>1, CodeStep
  <2>3. QED
    BY <2>1, <2>2 DEF CoderInv
<1>7. CASE Normalise
  <2>1. phase = "code" /\ phase' = phase /\ coded' = coded
    BY <1>7 DEF Normalise
  <2>2. Coding'
    BY <1>1, <1>2, <1>7, <2>1, NormaliseStep
  <2>3. QED
    BY <1>1, <2>1, <2>2 DEF CoderInv
<1>8. CASE StartFinish
  <2>1. /\ phase = "code" /\ phase' = "finish" /\ coded' = coded /\ enc' = enc
        /\ decoder' = decoder /\ registers' = registers
    BY <1>8 DEF StartFinish
  <2>2. PICK S, last : Trail(S, last, coded) /\ CoderAt(enc, last)
    BY <1>2, <2>1 DEF Coding
  <2>3. FinishAt(enc, last)
    BY <2>2, FinishStarts
  <2>4. Finishing'
    BY <1>2, <2>1, <2>2, <2>3 DEF Coding, Finishing, InitHost, InitAmiga
  <2>5. QED
    BY <1>1, <2>1, <2>4 DEF CoderInv
<1>9. CASE FinishStep
  <2>1. phase = "finish" /\ phase' = phase /\ coded' = coded /\ decoder' = decoder /\ registers' = registers
    BY <1>9 DEF FinishStep
  <2>2. PICK S, last : Trail(S, last, coded) /\ FinishAt(enc, last)
    BY <1>3, <2>1 DEF Finishing
  <2>3. FinishAt(enc', last)
    BY <1>9, <2>2, FinishStepKeeps
  <2>4. Finishing'
    BY <1>3, <2>1, <2>2, <2>3 DEF Finishing, InitHost, InitAmiga
  <2>5. QED
    BY <1>1, <2>1, <2>4 DEF CoderInv
<1>10. CASE Finish
  <2>1. phase = "finish" /\ phase' = "check" /\ coded' = coded
    BY <1>10 DEF Finish
  <2>2. Checking'
    BY <1>1, <1>3, <1>10, <2>1, FinishStops
  <2>3. QED
    BY <1>1, <2>1, <2>2 DEF CoderInv
<1>11. CASE ReadBit \/ HostDecode
  <2>1. phase = "check" /\ phase' = phase /\ coded' = coded
    BY <1>11 DEF ReadBit, HostDecode
  <2>2. Checking'
    BY <1>1, <1>4, <1>11, <2>1, HostReads
  <2>3. QED
    BY <1>1, <2>1, <2>2 DEF CoderInv
<1>12. CASE Ship
  <2>1. phase = "check" /\ phase' = "unpack" /\ coded' = coded
    BY <1>12 DEF Ship
  <2>2. Unpacking'
    BY <1>1, <1>4, <1>12, <2>1, ShipStep
  <2>3. QED
    BY <1>1, <2>1, <2>2 DEF CoderInv
<1>13. CASE ReadBitAmiga \/ GetBit
  <2>1. phase = "unpack" /\ phase' = phase /\ coded' = coded
    BY <1>13 DEF ReadBitAmiga, GetBit
  <2>2. Unpacking'
    BY <1>1, <1>5, <1>13, <2>1, AmigaReads
  <2>3. QED
    BY <1>1, <2>1, <2>2 DEF CoderInv
<1>14. CASE UNCHANGED coder_vars
  BY <1>14 DEF coder_vars, CoderInv, Coding, Finishing, Checking, Unpacking, Landed, InitHost, InitAmiga
<1>15. QED
  BY <1>6, <1>7, <1>8, <1>9, <1>10, <1>11, <1>12, <1>13, <1>14 DEF CoderNext

LEMMA CoderInvBits ==
  ASSUME CoderInv
  PROVE  BitsComeBack
<1>1. CASE phase = "code" /\ Coding
  BY <1>1 DEF Coding, InitHost, InitAmiga, BitsComeBack
<1>2. CASE phase = "finish" /\ Finishing
  BY <1>2 DEF Finishing, InitHost, InitAmiga, BitsComeBack
<1>3. CASE phase = "check" /\ Checking
  <2>1. \E S, last : \E r \in S : HostAt(decoder, r, enc.out)
    BY <1>3 DEF Checking
  <2>2. QED
    BY <1>3, <2>1 DEF Checking, HostAt, InitAmiga, BitsComeBack
<1>4. CASE phase = "unpack" /\ Unpacking
  <2>1. \E S, Q : \E r \in S : AmigaAt(registers, r, Q)
    BY <1>4 DEF Unpacking
  <2>2. QED
    BY <1>4, <2>1 DEF Unpacking, AmigaAt, BitsComeBack
<1>5. QED
  BY <1>1, <1>2, <1>3, <1>4 DEF CoderInv

\* Whatever the registers' width, the bytes', the contexts and the bits: both
\* decoders give back what Code() was given, up to the last bit, and neither the
\* zeros the host makes up past the end nor the byte the Amiga finds there
\* matters (RangeDecoder.h:80, ShrinklerDecompress.s:171).
THEOREM BitsAreRight ==
  ASSUME WidthsAssumption
  PROVE  CoderSpec => []BitsComeBack
<1>1. CoderInit => CoderInv
  BY CoderStarts
<1>2. CoderInv /\ [CoderNext]_coder_vars => CoderInv'
  BY CoderInvStep
<1>3. CoderInv => BitsComeBack
  BY CoderInvBits
<1>4. QED
  BY <1>1, <1>2, <1>3, PTL DEF CoderSpec
=============================================================================
