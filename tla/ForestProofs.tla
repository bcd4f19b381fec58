---------------------------- MODULE ForestProofs ----------------------------
(***************************************************************************)
(* What pushes leave behind is the forest of module Forest, and its bagged *)
(* root is what get_root returns: for every Data and MaxSize.              *)
(***************************************************************************)
EXTENDS MMRProofs

-----------------------------------------------------------------------------
(* The positions of the nodes of mountains.                                *)

\* Between two multiples of c there is at least c.
LEMMA MultiplesApart ==
  ASSUME NEW c \in Nat \ {0}, NEW y \in Nat, NEW u \in Nat, c * y < c * u
  PROVE  c * y + c <= c * u
<1>1. c * y \in Nat /\ c * u \in Nat
  OBVIOUS
<1>2. CASE u <= y
  <2>1. c * u <= c * y
    BY <1>2
  <2> QED BY <1>1, <2>1
<1>3. CASE y + 1 <= u
  <2>1. c * (y + 1) <= c * u
    BY <1>3
  <2>2. c * (y + 1) = c * y + c
    OBVIOUS
  <2> QED BY <2>1, <2>2
<1> QED BY <1>2, <1>3

\* A multiple of a power of two, with its highest bit taken off.
LEMMA HighBitOff ==
  ASSUME NEW k \in Nat, NEW j \in Nat, NEW m \in Nat, m < Pow2[j],
         (Pow2[j] + m) % Pow2[k] = 0
  PROVE  k <= j /\ m % Pow2[k] = 0 /\ m + Pow2[k] <= Pow2[j]
<1> DEFINE c == Pow2[k]
           a == Pow2[j] + m
<1>1. c \in Nat \ {0} /\ Pow2[j] \in Nat \ {0} /\ Pow2[j + 1] = 2 * Pow2[j]
  BY Pow2Doubles
<1>2. k <= j
  <2> SUFFICES ASSUME j + 1 <= k PROVE FALSE
    OBVIOUS
  <2>1. Pow2[j + 1] <= c
    BY Pow2Grows
  <2>2. 0 < a /\ a < c /\ a \in Nat
    BY <1>1, <2>1
  <2>3. a % c = a
    <3> HIDE DEF a, c
    <3> QED BY <1>1, <2>2
  <2> QED BY <2>2, <2>3
<1> DEFINE u == Pow2[j - k]
           y == m \div c
<1>3. u \in Nat /\ a \div c = u + y /\ Pow2[j] \div c = u
  <2>1. /\ (Pow2[j] + m) \div Pow2[k] = Pow2[j - k] + (m \div Pow2[k])
        /\ (Pow2[j] + 0) \div Pow2[k] = Pow2[j - k] + (0 \div Pow2[k])
    BY <1>2, HighBitShifts
  <2>2. 0 \div c = 0 /\ Pow2[j] + 0 = Pow2[j]
    BY <1>1
  <2>3. u \in Nat
    BY <1>2, Pow2Doubles
  <2> QED BY <2>1, <2>2, <2>3
<1>4. Pow2[j] = c * u
  <2>1. Pow2[j] % c = 0
    <3>1. EndsIn(Pow2[j], j)
      BY PowerEnds
    <3>2. Pow2[j] % Pow2[j] = 0
      BY <3>1 DEF EndsIn
    <3> QED BY <1>1, <1>2, <3>2, LowerDivides
  <2>2. Pow2[j] = c * (Pow2[j] \div c) + (Pow2[j] % c)
    BY <1>1, DivMod
  <2>3. c * u \in Nat
    BY <1>1, <1>3
  <2> QED BY <1>3, <2>1, <2>2, <2>3
<1>5. m = c * y + (m % c) /\ y \in Nat /\ m % c \in Nat
  BY <1>1, DivMod
<1>6. a = c * (u + y)
  <2>1. a = c * (a \div c) + (a % c)
    <3>1. a \in Nat
      BY <1>1
    <3> HIDE DEF a, c
    <3> QED BY <1>1, <3>1, DivMod
  <2>2. c * (u + y) \in Nat
    BY <1>1, <1>3, <1>5
  <2> QED BY <1>3, <2>1, <2>2
<1> HIDE DEF c, u, y
<1>7. m % c = 0 /\ m = c * y
  <2>1. c * (u + y) = c * u + c * y
    BY <1>1, <1>3, <1>5
  <2>2. c * u \in Nat /\ c * y \in Nat
    BY <1>1, <1>3, <1>5
  <2> QED BY <1>4, <1>5, <1>6, <2>1, <2>2 DEF a
<1>8. m + c <= Pow2[j]
  BY <1>1, <1>3, <1>4, <1>5, <1>7, MultiplesApart
<1> QED BY <1>2, <1>7, <1>8 DEF c

\* The size is the sum of those of the high bits and the low ones.
LEMMA SizeAdds ==
  ASSUME NEW k \in Nat, NEW a \in Nat, a % Pow2[k] = 0, NEW b \in Nat, b < Pow2[k]
  PROVE  SizeOf(a + b) = SizeOf(a) + SizeOf(b)
<1> DEFINE S == {n \in Nat : n % Pow2[k] = 0 => SizeOf(n + b) = SizeOf(n) + SizeOf(b)}
<1>1. Pow2[k] \in Nat \ {0} /\ SizeOf(b) \in Nat
  BY Pow2Doubles, FinishedHeight
<1>2. 0 \in S
  BY <1>1, NoLeaves
<1>3. ASSUME NEW j \in Nat, NEW m \in Nat, m < Pow2[j], m \in S
      PROVE  Pow2[j] + m \in S
  <2> DEFINE n == Pow2[j] + m
  <2>1. n \in Nat /\ Pow2[j] \in Nat
    BY Pow2Doubles
  <2>2. CASE n % Pow2[k] = 0
    <3>1. m % Pow2[k] = 0 /\ m + Pow2[k] <= Pow2[j]
      BY <1>3, <2>2, HighBitOff
    <3>2. m + b \in Nat /\ m + b < Pow2[j]
      BY <1>1, <2>1, <3>1
    <3>3. SizeOf(m + b) = SizeOf(m) + SizeOf(b)
      BY <1>3, <3>1
    <3>4. /\ SizeOf(n) = (Pow2[j + 1] - 1) + SizeOf(m)
          /\ SizeOf(Pow2[j] + (m + b)) = (Pow2[j + 1] - 1) + SizeOf(m + b)
      BY <1>3, <3>2, SizeSplit
    <3>5. n + b = Pow2[j] + (m + b)
      BY <2>1
    <3>6. Pow2[j + 1] \in Nat /\ SizeOf(m) \in Nat
      BY Pow2Doubles, FinishedHeight
    <3>7. SizeOf(n + b) = SizeOf(n) + SizeOf(b)
      <4> HIDE DEF n
      <4> QED BY <1>1, <3>3, <3>4, <3>5, <3>6
    <3> QED BY <2>1, <3>7
  <2> QED BY <2>1, <2>2
<1>4. Nat \subseteq S
  <2> HIDE DEF S
  <2> QED BY <1>2, <1>3, BitInduction
<1>5. a \in S
  BY <1>4
<1> QED BY <1>5

\* A power of two of leaves are one tree.
LEMMA SizeOfPower ==
  ASSUME NEW k \in Nat
  PROVE  /\ SizeOf(Pow2[k]) = Pow2[k + 1] - 1
         /\ SizeOf(Pow2[k] - 1) = Pow2[k + 1] - 2 - k
<1>1. Pow2[k] \in Nat \ {0} /\ Pow2[k + 1] = 2 * Pow2[k]
  BY Pow2Doubles
<1>2. SizeOf(Pow2[k] + 0) = (Pow2[k + 1] - 1) + SizeOf(0)
  BY <1>1, SizeSplit
<1>3. EndsIn(Pow2[k], k) /\ count_ones(Pow2[k]) = 1
  BY PowerEnds
<1> DEFINE n == Pow2[k] - 1
<1>4. n \in Nat /\ n + 1 = Pow2[k]
  BY <1>1
<1>5. trailing_zeros(Pow2[k]) = k
  BY <1>1, <1>3, EndsInOne
<1>6. count_ones(n + 1) + trailing_zeros(n + 1) = count_ones(n) + 1 /\ count_ones(n) \in Nat
  BY <1>4, CarryOnes, CountBounds
<1>7. count_ones(n) = k
  BY <1>3, <1>4, <1>5, <1>6
<1> QED BY <1>1, <1>2, <1>7, NoLeaves DEF SizeOf

\* The root of the tree of height k over the 2^k leaves from the ath.
RootAt(a, k) == SizeOf(a) + Pow2[k + 1] - 2

\* That is a node of this height, and it follows the last of these leaves by k.
LEMMA RootIsThere ==
  ASSUME NEW k \in Nat, NEW a \in Nat, a % Pow2[k] = 0
  PROVE  /\ RootAt(a, k) \in Nat /\ H(RootAt(a, k)) = k
         /\ RootAt(a, k) = SizeOf(a + Pow2[k] - 1) + k
         /\ RootAt(a, k) < SizeOf(a + Pow2[k])
<1> DEFINE S == {n \in Nat : n % Pow2[k] = 0 => /\ H(RootAt(n, k)) = k
                                                /\ RootAt(n, k) < SizeOf(n + Pow2[k])}
<1>1. /\ Pow2[k] \in Nat \ {0} /\ Pow2[k + 1] = 2 * Pow2[k]
      /\ \A n \in Nat : SizeOf(n) \in Nat /\ RootAt(n, k) \in Nat
  BY Pow2Doubles, FinishedHeight DEF RootAt
<1>2. 0 \in S
  <2>1. RootAt(0, k) = Pow2[k + 1] - 2
    BY <1>1, NoLeaves DEF RootAt
  <2>2. SizeOf(0 + Pow2[k]) = Pow2[k + 1] - 1
    BY <1>1, SizeOfPower
  <2>3. H(RootAt(0, k)) = k
    BY <2>1, PerfectHeight DEF H
  <2> QED BY <1>1, <2>1, <2>2, <2>3
<1>3. ASSUME NEW j \in Nat, NEW m \in Nat, m < Pow2[j], m \in S
      PROVE  Pow2[j] + m \in S
  <2> DEFINE n == Pow2[j] + m
  <2>1. n \in Nat /\ Pow2[j] \in Nat /\ Pow2[j + 1] = 2 * Pow2[j]
    BY Pow2Doubles
  <2>2. CASE n % Pow2[k] = 0
    <3>1. m % Pow2[k] = 0 /\ m + Pow2[k] <= Pow2[j]
      BY <1>3, <2>2, HighBitOff
    <3>2. SizeOf(n) = (Pow2[j + 1] - 1) + SizeOf(m)
      BY <1>3, SizeSplit
    <3>3. SizeOf(m) <= 2 * m
      BY CountBounds DEF SizeOf
    <3>4. RootAt(n, k) = (Pow2[j + 1] - 1) + RootAt(m, k)
      <4> HIDE DEF n
      <4> QED BY <1>1, <2>1, <3>2 DEF RootAt
    <3>5. RootAt(m, k) < Pow2[j + 1] - 1 /\ RootAt(m, k) \in Nat
      BY <1>1, <2>1, <3>1, <3>3 DEF RootAt
    <3>6. H(RootAt(m, k)) = k /\ RootAt(m, k) < SizeOf(m + Pow2[k])
      BY <1>3, <3>1
    <3>7. H(RootAt(n, k)) = k
      BY <3>4, <3>5, <3>6, ShiftedHeight DEF H
    <3>8. CASE m + Pow2[k] < Pow2[j]
      <4>1. m + Pow2[k] \in Nat /\ n + Pow2[k] = Pow2[j] + (m + Pow2[k])
        <5>1. \A x, y, z \in Nat : (x + y) + z = x + (y + z) /\ y + z \in Nat
          OBVIOUS
        <5>2. Pow2[j] \in Nat /\ m \in Nat /\ Pow2[k] \in Nat
          BY <1>1, <2>1
        <5> QED BY <5>1, <5>2
      <4>2. SizeOf(n + Pow2[k]) = (Pow2[j + 1] - 1) + SizeOf(m + Pow2[k])
        <5> DEFINE rest == m + Pow2[k]
        <5>1. SizeOf(Pow2[j] + rest) = (Pow2[j + 1] - 1) + SizeOf(rest)
          <6>1. rest \in Nat /\ rest < Pow2[j]
            BY <3>8, <4>1
          <6> HIDE DEF rest
          <6> QED BY <6>1, SizeSplit
        <5> QED BY <4>1, <5>1
      <4>3. SizeOf(m + Pow2[k]) \in Nat
        BY <4>1, FinishedHeight
      <4>4. RootAt(n, k) < SizeOf(n + Pow2[k])
        <5> HIDE DEF n
        <5> QED BY <2>1, <3>4, <3>5, <3>6, <4>2, <4>3
      <4> QED BY <2>1, <3>7, <4>4
    <3>9. CASE m + Pow2[k] = Pow2[j]
      <4>1. n + Pow2[k] = Pow2[j + 1]
        BY <1>1, <2>1, <3>9
      <4>2. SizeOf(Pow2[j + 1]) = Pow2[(j + 1) + 1] - 1 /\ Pow2[(j + 1) + 1] = 2 * Pow2[j + 1]
        <5>1. j + 1 \in Nat
          OBVIOUS
        <5> QED BY <5>1, SizeOfPower, Pow2Doubles
      <4>3. RootAt(n, k) < SizeOf(n + Pow2[k])
        <5> HIDE DEF n
        <5> QED BY <2>1, <3>4, <3>5, <4>1, <4>2
      <4> QED BY <2>1, <3>7, <4>3
    <3>10. m + Pow2[k] < Pow2[j] \/ m + Pow2[k] = Pow2[j]
      <4>1. m + Pow2[k] \in Nat
        BY <1>1
      <4> QED BY <2>1, <3>1, <4>1
    <3> QED BY <3>8, <3>9, <3>10
  <2> QED BY <2>1, <2>2
<1>4. a \in S
  <2>1. Nat \subseteq S
    <3> HIDE DEF S
    <3> QED BY <1>2, <1>3, BitInduction
  <2> QED BY <2>1
<1>5. /\ SizeOf(a + Pow2[k] - 1) = SizeOf(a) + SizeOf(Pow2[k] - 1)
      /\ SizeOf(Pow2[k] - 1) = Pow2[k + 1] - 2 - k
  <2>1. Pow2[k] - 1 \in Nat /\ Pow2[k] - 1 < Pow2[k] /\ a + Pow2[k] - 1 = a + (Pow2[k] - 1)
    BY <1>1
  <2> QED BY <2>1, SizeAdds, SizeOfPower
<1> QED BY <1>1, <1>4, <1>5 DEF RootAt

\* Division gives the one quotient with a remainder below the divisor.
LEMMA QuotientIs ==
  ASSUME NEW c \in Nat \ {0}, NEW q \in Nat, NEW r \in Nat, r < c
  PROVE  (c * q + r) \div c = q /\ (c * q + r) % c = r
<1> DEFINE a == c * q + r
           x == a \div c
           y == a % c
<1>1. a \in Nat
  <2>1. c * q \in Nat
    OBVIOUS
  <2> QED BY <2>1
<1>2. x \in Nat /\ y \in Nat /\ a = c * x + y
  <2> HIDE DEF a
  <2> QED BY <1>1, DivMod
<1>3. y < c
  <2> HIDE DEF a
  <2> QED BY <1>1
<1>4. c * q \in Nat /\ c * x \in Nat
  BY <1>2
<1>5. a = c * q + r
  OBVIOUS
<1> HIDE DEF a, x, y
<1>6. x = q
  <2>1. CASE x < q
    <3>1. c * x < c * q
      BY <1>2, <2>1
    <3>2. c * x + c <= c * q
      BY <1>2, <3>1, MultiplesApart
    <3> QED BY <1>2, <1>3, <1>4, <1>5, <3>2
  <2>2. CASE q < x
    <3>1. c * q < c * x
      BY <1>2, <2>2
    <3>2. c * q + c <= c * x
      BY <1>2, <3>1, MultiplesApart
    <3> QED BY <1>2, <1>4, <1>5, <3>2
  <2> QED BY <1>2, <2>1, <2>2
<1>7. y = r
  BY <1>2, <1>4, <1>5, <1>6
<1> QED BY <1>6, <1>7 DEF a, x, y

\* More leaves make more nodes.
LEMMA SizeGrows ==
  ASSUME NEW m \in Nat
  PROVE  \A n \in Nat : SizeOf(m + n) \in Nat /\ SizeOf(m) + n <= SizeOf(m + n)
<1> DEFINE S == {n \in Nat : SizeOf(m) + n <= SizeOf(m + n)}
<1>1. \A n \in Nat : SizeOf(n) \in Nat
  BY FinishedHeight
<1>2. 0 \in S
  BY <1>1
<1>3. ASSUME NEW n \in Nat, n \in S PROVE n + 1 \in S
  <2> DEFINE l == m + n
  <2>1. l \in Nat /\ l + 1 = m + (n + 1)
    OBVIOUS
  <2>2. /\ count_ones(l + 1) + trailing_zeros(l + 1) = count_ones(l) + 1
        /\ trailing_zeros(l + 1) \in Nat /\ count_ones(l) \in Nat /\ count_ones(l + 1) \in Nat
    BY <2>1, CarryOnes, CountBounds
  <2>3. SizeOf(l) + 1 <= SizeOf(l + 1)
    BY <2>1, <2>2 DEF SizeOf
  <2>4. SizeOf(m) + n <= SizeOf(l) /\ SizeOf(m) \in Nat /\ SizeOf(l) \in Nat
    BY <1>1, <1>3, <2>1
  <2>5. SizeOf(m) + (n + 1) <= SizeOf(m + (n + 1))
    <3>1. SizeOf(l + 1) \in Nat
      BY <1>1, <2>1
    <3> QED BY <2>1, <2>3, <2>4, <3>1
  <2> QED BY <2>5
<1>4. Nat \subseteq S
  <2> HIDE DEF S
  <2> QED BY <1>2, <1>3, SetInduction
<1> QED BY <1>1, <1>4

\* More than one node for each leaf.
LEMMA SizeBelow ==
  ASSUME NEW n \in Nat, NEW m \in Nat, n < m
  PROVE  SizeOf(n) \in Nat /\ SizeOf(m) \in Nat /\ SizeOf(n) + 1 <= SizeOf(m)
<1>1. m - n \in Nat /\ n + (m - n) = m /\ 1 <= m - n
  OBVIOUS
<1>2. SizeOf(n + (m - n)) \in Nat /\ SizeOf(n) + (m - n) <= SizeOf(n + (m - n))
  BY <1>1, SizeGrows
<1>3. SizeOf(n) \in Nat
  BY FinishedHeight
<1> QED BY <1>1, <1>2, <1>3

\* Every number ends in its trailing zeros.
LEMMA TrailingEnds ==
  ASSUME NEW n \in Nat \ {0}
  PROVE  EndsIn(n, trailing_zeros(n)) /\ trailing_zeros(n) \in Nat
<1> DEFINE S == {x \in Nat : x # 0 => \E t \in Nat : EndsIn(x, t)}
<1>1. 0 \in S
  OBVIOUS
<1>2. ASSUME NEW k \in Nat, NEW m \in Nat, m < Pow2[k], m \in S PROVE Pow2[k] + m \in S
  <2>1. Pow2[k] \in Nat \ {0}
    BY Pow2Doubles
  <2>2. CASE m = 0
    <3>1. EndsIn(Pow2[k], k)
      BY PowerEnds
    <3> QED BY <2>1, <2>2, <3>1
  <2>3. CASE m # 0
    <3>1. PICK t \in Nat : EndsIn(m, t)
      BY <1>2, <2>3
    <3>2. EndsIn(Pow2[k] + m, t)
      BY <1>2, <2>3, <3>1, HigherEnds
    <3> QED BY <2>1, <3>2
  <2> QED BY <2>2, <2>3
<1>3. Nat \subseteq S
  <2> HIDE DEF S
  <2> QED BY <1>1, <1>2, BitInduction
<1>4. PICK t \in Nat : EndsIn(n, t)
  BY <1>3
<1> QED BY <1>4, EndsInOne

\* Where the nodes are that the nth leaf is the last leaf of.
LEMMA ColumnAt ==
  ASSUME NEW n \in Nat \ {0}, NEW k \in Nat, n % Pow2[k] = 0
  PROVE  LET q == n \div Pow2[k]
             a == Pow2[k] * (q - 1)
         IN  /\ q \in Nat \ {0} /\ a \in Nat /\ a + Pow2[k] = n /\ a % Pow2[k] = 0
             /\ RootAt(a, k) = SizeOf(n - 1) + k
             /\ H(SizeOf(n - 1) + k) = k
<1> DEFINE q == n \div Pow2[k]
<1>1. Pow2[k] \in Nat \ {0}
  BY Pow2Doubles
<1>2. q \in Nat /\ n = Pow2[k] * q + (n % Pow2[k])
  BY <1>1, DivMod
<1> HIDE DEF q
<1>3. n = Pow2[k] * q
  <2>1. Pow2[k] * q \in Nat
    BY <1>1, <1>2
  <2> QED BY <1>2, <2>1
<1>4. q # 0
  BY <1>1, <1>3
<1>5. PICK j \in Nat : j = q - 1
  BY <1>2, <1>4
<1>6. PICK a \in Nat : a = Pow2[k] * j
  BY <1>1
<1>7. a + Pow2[k] = n
  <2>1. Pow2[k] * (j + 1) = Pow2[k] * j + Pow2[k]
    BY <1>1
  <2>2. q = j + 1
    BY <1>2, <1>5
  <2> QED BY <1>3, <1>6, <2>1, <2>2
<1>8. a % Pow2[k] = 0
  <2>1. (Pow2[k] * j + 0) % Pow2[k] = 0
    <3>1. 0 \in Nat /\ 0 < Pow2[k]
      BY <1>1
    <3> QED BY <1>1, <3>1, QuotientIs
  <2> QED BY <1>6, <2>1
<1>9. RootAt(a, k) = SizeOf(a + Pow2[k] - 1) + k /\ H(RootAt(a, k)) = k
  BY <1>8, RootIsThere
<1>10. a + Pow2[k] - 1 = n - 1
  BY <1>1, <1>7
<1> QED BY <1>2, <1>4, <1>5, <1>6, <1>7, <1>8, <1>9, <1>10 DEF q

\* The nodes between two leaves: one of each height up to the trailing zeros.
LEMMA ColumnHeights ==
  ASSUME NEW n \in Nat \ {0}
  PROVE  LET z == trailing_zeros(n)
         IN  /\ z \in Nat /\ n - 1 \in Nat
             /\ SizeOf(n - 1) \in Nat /\ SizeOf(n) = SizeOf(n - 1) + z + 1
             /\ \A k \in 0..z : n % Pow2[k] = 0 /\ H(SizeOf(n - 1) + k) = k
<1> DEFINE z == trailing_zeros(n)
<1>1. z \in Nat /\ n % Pow2[z] = 0
  BY TrailingEnds DEF EndsIn
<1>2. n - 1 \in Nat /\ (n - 1) + 1 = n
  OBVIOUS
<1>3. SizeOf(n - 1) \in Nat
  BY <1>2, FinishedHeight
<1>4. SizeOf(n) = SizeOf(n - 1) + z + 1
  <2>1. count_ones((n - 1) + 1) + trailing_zeros((n - 1) + 1) = count_ones(n - 1) + 1
    BY <1>2, CarryOnes
  <2>2. count_ones(n) + z = count_ones(n - 1) + 1
    BY <1>2, <2>1
  <2>3. count_ones(n) \in Nat /\ count_ones(n - 1) \in Nat
    BY <1>2, CountBounds
  <2> HIDE DEF z
  <2> QED BY <1>1, <2>2, <2>3 DEF SizeOf
<1> HIDE DEF z
<1>5. \A k \in 0..z : n % Pow2[k] = 0
  BY <1>1, LowerDivides
<1>6. ASSUME NEW k \in 0..z PROVE H(SizeOf(n - 1) + k) = k
  <2>1. k \in Nat /\ n % Pow2[k] = 0
    BY <1>1, <1>5
  <2> QED BY <2>1, ColumnAt
<1> QED BY <1>1, <1>2, <1>3, <1>4, <1>5, <1>6 DEF z

\* The bits of a number below a bit, with and without that bit.
LEMMA BitSplits ==
  ASSUME NEW m \in Nat, NEW k \in Nat
  PROVE  LET u == Pow2[k]
             q == m \div u
             r == m % u
             a == u * (q - 1)
         IN  /\ u \in Nat \ {0} /\ q \in Nat /\ r \in Nat /\ r < u
             /\ q % 2 = 0 => m % Pow2[k + 1] = r
             /\ q % 2 # 0 => /\ m % Pow2[k + 1] = u + r
                             /\ q \in Nat \ {0} /\ a \in Nat
                             /\ a % Pow2[k + 1] = 0 /\ a + u + r = m
<1>1. PICK u \in Nat \ {0} : u = Pow2[k] /\ Pow2[k + 1] = 2 * u
  BY Pow2Doubles
<1>2. PICK q \in Nat : q = m \div u
  BY DivMod
<1>3. PICK r \in Nat : r = m % u /\ r < u
  BY <1>1
<1>4. m = u * q + r
  BY <1>2, <1>3, DivMod
<1>5. PICK v \in Nat \ {0} : v = 2 * u
  BY <1>1
<1>6. CASE q % 2 = 0
  <2>1. PICK h \in Nat : q = 2 * h
    <3>1. q \div 2 \in Nat /\ q = 2 * (q \div 2)
      BY <1>6
    <3> QED BY <3>1
  <2>2. v * h + r = m
    <3>1. u * (2 * h) = v * h
      BY <1>5
    <3> QED BY <1>4, <2>1, <3>1
  <2>3. (v * h + r) % v = r
    <3>1. r < v
      BY <1>3, <1>5
    <3> QED BY <3>1, QuotientIs
  <2> QED BY <1>1, <1>2, <1>3, <1>5, <1>6, <2>2, <2>3
<1>7. CASE q % 2 # 0
  <2>1. PICK h \in Nat : q = 2 * h + 1
    <3>1. q \div 2 \in Nat /\ q = 2 * (q \div 2) + 1
      BY <1>7
    <3> QED BY <3>1
  <2>2. PICK a \in Nat : a = v * h
    BY <1>5
  <2>3. u * (q - 1) = a
    <3>1. q - 1 = 2 * h
      BY <2>1
    <3>2. u * (2 * h) = v * h
      BY <1>5
    <3> QED BY <2>2, <3>1, <3>2
  <2>4. a + u + r = m
    <3>1. u * (2 * h + 1) = u * (2 * h) + u
      BY <2>1
    <3>2. u * (2 * h) = v * h
      BY <1>5
    <3> QED BY <1>4, <2>1, <2>2, <3>1, <3>2
  <2>5. m % v = u + r
    <3>1. u + r \in Nat /\ u + r < v
      BY <1>3, <1>5
    <3>2. (v * h + (u + r)) % v = u + r
      BY <3>1, QuotientIs
    <3>3. v * h + (u + r) = m
      BY <2>2, <2>4
    <3> QED BY <3>2, <3>3
  <2>6. a % v = 0
    <3>1. 0 \in Nat /\ 0 < v
      BY <1>5
    <3>2. (v * h + 0) % v = 0
      BY <3>1, QuotientIs
    <3> QED BY <2>2, <3>2
  <2>7. q # 0
    BY <2>1
  <2> QED BY <1>1, <1>2, <1>3, <1>5, <1>7, <2>3, <2>4, <2>5, <2>6, <2>7
<1> QED BY <1>6, <1>7

\* What the scan has not taken off yet are the lower bits of the number of leaves.
LEMMA LeftIs ==
  ASSUME NEW m \in Nat, NEW n \in Nat, n = SizeOf(m), NEW k \in Nat
  PROVE  Left(n, k) = SizeOf(m % Pow2[k])
<1> DEFINE K == k + n
           S == {d \in Nat : d <= K => Left(n, K - d) = SizeOf(m % Pow2[K - d])}
<1>1. K \in Nat /\ Pow2[K] \in Nat \ {0} /\ n < Pow2[K]
  <2>1. K \in Nat /\ n <= K
    OBVIOUS
  <2> HIDE DEF K
  <2>2. K < Pow2[K] /\ Pow2[K] \in Nat \ {0}
    BY <2>1, Pow2Grows, Pow2Doubles
  <2> QED BY <2>1, <2>2
<1>2. m < Pow2[K]
  <2>1. SizeOf(0 + m) \in Nat /\ SizeOf(0) + m <= SizeOf(0 + m)
    <3>1. 0 \in Nat
      OBVIOUS
    <3> QED BY <3>1, SizeGrows
  <2>2. m <= n
    BY <2>1, NoLeaves
  <2> HIDE DEF K
  <2> QED BY <1>1, <2>2
<1> HIDE DEF K
<1>3. 0 \in S
  <2>1. K - 0 = K
    BY <1>1
  <2>2. Left(n, K) = n
    BY <1>1, LeftSteps
  <2>3. m % Pow2[K] = m
    <3>1. PICK u \in Nat \ {0} : u = Pow2[K]
      BY <1>1
    <3>2. m % u = m
      BY <1>2, <3>1
    <3> QED BY <3>1, <3>2
  <2> QED BY <2>1, <2>2, <2>3
<1>4. ASSUME NEW d \in Nat, d \in S PROVE d + 1 \in S
  <2> SUFFICES ASSUME d + 1 <= K
               PROVE  Left(n, K - (d + 1)) = SizeOf(m % Pow2[K - (d + 1)])
    OBVIOUS
  <2>1. PICK j \in Nat : j = K - (d + 1) /\ j + 1 = K - d /\ d <= K
    <3>1. K - (d + 1) \in Nat /\ (K - (d + 1)) + 1 = K - d /\ d <= K
      BY <1>1
    <3> QED BY <3>1
  <2>2. Left(n, j + 1) = SizeOf(m % Pow2[j + 1])
    BY <1>4, <2>1
  <2>3. Left(n, j) = IF Left(n, j + 1) >= Pow2[j + 1] - 1
                     THEN Left(n, j + 1) - (Pow2[j + 1] - 1)
                     ELSE Left(n, j + 1)
    BY LeftSteps
  <2> DEFINE r == m % Pow2[j]
             q == m \div Pow2[j]
  <2>4. r \in Nat /\ r < Pow2[j] /\ Pow2[j] \in Nat /\ q \in Nat
    BY BitSplits
  <2>5. q % 2 = 0 => m % Pow2[j + 1] = r
    BY BitSplits
  <2>6. q % 2 # 0 => m % Pow2[j + 1] = Pow2[j] + r
    BY BitSplits
  <2> HIDE DEF r, q
  <2>7. SizeOf(r) \in Nat /\ SizeOf(r) < Pow2[j + 1] - 1
        /\ SizeOf(Pow2[j] + r) = (Pow2[j + 1] - 1) + SizeOf(r)
    BY <2>4, SizeSplit
  <2>8. Pow2[j + 1] \in Nat
    BY Pow2Doubles
  <2>9. Left(n, j) = SizeOf(r)
    <3>1. CASE q % 2 = 0
      BY <2>2, <2>3, <2>5, <2>7, <2>8, <3>1
    <3>2. CASE q % 2 # 0
      BY <2>2, <2>3, <2>6, <2>7, <2>8, <3>2
    <3> QED BY <3>1, <3>2
  <2> QED BY <2>1, <2>9 DEF r
<1>5. Nat \subseteq S
  <2> HIDE DEF S
  <2> QED BY <1>3, <1>4, SetInduction
<1>6. n \in Nat /\ n <= K /\ K - n = k
  BY DEF K
<1> QED BY <1>5, <1>6

\* The scan takes off a mountain for every bit that is set, and yields its root.
LEMMA PeakOfBit ==
  ASSUME NEW m \in Nat, NEW n \in Nat, n = SizeOf(m), NEW k \in Nat
  PROVE  LET q == m \div Pow2[k]
             p == RootAt(Pow2[k] * (q - 1), k)
         IN  /\ q \in Nat
             /\ q % 2 = 0 => Yield(n, k) = <<>>
             /\ q % 2 # 0 => q # 0 /\ Yield(n, k) = <<p>> /\ p \in 0..(n - 1)
<1> DEFINE u == Pow2[k]
           q == m \div u
           r == m % u
           a == u * (q - 1)
<1>1. /\ u \in Nat \ {0} /\ q \in Nat /\ r \in Nat /\ r < u
      /\ q % 2 = 0 => m % Pow2[k + 1] = r
      /\ q % 2 # 0 => /\ m % Pow2[k + 1] = u + r
                      /\ q \in Nat \ {0} /\ a \in Nat
                      /\ a % Pow2[k + 1] = 0 /\ a + u + r = m
  BY BitSplits
<1>2. Left(n, k) = SizeOf(r) /\ Left(n, k + 1) = SizeOf(m % Pow2[k + 1])
  <2>1. k + 1 \in Nat
    OBVIOUS
  <2> QED BY <2>1, LeftIs
<1>3. k \in PeakHeights(n) <=> Left(n, k) # Left(n, k + 1)
  BY LeftSteps
<1>4. Pow2[k + 1] \in Nat /\ Pow2[k + 1] = 2 * u
  BY Pow2Doubles
<1> HIDE DEF q, r, a
<1>5. CASE q % 2 = 0
  <2>1. Yield(n, k) = <<>>
    BY <1>1, <1>2, <1>3, <1>5 DEF Yield
  <2> QED BY <1>1, <1>5, <2>1 DEF q
<1>6. CASE q % 2 # 0
  <2>1. SizeOf(r) \in Nat /\ SizeOf(u + r) = (Pow2[k + 1] - 1) + SizeOf(r)
    <3> HIDE DEF u
    <3>1. r < Pow2[k] /\ r \in Nat
      BY <1>1 DEF u
    <3> QED BY <3>1, SizeSplit DEF u
  <2>2. k \in PeakHeights(n)
    <3>1. Left(n, k + 1) = (Pow2[k + 1] - 1) + Left(n, k)
      BY <1>1, <1>2, <1>6, <2>1
    <3>2. Pow2[k + 1] >= 2
      BY <1>1, <1>4
    <3>3. PICK x \in Nat : x = Left(n, k)
      BY <1>2, <2>1
    <3>4. PICK y \in Nat : y = Pow2[k + 1] /\ y >= 2
      BY <1>4, <3>2
    <3>5. x < (y - 1) + x
      BY <3>4
    <3> QED BY <1>3, <3>1, <3>3, <3>4, <3>5
  <2>3. PICK b \in Nat : b = a + u
    BY <1>1, <1>6
  <2>4. a \in Nat /\ a % Pow2[k + 1] = 0 /\ b + r = m /\ q # 0
    BY <1>1, <1>6, <2>3
  <2>5. SizeOf(b) = SizeOf(a) + (Pow2[k + 1] - 1)
    <3>1. u < Pow2[k + 1] /\ u \in Nat /\ k + 1 \in Nat
      BY <1>1, <1>4
    <3>2. SizeOf(a + u) = SizeOf(a) + SizeOf(u)
      BY <2>4, <3>1, SizeAdds
    <3>3. SizeOf(u) = Pow2[k + 1] - 1
      BY SizeOfPower
    <3> QED BY <2>3, <3>2, <3>3
  <2>6. b % u = 0
    <3>1. PICK j \in Nat : j = q - 1
      BY <1>1, <2>4
    <3>2. b = u * q
      <4>1. u * (j + 1) = u * j + u
        BY <1>1
      <4>2. q = j + 1
        BY <1>1, <3>1
      <4>3. a = u * j
        BY <3>1 DEF a
      <4> QED BY <2>3, <4>1, <4>2, <4>3
    <3>3. (u * q + 0) % u = 0
      <4>1. 0 \in Nat /\ 0 < u
        BY <1>1
      <4> HIDE DEF u
      <4> QED BY <1>1, <4>1, QuotientIs
    <3>4. u * q + 0 = b
      BY <3>2
    <3> QED BY <3>3, <3>4
  <2>7. n = SizeOf(b) + SizeOf(r)
    <3>1. SizeOf(b + r) = SizeOf(b) + SizeOf(r)
      BY <1>1, <2>3, <2>6, SizeAdds
    <3> QED BY <2>4, <3>1
  <2>8. SizeOf(a) \in Nat
    BY <2>4, FinishedHeight
  <2>9. n - Left(n, k) - 1 = RootAt(a, k)
    <3>1. PICK s \in Nat : s = SizeOf(a)
      BY <2>8
    <3>2. PICK t \in Nat : t = SizeOf(r)
      BY <2>1
    <3>3. PICK v \in Nat : v = Pow2[k + 1]
      BY <1>4
    <3>4. n = (s + (v - 1)) + t /\ Left(n, k) = t
      BY <1>2, <2>5, <2>7, <3>1, <3>2, <3>3
    <3>5. RootAt(a, k) = s + v - 2
      BY <3>1, <3>3 DEF RootAt
    <3> QED BY <3>4, <3>5
  <2>10. RootAt(a, k) \in 0..(n - 1)
    <3>1. PICK x \in 0..n : x = Left(n, k)
      BY LeftSteps
    <3>2. RootAt(a, k) \in Nat
      <4>1. a % Pow2[k] = 0
        <5>1. k \in 0..(k + 1) /\ k + 1 \in Nat
          OBVIOUS
        <5> QED BY <2>4, <5>1, LowerDivides
      <4> QED BY <2>4, <4>1, RootIsThere
    <3> QED BY <2>9, <3>1, <3>2
  <2>11. Yield(n, k) = <<RootAt(a, k)>>
    BY <2>2, <2>9 DEF Yield
  <2> QED BY <1>1, <1>6, <2>4, <2>10, <2>11 DEF a, q
<1> QED BY <1>5, <1>6 DEF q

-----------------------------------------------------------------------------
(* The nodes themselves: they are what module Forest lists.                *)

\* Each value of f is computed from the one before.
Steps(f, D, first, join) ==
  \A n \in D : f[n] = IF n = 0 THEN first ELSE join[<<n, f[n - 1]>>]

\* Such a function exists on the numbers up to some.
LEMMA StepsExist ==
  ASSUME NEW D, D \subseteq Nat, 0 \in D, \A n \in D \ {0} : n - 1 \in D,
         NEW T, NEW first \in T, NEW join \in [D \X T -> T]
  PROVE  \E f \in [D -> T] : Steps(f, D, first, join)
<1> DEFINE stop == {0}
           next == [n \in D |-> IF n = 0 THEN 0 ELSE n - 1]
           exit == [n \in D |-> first]
           rank == [n \in D |-> n]
<1>1. IsLoop(D, T, stop, next, exit, join, rank)
  BY DEF IsLoop
<1>2. PICK f \in [D -> T] : Loop(f, D, stop, next, exit, join)
  <2> HIDE DEF stop, next, exit, rank
  <2> QED BY <1>1, LoopHasResult
<1>3. ASSUME NEW n \in D PROVE f[n] = IF n = 0 THEN first ELSE join[<<n, f[n - 1]>>]
  BY <1>2 DEF Loop
<1> QED BY <1>3 DEF Steps

\* Nodes as pushes leave them behind, where at numbers the positions.
Numbered(c, at) ==
  /\ c \in Seq(Item)
  /\ at \in [Nat -> Nat]
  /\ H(Len(c)) = 0
  /\ \A p \in 0..(Len(c) - 1) : IsNode(c, p, at[p])

\* The same without positions in the hashes.
IsForest(c) == Numbered(c, NoNumber)

\* It has a number of leaves.
LEMMA ForestSize ==
  ASSUME NEW c, NEW at, Numbered(c, at)
  PROVE  \E m \in Nat : SizeOf(m) = Len(c)
<1>1. Len(c) \in Nat /\ H(Len(c)) = 0
  BY DEF Numbered
<1>2. CASE Len(c) = 0
  BY <1>2, NoLeaves
<1>3. CASE Len(c) # 0
  <2> DEFINE ps == PeaksMMRIVERIter(Len(c) - 1)
  <2>1. Row(ps) /\ Nodes(ps) = Len(c) /\ ~Due(ps)
    BY <1>1, <1>3, PeaksAreRow
  <2>2. PICK m \in Nat : 2 * m = Nodes(ps) + Len(ps)
    <3> HIDE DEF ps
    <3> QED BY <2>1, RowLeaves
  <2>3. SizeOf(m) = Nodes(ps)
    <3> HIDE DEF ps
    <3> QED BY <2>1, <2>2, SizeOfRow
  <2> QED BY <2>1, <2>3
<1> QED BY <1>2, <1>3

\* The length of an inner node.
LEMMA MergedLength ==
  ASSUME NEW number \in Nat, NEW x \in Item, NEW y \in Item
  PROVE  Len(merge_pos(number, x, y)) = 1 + Len(x) + Len(y) /\ Len(x) \in Nat /\ Len(y) \in Nat
<1> DEFINE T == Data \cup Nat
<1>1. x \in Seq(T) /\ y \in Seq(T) /\ <<number>> \in Seq(T)
  BY DEF Item
<1>2. Len(x) \in Nat /\ Len(y) \in Nat /\ Len(<<number>>) = 1
  <2> HIDE DEF T
  <2> QED BY <1>1
<1>3. <<number>> \o x \in Seq(T) /\ Len(<<number>> \o x) = 1 + Len(x)
  <2> HIDE DEF T
  <2> QED BY <1>1, <1>2
<1>4. Len((<<number>> \o x) \o y) = Len(<<number>> \o x) + Len(y)
  <2> HIDE DEF T
  <2> QED BY <1>1, <1>3
<1> QED BY <1>2, <1>3, <1>4 DEF merge_pos

\* In a forest only the leaves are terms of length one.
LEMMA LeavesAreShort ==
  ASSUME NEW c, NEW at, Numbered(c, at), NEW p \in 0..(Len(c) - 1)
  PROVE  c[p + 1] \in Item /\ (Len(c[p + 1]) = 1 <=> H(p) = 0)
<1> DEFINE I == Item
<1>1. c \in Seq(I) /\ Len(c) \in Nat
  BY DEF Numbered
<1>2. \A q \in 0..(Len(c) - 1) : c[q + 1] \in I
  <2> HIDE DEF I
  <2> QED BY <1>1
<1>7. \A q \in 0..(Len(c) - 1) : at[q] \in Nat
  <2>1. at \in [Nat -> Nat]
    BY DEF Numbered
  <2>2. \A q \in 0..(Len(c) - 1) : q \in Nat
    BY <1>1
  <2> HIDE DEF I
  <2> QED BY <2>1, <2>2
<1>3. ASSUME NEW q \in 0..(Len(c) - 1), H(q) = 0 PROVE Len(c[q + 1]) = 1
  <2>1. PICK d \in Data : c[q + 1] = leaf_hash(d)
    <3>1. IsNode(c, q, at[q])
      BY DEF Numbered
    <3> QED BY <1>3, <3>1 DEF IsNode, H
  <2>2. c[q + 1] = <<d>>
    BY <2>1 DEF leaf_hash
  <2> QED BY <2>2
<1>4. ASSUME NEW q \in 0..(Len(c) - 1), H(q) # 0
      PROVE  \E l, r \in 0..(q - 1) : c[q + 1] = merge_pos(at[q], c[l + 1], c[r + 1])
  <2>1. q \in Nat /\ q - 1 \in Nat /\ q - Pow2[H(q)] \in Nat /\ Pow2[H(q)] \in Nat \ {0}
    <3>1. q \in Nat
      BY <1>1
    <3>2. H(q) \in Nat
      BY <3>1, NodeHeight DEF H
    <3> QED BY <1>4, <3>1, <3>2, ChildrenHeights, Pow2Doubles DEF H
  <2>2. c[q + 1] = merge_pos(at[q], c[(q - Pow2[H(q)]) + 1], c[q])
    BY <1>4 DEF Numbered, IsNode, H
  <2>3. q - Pow2[H(q)] \in 0..(q - 1) /\ q - 1 \in 0..(q - 1) /\ (q - 1) + 1 = q
    BY <2>1
  <2> QED BY <2>2, <2>3
<1>5. ASSUME NEW q \in 0..(Len(c) - 1) PROVE Len(c[q + 1]) \in Nat \ {0}
  <2>1. CASE H(q) = 0
    <3>1. Len(c[q + 1]) = 1
      BY <1>3, <2>1
    <3> QED BY <3>1
  <2>2. CASE H(q) # 0
    <3>1. PICK l, r \in 0..(q - 1) : c[q + 1] = merge_pos(at[q], c[l + 1], c[r + 1])
      BY <1>4, <2>2
    <3>2. l \in 0..(Len(c) - 1) /\ r \in 0..(Len(c) - 1)
      BY <1>1
    <3>3. c[l + 1] \in Item /\ c[r + 1] \in Item
      BY <1>2, <3>2
    <3>0. PICK number \in Nat : number = at[q]
      BY <1>7
    <3>00. PICK a \in Item : a = c[l + 1]
      BY <3>3
    <3>01. PICK b \in Item : b = c[r + 1]
      BY <3>3
    <3>02. c[q + 1] = merge_pos(number, a, b)
      BY <3>0, <3>00, <3>01, <3>1
    <3>03. /\ Len(merge_pos(number, a, b)) = 1 + Len(a) + Len(b)
           /\ Len(a) \in Nat /\ Len(b) \in Nat
      BY MergedLength
    <3>4. /\ Len(c[q + 1]) = 1 + Len(c[l + 1]) + Len(c[r + 1])
          /\ Len(c[l + 1]) \in Nat /\ Len(c[r + 1]) \in Nat
      BY <3>00, <3>01, <3>02, <3>03
    <3>5. ASSUME NEW x \in Nat, NEW y \in Nat PROVE 1 + x + y \in Nat \ {0}
      OBVIOUS
    <3> QED BY <3>4, <3>5
  <2> QED BY <2>1, <2>2
<1>6. ASSUME H(p) # 0 PROVE Len(c[p + 1]) # 1
  <2>1. PICK l, r \in 0..(p - 1) : c[p + 1] = merge_pos(at[p], c[l + 1], c[r + 1])
    BY <1>4, <1>6
  <2>2. l \in 0..(Len(c) - 1) /\ r \in 0..(Len(c) - 1)
    BY <1>1
  <2>3. c[l + 1] \in Item /\ c[r + 1] \in Item
    BY <1>2, <2>2
  <2>4. Len(c[p + 1]) = 1 + Len(c[l + 1]) + Len(c[r + 1])
    <3>0. PICK number \in Nat : number = at[p]
      BY <1>7
    <3>1. PICK a \in Item : a = c[l + 1]
      BY <2>3
    <3>2. PICK b \in Item : b = c[r + 1]
      BY <2>3
    <3>3. c[p + 1] = merge_pos(number, a, b)
      BY <3>0, <3>1, <3>2, <2>1
    <3>4. Len(merge_pos(number, a, b)) = 1 + Len(a) + Len(b)
      BY MergedLength
    <3> QED BY <3>1, <3>2, <3>3, <3>4
  <2>5. Len(c[l + 1]) \in Nat \ {0} /\ Len(c[r + 1]) \in Nat \ {0}
    BY <1>5, <2>2
  <2>6. ASSUME NEW x \in Nat \ {0}, NEW y \in Nat \ {0} PROVE 1 + x + y # 1
    OBVIOUS
  <2> QED BY <2>4, <2>5, <2>6
<1> QED BY <1>2, <1>3, <1>6

\* What stands at the positions of the first m leaves.
LeafItems(c, m) == [k \in 1..m |-> c[SizeOf(k - 1) + 1]]

\* Its leaves are items.
LEMMA LeafItemsType ==
  ASSUME NEW c, NEW at, Numbered(c, at), NEW m \in Nat, SizeOf(m) = Len(c)
  PROVE  LeafItems(c, m) \in Seq(Item) /\ Len(LeafItems(c, m)) = m
<1> DEFINE I == Item
<1>1. ASSUME NEW k \in 1..m PROVE SizeOf(k - 1) + 1 \in 1..Len(c)
  <2>1. k - 1 \in Nat /\ k - 1 < m
    OBVIOUS
  <2>2. SizeOf(k - 1) \in Nat /\ SizeOf(m) \in Nat /\ SizeOf(k - 1) + 1 <= SizeOf(m)
    BY <2>1, SizeBelow
  <2> QED BY <2>2
<1>2. c \in Seq(I)
  BY DEF Numbered
<1> HIDE DEF I
<1>3. ASSUME NEW k \in 1..m PROVE c[SizeOf(k - 1) + 1] \in I
  BY <1>1, <1>2
<1>4. LeafItems(c, m) \in Seq(I) /\ Len(LeafItems(c, m)) = m
  BY <1>3 DEF LeafItems
<1> QED BY <1>4 DEF I

\* A sequence and its last element appended to the rest of it.
LEMMA PrefixAppends ==
  ASSUME NEW T, NEW j \in Nat, NEW all \in [1..(j + 1) -> T],
         NEW s, s = [k \in 1..j |-> all[k]]
  PROVE  Append(s, all[j + 1]) = all
<1>1. s \in Seq(T) /\ Len(s) = j /\ all \in Seq(T) /\ Len(all) = j + 1
  <2>1. \A k \in 1..j : all[k] \in T
    OBVIOUS
  <2>2. s \in [1..j -> T]
    BY <2>1
  <2> QED BY <2>2
<1>2. all[j + 1] \in T
  OBVIOUS
<1>3. Append(s, all[j + 1]) \in Seq(T) /\ Len(Append(s, all[j + 1])) = j + 1
  BY <1>1, <1>2
<1>4. ASSUME NEW k \in 1..(j + 1) PROVE Append(s, all[j + 1])[k] = all[k]
  <2>1. CASE k = j + 1
    BY <1>1, <1>2, <2>1
  <2>2. CASE k # j + 1
    <3>1. k \in 1..j /\ s[k] = all[k]
      BY <2>2
    <3>2. Append(s, all[j + 1])[k] = s[k]
      BY <1>1, <1>2, <3>1
    <3> QED BY <3>1, <3>2
  <2> QED BY <2>1, <2>2
<1> QED BY <1>1, <1>3, <1>4

\* LeavesOf finds the leaves, in order.
LEMMA LeavesAre ==
  ASSUME NEW c, NEW at, Numbered(c, at), NEW m \in Nat, SizeOf(m) = Len(c)
  PROVE  LeavesOf(c) = LeafItems(c, m)
<1> DEFINE I == Item
           T == Seq(I)
           N == Len(c)
           Grown(n, s) == IF n \in 1..N /\ Len(c[n]) = 1 THEN Append(s, c[n]) ELSE s
           join == [call \in (0..N) \X T |-> Grown(call[1], call[2])]
           leaves == CHOOSE leaves : leaves = [n \in 0..N |->
                       IF n = 0 THEN <<>>
                       ELSE IF Len(c[n]) = 1 THEN Append(leaves[n - 1], c[n])
                       ELSE leaves[n - 1]]
<1>1. c \in Seq(I) /\ N \in Nat /\ \A n \in 1..N : c[n] \in I
  <2>1. c \in Seq(I)
    BY DEF Numbered
  <2> HIDE DEF I
  <2> QED BY <2>1
<1>2. join \in [(0..N) \X T -> T]
  <2>1. ASSUME NEW n \in 0..N, NEW s \in T PROVE Grown(n, s) \in T
    <3> HIDE DEF I, N
    <3> QED BY <1>1
  <2> HIDE DEF T, N, Grown
  <2> QED BY <2>1
<1>3. PICK f \in [0..N -> T] :
        \A n \in 0..N : f[n] = IF n = 0 THEN <<>> ELSE join[<<n, f[n - 1]>>]
  <2> DEFINE D == 0..N
             first == <<>>
  <2>1. first \in T /\ D \subseteq Nat /\ 0 \in D /\ \A n \in D \ {0} : n - 1 \in D
    BY <1>1
  <2>2. join \in [D \X T -> T]
    BY <1>2
  <2> HIDE DEF T, N, join, D, first
  <2>3. \E f \in [D -> T] : Steps(f, D, first, join)
    BY <2>1, <2>2, StepsExist
  <2> QED BY <2>3 DEF D, first, Steps
<1>4. f = [n \in 0..N |-> IF n = 0 THEN <<>>
                          ELSE IF Len(c[n]) = 1 THEN Append(f[n - 1], c[n])
                          ELSE f[n - 1]]
  <2>1. ASSUME NEW n \in 0..N, n # 0
        PROVE  f[n] = IF Len(c[n]) = 1 THEN Append(f[n - 1], c[n]) ELSE f[n - 1]
    <3>1. n \in 1..N /\ n - 1 \in 0..N
      BY <1>1, <2>1
    <3>2. f[n - 1] \in T
      <4> HIDE DEF T, N
      <4> QED BY <3>1
    <3>3. join[<<n, f[n - 1]>>] = Grown(n, f[n - 1])
      <4> HIDE DEF T, N, Grown
      <4> QED BY <3>2
    <3>4. f[n] = Grown(n, f[n - 1])
      <4> HIDE DEF T, N, Grown, join
      <4> QED BY <1>3, <2>1, <3>3
    <3> QED BY <3>1, <3>4
  <2>2. ASSUME NEW n \in 0..N, n = 0 PROVE f[n] = <<>>
    <3> HIDE DEF T, N, join
    <3> QED BY <1>3, <2>2
  <2> HIDE DEF T, N, join
  <2> QED BY <2>1, <2>2
<1>5. leaves = [n \in 0..N |-> IF n = 0 THEN <<>>
                               ELSE IF Len(c[n]) = 1 THEN Append(leaves[n - 1], c[n])
                               ELSE leaves[n - 1]]
  <2> HIDE DEF N
  <2> QED BY <1>4
<1>6. LeavesOf(c) = leaves[N]
  BY DEF LeavesOf
<1> HIDE DEF leaves, join, N
<1>7. /\ leaves[0] = <<>>
      /\ \A n \in 1..N : leaves[n] = IF Len(c[n]) = 1 THEN Append(leaves[n - 1], c[n])
                                     ELSE leaves[n - 1]
  <2>1. 0 \in 0..N /\ \A n \in 1..N : n \in 0..N /\ n # 0
    BY <1>1
  <2> QED BY <1>5, <2>1
<1> DEFINE S == {j \in Nat : j <= m => leaves[SizeOf(j)] = LeafItems(c, j)}
<1>8. 0 \in S
  <2>1. LeafItems(c, 0) = <<>>
    BY DEF LeafItems
  <2> QED BY <1>7, <2>1, NoLeaves
<1>9. ASSUME NEW j \in Nat, j \in S, j + 1 <= m
      PROVE  leaves[SizeOf(j + 1)] = LeafItems(c, j + 1)
  <2> DEFINE n == j + 1
             z == trailing_zeros(n)
             R == {t \in Nat : t <= z => leaves[SizeOf(j) + 1 + t] = LeafItems(c, n)}
  <2>1. n \in Nat \ {0} /\ n - 1 = j /\ n <= m
    BY <1>9
  <2>2. /\ z \in Nat /\ SizeOf(j) \in Nat /\ SizeOf(n) = SizeOf(j) + z + 1
        /\ \A k \in 0..z : H(SizeOf(j) + k) = k
    <3> HIDE DEF n
    <3> QED BY <2>1, ColumnHeights
  <2>3. SizeOf(n) <= N /\ N \in Nat
    <3>1. n = m \/ n < m
      BY <2>1
    <3>2. n < m => SizeOf(n) + 1 <= SizeOf(m) /\ SizeOf(m) \in Nat
      <4> HIDE DEF n
      <4> QED BY <2>1, SizeBelow
    <3>3. SizeOf(m) = N
      BY DEF N
    <3> HIDE DEF n
    <3> QED BY <1>1, <2>2, <3>1, <3>2, <3>3
  <2>4. leaves[SizeOf(j)] = LeafItems(c, j)
    BY <1>9
  <2> HIDE DEF z, S
  <2>5. ASSUME NEW t \in Nat, t <= z
        PROVE  /\ SizeOf(j) + 1 + t \in 1..N
               /\ Len(c[SizeOf(j) + 1 + t]) = 1 <=> t = 0
    <3>0. PICK s \in Nat : s = SizeOf(j)
      BY <2>2
    <3>1. SizeOf(j) + t \in 0..(N - 1) /\ SizeOf(j) + 1 + t = (SizeOf(j) + t) + 1
      <4>1. s + z + 1 <= N
        <5> HIDE DEF n
        <5> QED BY <2>2, <2>3, <3>0
      <4>2. s + t \in 0..(N - 1) /\ s + 1 + t = (s + t) + 1
        BY <2>2, <2>3, <2>5, <4>1
      <4> QED BY <3>0, <4>2
    <3>2. H(SizeOf(j) + t) = t
      BY <2>2, <2>5
    <3>3. Len(c[(SizeOf(j) + t) + 1]) = 1 <=> H(SizeOf(j) + t) = 0
      BY <3>1, LeavesAreShort DEF N
    <3>4. (SizeOf(j) + t) + 1 \in 1..N
      <4>1. s + t \in 0..(N - 1)
        BY <3>0, <3>1
      <4>2. (s + t) + 1 \in 1..N
        BY <2>3, <4>1
      <4> QED BY <3>0, <4>2
    <3> QED BY <3>1, <3>2, <3>3, <3>4
  <2>6. LeafItems(c, n) = Append(LeafItems(c, j), c[SizeOf(j) + 1])
    <3> DEFINE V == {c[SizeOf(k - 1) + 1] : k \in 1..n}
               s == LeafItems(c, j)
               all == LeafItems(c, n)
    <3>1. all \in [1..(j + 1) -> V] /\ all[j + 1] = c[SizeOf(j) + 1]
      <4>1. all = [k \in 1..n |-> c[SizeOf(k - 1) + 1]]
        BY DEF LeafItems
      <4>2. \A k \in 1..n : c[SizeOf(k - 1) + 1] \in V
        OBVIOUS
      <4>3. n \in 1..n /\ all[n] = c[SizeOf(n - 1) + 1]
        BY <2>1, <4>1
      <4> HIDE DEF V, all
      <4> QED BY <4>1, <4>2, <4>3
    <3>2. s = [k \in 1..j |-> all[k]]
      <4>1. \A k \in 1..j : k \in 1..n
        OBVIOUS
      <4> QED BY <4>1 DEF LeafItems
    <3> HIDE DEF V, s, all
    <3>3. Append(s, all[j + 1]) = all
      BY <3>1, <3>2, PrefixAppends
    <3> QED BY <3>1, <3>3 DEF s, all
  <2>7. 0 \in R
    <3>1. SizeOf(j) + 1 + 0 = SizeOf(j) + 1 /\ (SizeOf(j) + 1) - 1 = SizeOf(j)
          /\ 0 <= z /\ 0 \in Nat
      BY <2>2
    <3>2. SizeOf(j) + 1 \in 1..N /\ Len(c[SizeOf(j) + 1]) = 1
      BY <2>5, <3>1
    <3>3. leaves[SizeOf(j) + 1] = Append(LeafItems(c, j), c[SizeOf(j) + 1])
      BY <1>7, <2>4, <3>1, <3>2
    <3> QED BY <2>6, <3>1, <3>3
  <2>8. ASSUME NEW t \in Nat, t \in R PROVE t + 1 \in R
    <3> SUFFICES ASSUME t + 1 <= z
                 PROVE  leaves[SizeOf(j) + 1 + (t + 1)] = LeafItems(c, n)
      OBVIOUS
    <3>1. t + 1 \in Nat /\ t + 1 # 0 /\ t <= z
          /\ (SizeOf(j) + 1 + (t + 1)) - 1 = SizeOf(j) + 1 + t
      BY <2>2
    <3>2. SizeOf(j) + 1 + (t + 1) \in 1..N /\ Len(c[SizeOf(j) + 1 + (t + 1)]) # 1
      BY <2>5, <3>1
    <3>3. leaves[SizeOf(j) + 1 + (t + 1)] = leaves[SizeOf(j) + 1 + t]
      BY <1>7, <3>1, <3>2
    <3> QED BY <2>8, <3>1, <3>3
  <2>9. Nat \subseteq R
    <3> HIDE DEF R
    <3> QED BY <2>7, <2>8, SetInduction
  <2>10. leaves[SizeOf(j) + 1 + z] = LeafItems(c, n)
    <3>1. z \in R /\ z <= z
      BY <2>2, <2>9
    <3> QED BY <3>1
  <2>11. SizeOf(n) = SizeOf(j) + 1 + z
    <3> HIDE DEF n
    <3> QED BY <2>2
  <2> QED BY <2>10, <2>11
<1>10. Nat \subseteq S
  <2>1. ASSUME NEW j \in Nat, j \in S PROVE j + 1 \in S
    BY <1>9, <2>1
  <2> HIDE DEF S
  <2> QED BY <1>8, <2>1, SetInduction
<1>11. leaves[SizeOf(m)] = LeafItems(c, m)
  BY <1>10
<1> QED BY <1>6, <1>11 DEF N

\* What Levels is, level by level.
LEMMA LevelsDefined ==
  ASSUME NEW leaves \in Seq(Item)
  PROVE  /\ Levels(leaves)[0] = leaves
         /\ \A h \in Nat :
              LET below == Levels(leaves)[h]
              IN  /\ below \in Seq(Item)
                  /\ Levels(leaves)[h + 1] =
                       [k \in 1..(Len(below) \div 2) |-> merge(below[2 * k - 1], below[2 * k])]
<1> DEFINE I == Item
           T == Seq(I)
           Up(s) == [k \in 1..(Len(s) \div 2) |-> merge(s[2 * k - 1], s[2 * k])]
           stop == {0}
           next == [h \in Nat |-> IF h = 0 THEN 0 ELSE h - 1]
           exit == [h \in Nat |-> leaves]
           join == [call \in Nat \X T |-> Up(call[2])]
           rank == [h \in Nat |-> h]
<1>1. ASSUME NEW s \in T PROVE Up(s) \in T
  <2>1. Len(s) \in Nat /\ Len(s) \div 2 \in Nat
    <3>1. Len(s) \in Nat
      OBVIOUS
    <3> QED BY <3>1
  <2>2. \A k \in 1..(Len(s) \div 2) : 2 * k - 1 \in 1..Len(s) /\ 2 * k \in 1..Len(s)
    BY <2>1
  <2>3. \A k \in 1..Len(s) : s[k] \in I
    <3> HIDE DEF I
    <3> QED OBVIOUS
  <2>4. \A k \in 1..(Len(s) \div 2) : merge(s[2 * k - 1], s[2 * k]) \in I
    BY <2>2, <2>3, MergeIsItem
  <2> HIDE DEF I
  <2> QED BY <2>1, <2>4
<1>2. IsLoop(Nat, T, stop, next, exit, join, rank)
  <2>1. next \in [Nat -> Nat] /\ rank \in [Nat -> Nat] /\ exit \in [Nat -> T]
    OBVIOUS
  <2>2. join \in [Nat \X T -> T]
    <3> HIDE DEF T, Up
    <3> QED BY <1>1
  <2>3. \A h \in Nat \ stop : rank[next[h]] < rank[h]
    OBVIOUS
  <2> HIDE DEF T, stop, next, exit, join, rank
  <2> QED BY <2>1, <2>2, <2>3 DEF IsLoop
<1>3. PICK f \in [Nat -> T] : Loop(f, Nat, stop, next, exit, join)
  <2> HIDE DEF T, stop, next, exit, join, rank
  <2> QED BY <1>2, LoopHasResult
<1>4. \A h \in Nat : f[h] = IF h = 0 THEN leaves ELSE Up(f[h - 1])
  <2> TAKE h \in Nat
  <2>1. f[h] = IF h \in stop THEN exit[h] ELSE join[<<h, f[next[h]]>>]
    <3> HIDE DEF T, stop, next, exit, join, rank
    <3> QED BY <1>3 DEF Loop
  <2>2. CASE h = 0
    <3> HIDE DEF T, Up
    <3> QED BY <2>1, <2>2
  <2>3. CASE h # 0
    <3>1. next[h] = h - 1 /\ h - 1 \in Nat /\ h \notin stop
      BY <2>3
    <3>2. f[h - 1] \in T
      <4> HIDE DEF T
      <4> QED BY <3>1
    <3>3. join[<<h, f[h - 1]>>] = Up(f[h - 1])
      <4> HIDE DEF T, Up
      <4> QED BY <3>2
    <3> HIDE DEF T, Up, join, next, stop
    <3> QED BY <2>1, <2>3, <3>1, <3>3
  <2> QED BY <2>2, <2>3
<1> DEFINE level == CHOOSE level : level = [h \in Nat |->
                       IF h = 0 THEN leaves
                       ELSE LET below == level[h - 1]
                            IN  [k \in 1..(Len(below) \div 2) |->
                                   merge(below[2 * k - 1], below[2 * k])]]
<1>5. Levels(leaves) = level
  BY DEF Levels
<1>6. level = [h \in Nat |-> IF h = 0 THEN leaves ELSE Up(level[h - 1])]
  <2>1. f = [h \in Nat |-> IF h = 0 THEN leaves ELSE Up(f[h - 1])]
    <3> HIDE DEF T, Up
    <3> QED BY <1>4
  <2> QED BY <2>1
<1> HIDE DEF level, Up
<1>7. /\ level[0] = leaves
      /\ \A h \in Nat : level[h + 1] = Up(level[h])
  <2>1. level[0] = leaves
    BY <1>6
  <2>2. ASSUME NEW h \in Nat PROVE level[h + 1] = Up(level[h])
    <3>1. h + 1 \in Nat /\ h + 1 # 0 /\ (h + 1) - 1 = h
      OBVIOUS
    <3> QED BY <1>6, <3>1
  <2> QED BY <2>1, <2>2
<1>8. \A h \in Nat : level[h] \in T
  <2> DEFINE S == {h \in Nat : level[h] \in T}
  <2>1. 0 \in S
    BY <1>7
  <2>2. ASSUME NEW h \in Nat, h \in S PROVE h + 1 \in S
    <3>1. level[h] \in T /\ level[h + 1] = Up(level[h]) /\ h + 1 \in Nat
      BY <1>7, <2>2
    <3>2. level[h + 1] \in T
      <4> HIDE DEF T
      <4> QED BY <1>1, <3>1
    <3> QED BY <3>1, <3>2
  <2>3. Nat \subseteq S
    <3> HIDE DEF S
    <3> QED BY <2>1, <2>2, SetInduction
  <2> QED BY <2>3
<1> QED BY <1>5, <1>7, <1>8 DEF Up

\* Two neighbours of one level and their parent.
LEMMA PairInForest ==
  ASSUME NEW c, IsForest(c), NEW m \in Nat, SizeOf(m) = Len(c), NEW h \in Nat,
         NEW a \in Nat, a % Pow2[h + 1] = 0, a + Pow2[h + 1] <= m
  PROVE  c[RootAt(a, h + 1) + 1]
           = merge(c[RootAt(a, h) + 1], c[RootAt(a + Pow2[h], h) + 1])
<1>1. /\ Pow2[h] \in Nat \ {0} /\ Pow2[h + 1] = 2 * Pow2[h]
      /\ Pow2[(h + 1) + 1] = 2 * Pow2[h + 1] /\ h + 1 \in Nat /\ h + 1 # 0
  <2>1. h + 1 \in Nat /\ h + 1 # 0
    OBVIOUS
  <2>2. Pow2[h] \in Nat \ {0}
    BY Pow2Doubles
  <2>3. Pow2[h + 1] = 2 * Pow2[h]
    BY Pow2Doubles
  <2>4. Pow2[(h + 1) + 1] = 2 * Pow2[h + 1]
    BY <2>1, Pow2Doubles
  <2> QED BY <2>1, <2>2, <2>3, <2>4
<1> DEFINE r == RootAt(a, h + 1)
<1>2. r \in Nat /\ H(r) = h + 1 /\ r < SizeOf(a + Pow2[h + 1])
  BY <1>1, RootIsThere
<1>3. SizeOf(a + Pow2[h + 1]) <= Len(c) /\ Len(c) \in Nat /\ SizeOf(a + Pow2[h + 1]) \in Nat
  <2> DEFINE b == a + Pow2[h + 1]
  <2>1. b \in Nat /\ m - b \in Nat /\ b + (m - b) = m
    <3>1. PICK u \in Nat : u = Pow2[h + 1]
      BY <1>1
    <3>2. a + u \in Nat /\ a + u <= m
      BY <3>1
    <3>3. m - (a + u) \in Nat /\ (a + u) + (m - (a + u)) = m
      BY <3>2
    <3> QED BY <3>1, <3>2, <3>3
  <2>2. SizeOf(b) \in Nat /\ SizeOf(b + (m - b)) \in Nat
        /\ SizeOf(b) + (m - b) <= SizeOf(b + (m - b))
    <3>1. SizeOf(b) \in Nat
      BY <2>1, FinishedHeight
    <3> HIDE DEF b
    <3> QED BY <2>1, <3>1, SizeGrows
  <2> HIDE DEF b
  <2>3. SizeOf(b) <= Len(c) /\ Len(c) \in Nat /\ SizeOf(b) \in Nat
    BY <2>1, <2>2
  <2> QED BY <2>3 DEF b
<1>4. SizeOf(a) \in Nat /\ SizeOf(a + Pow2[h]) = SizeOf(a) + (Pow2[h + 1] - 1)
  <2>1. SizeOf(a + Pow2[h]) = SizeOf(a) + SizeOf(Pow2[h])
    <3>1. Pow2[h] < Pow2[h + 1] /\ Pow2[h] \in Nat
      BY <1>1
    <3> QED BY <1>1, <3>1, SizeAdds
  <2>2. SizeOf(a) \in Nat
    BY FinishedHeight
  <2> QED BY <2>1, <2>2, SizeOfPower
<1>5. /\ RootAt(a + Pow2[h], h) + 1 = r
      /\ RootAt(a, h) + 1 = r - Pow2[h + 1] + 1
  <2>1. Pow2[h] \in Nat /\ Pow2[h + 1] \in Nat
    BY <1>1
  <2>2. /\ RootAt(a, h) = SizeOf(a) + Pow2[h + 1] - 2
        /\ RootAt(a + Pow2[h], h) = SizeOf(a + Pow2[h]) + Pow2[h + 1] - 2
        /\ r = SizeOf(a) + 2 * Pow2[h + 1] - 2
    BY <1>1 DEF RootAt
  <2>3. PICK s \in Nat : s = SizeOf(a)
    BY <1>4
  <2>4. PICK u \in Nat : u = Pow2[h + 1]
    BY <2>1
  <2>5. SizeOf(a + Pow2[h]) = s + (u - 1)
    BY <1>4, <2>3, <2>4
  <2> HIDE DEF r
  <2>6. RootAt(a, h) = s + u - 2 /\ RootAt(a + Pow2[h], h) = s + (u - 1) + u - 2
        /\ r = s + 2 * u - 2
    BY <2>2, <2>3, <2>4, <2>5
  <2>7. RootAt(a + Pow2[h], h) + 1 = r
    BY <2>6
  <2>8. RootAt(a, h) + 1 = r - u + 1
    BY <2>6
  <2> QED BY <2>4, <2>7, <2>8
<1> HIDE DEF r
<1>6. r \in 0..(Len(c) - 1)
  BY <1>2, <1>3
<1>7. IsNode(c, r, 0)
  <2>1. NoNumber[r] = 0
    BY <1>2 DEF NoNumber
  <2> QED BY <1>6, <2>1 DEF IsForest, Numbered
<1>8. c[r + 1] = merge_pos(0, c[r - Pow2[h + 1] + 1], c[r])
  BY <1>1, <1>2, <1>7 DEF IsNode, H
<1>9. c[r + 1] = merge(c[RootAt(a, h) + 1], c[RootAt(a + Pow2[h], h) + 1])
  BY <1>5, <1>8 DEF merge
<1> QED BY <1>9 DEF r

\* Levels lists the nodes of each height from left to right.
LEMMA LevelsAre ==
  ASSUME NEW c, IsForest(c), NEW m \in Nat, SizeOf(m) = Len(c)
  PROVE  \A h \in Nat :
           LET level == Levels(LeafItems(c, m))[h]
           IN  /\ level \in Seq(Item)
               /\ Len(level) = m \div Pow2[h]
               /\ m \div Pow2[h] \in Nat
               /\ \A j \in 1..(m \div Pow2[h]) :
                    level[j] = c[RootAt(Pow2[h] * (j - 1), h) + 1]
<1> DEFINE leaves == LeafItems(c, m)
           L(h) == Levels(leaves)[h]
           Is(h) == /\ Len(L(h)) = m \div Pow2[h]
                    /\ \A j \in 1..(m \div Pow2[h]) :
                         L(h)[j] = c[RootAt(Pow2[h] * (j - 1), h) + 1]
           S == {h \in Nat : Is(h)}
<1>1. leaves \in Seq(Item) /\ Len(leaves) = m
  BY LeafItemsType DEF IsForest
<1>2. /\ L(0) = leaves
      /\ \A h \in Nat : /\ L(h) \in Seq(Item)
                        /\ L(h + 1) = [k \in 1..(Len(L(h)) \div 2) |->
                                         merge(L(h)[2 * k - 1], L(h)[2 * k])]
  <2> HIDE DEF leaves
  <2> QED BY <1>1, LevelsDefined
<1>3. \A h \in Nat : Pow2[h] \in Nat \ {0} /\ Pow2[h + 1] = 2 * Pow2[h] /\ m \div Pow2[h] \in Nat
  <2> TAKE h \in Nat
  <2>1. Pow2[h] \in Nat \ {0} /\ Pow2[h + 1] = 2 * Pow2[h]
    BY Pow2Doubles
  <2> QED BY <2>1, DivMod
<1>4. 0 \in S
  <2>1. Pow2[0] = 1 /\ m \div 1 = m /\ Pow2[0 + 1] = 2
    BY Pow2Doubles
  <2>2. ASSUME NEW j \in 1..m PROVE leaves[j] = c[RootAt(1 * (j - 1), 0) + 1]
    <3>1. 1 * (j - 1) = j - 1 /\ j - 1 \in Nat
      OBVIOUS
    <3>2. SizeOf(j - 1) \in Nat
      BY <3>1, FinishedHeight
    <3>3. RootAt(j - 1, 0) = SizeOf(j - 1)
      BY <2>1, <3>2 DEF RootAt
    <3> QED BY <3>1, <3>3 DEF LeafItems
  <2> HIDE DEF leaves
  <2> QED BY <1>1, <1>2, <2>1, <2>2
<1>5. ASSUME NEW h \in Nat, h \in S PROVE h + 1 \in S
  <2> DEFINE q == m \div Pow2[h]
  <2>1. Pow2[h] \in Nat \ {0} /\ Pow2[h + 1] = 2 * Pow2[h] /\ q \in Nat /\ h + 1 \in Nat
    <3>1. h + 1 \in Nat
      OBVIOUS
    <3> QED BY <1>3, <3>1
  <2>2. m \div Pow2[h + 1] = q \div 2
    BY <2>1, HalvedQuotient
  <2>3. Len(L(h)) = q /\ \A j \in 1..q : L(h)[j] = c[RootAt(Pow2[h] * (j - 1), h) + 1]
    BY <1>5
  <2>4. m = Pow2[h + 1] * (q \div 2) + (m % Pow2[h + 1]) /\ m % Pow2[h + 1] \in Nat
        /\ q \div 2 \in Nat
    <3>1. Pow2[h + 1] \in Nat \ {0}
      BY <2>1
    <3> HIDE DEF q
    <3> QED BY <2>2, <3>1, DivMod
  <2> HIDE DEF q, L, S, Is, leaves
  <2>5. L(h + 1) = [k \in 1..(q \div 2) |-> merge(L(h)[2 * k - 1], L(h)[2 * k])]
    BY <1>2, <2>3
  <2>6. ASSUME NEW k \in 1..(q \div 2)
        PROVE  merge(L(h)[2 * k - 1], L(h)[2 * k]) = c[RootAt(Pow2[h + 1] * (k - 1), h + 1) + 1]
    <3>1. 2 * k - 1 \in 1..q /\ 2 * k \in 1..q /\ k - 1 \in Nat
      BY <2>1, <2>4
    <3>2. PICK a \in Nat : a = Pow2[h + 1] * (k - 1)
      BY <2>1, <3>1
    <3>3. Pow2[h] * ((2 * k - 1) - 1) = a
      BY <2>1, <3>1, <3>2
    <3>4. Pow2[h] * (2 * k - 1) = a + Pow2[h]
      BY <2>1, <3>1, <3>2
    <3>5. a % Pow2[h + 1] = 0
      <4>1. Pow2[h + 1] \in Nat \ {0} /\ 0 \in Nat /\ 0 < Pow2[h + 1]
        BY <2>1
      <4>2. (Pow2[h + 1] * (k - 1) + 0) % Pow2[h + 1] = 0
        BY <3>1, <4>1, QuotientIs
      <4> QED BY <3>2, <4>2
    <3>6. a + Pow2[h + 1] <= m
      <4>1. PICK u \in Nat : u = Pow2[h + 1]
        BY <2>1
      <4>2. PICK z \in Nat : z = q \div 2
        BY <2>4
      <4>3. u * k = a + u
        BY <3>1, <3>2, <4>1
      <4>4. u * k <= u * z /\ u * z \in Nat
        BY <4>2
      <4>5. m = u * z + (m % u) /\ m % u \in Nat
        BY <2>4, <4>1, <4>2
      <4>6. a + u <= m
        BY <4>3, <4>4, <4>5
      <4> QED BY <4>1, <4>6
    <3>7. c[RootAt(a, h + 1) + 1] = merge(c[RootAt(a, h) + 1], c[RootAt(a + Pow2[h], h) + 1])
      BY <3>5, <3>6, PairInForest
    <3>8. L(h)[2 * k - 1] = c[RootAt(a, h) + 1]
      BY <2>3, <3>1, <3>3
    <3>9. L(h)[2 * k] = c[RootAt(a + Pow2[h], h) + 1]
      BY <2>3, <3>1, <3>4
    <3> QED BY <3>2, <3>7, <3>8, <3>9
  <2>7. Len(L(h + 1)) = q \div 2
    BY <2>4, <2>5
  <2>8. \A k \in 1..(q \div 2) : L(h + 1)[k] = c[RootAt(Pow2[h + 1] * (k - 1), h + 1) + 1]
    BY <2>5, <2>6
  <2>9. Is(h + 1)
    BY <2>2, <2>7, <2>8 DEF Is
  <2> QED BY <2>1, <2>9 DEF S
<1>6. Nat \subseteq S
  <2> HIDE DEF S
  <2> QED BY <1>4, <1>5, SetInduction
<1>7. \A h \in Nat : Is(h)
  BY <1>6
<1> QED BY <1>2, <1>3, <1>7

\* A prefix of a sequence and the elements that follow it.
LEMMA PrefixGrows ==
  ASSUME NEW T, NEW c \in Seq(T), NEW s \in Nat, NEW l \in Nat, s + l <= Len(c),
         NEW x, x = [k \in 1..l |-> c[s + k]]
  PROVE  SubSeq(c, 1, s) \o x = SubSeq(c, 1, s + l)
<1> DEFINE before == SubSeq(c, 1, s)
           after == SubSeq(c, 1, s + l)
<1>1. Len(c) \in Nat /\ s <= Len(c) /\ s + l \in Nat
  OBVIOUS
<1>2. before \in Seq(T) /\ Len(before) = s /\ \A k \in 1..s : before[k] = c[k]
  BY <1>1
<1>3. after \in Seq(T) /\ Len(after) = s + l /\ \A k \in 1..(s + l) : after[k] = c[k]
  BY <1>1
<1>4. x \in Seq(T) /\ Len(x) = l
  <2>1. ASSUME NEW k \in 1..l PROVE c[s + k] \in T
    <3>1. s + k \in 1..Len(c)
      BY <1>1
    <3> QED BY <3>1
  <2>2. x \in [1..l -> T]
    BY <2>1
  <2> QED BY <2>2
<1> HIDE DEF before, after
<1>5. before \o x \in Seq(T) /\ Len(before \o x) = s + l
  <2>1. before \o x \in Seq(T)
    BY <1>2, <1>4
  <2>2. Len(before \o x) = Len(before) + Len(x)
    <3>1. before \in Seq(T) /\ x \in Seq(T)
      BY <1>2, <1>4
    <3> QED BY <3>1
  <2> QED BY <1>2, <1>4, <2>1, <2>2
<1>6. ASSUME NEW k \in 1..(s + l) PROVE (before \o x)[k] = after[k]
  <2>1. CASE k <= s
    <3>1. k \in 1..s
      BY <2>1
    <3>2. (before \o x)[k] = before[k]
      BY <1>2, <1>4, <3>1
    <3> QED BY <1>2, <1>3, <3>1, <3>2
  <2>2. CASE k > s
    <3>1. PICK j \in 1..l : k = s + j
      <4>1. k - s \in 1..l /\ k = s + (k - s)
        BY <2>2
      <4> QED BY <4>1
    <3>2. (before \o x)[s + j] = x[j]
      BY <1>2, <1>4
    <3> QED BY <1>3, <3>1, <3>2
  <2>3. k <= s \/ k > s
    OBVIOUS
  <2> QED BY <2>1, <2>2, <2>3
<1> QED BY <1>3, <1>5, <1>6 DEF before, after

\* The column of the nth leaf, in a forest.
LEMMA ColumnInForest ==
  ASSUME NEW c, IsForest(c), NEW m \in Nat, SizeOf(m) = Len(c), NEW n \in 1..m
  PROVE  Column(LeafItems(c, m), n)
           = [k \in 1..(trailing_zeros(n) + 1) |-> c[SizeOf(n - 1) + k]]
<1> DEFINE leaves == LeafItems(c, m)
           z == trailing_zeros(n)
<1>1. n \in Nat \ {0} /\ n <= m
  OBVIOUS
<1>2. /\ z \in Nat /\ SizeOf(n - 1) \in Nat
      /\ \A k \in 0..z : n % Pow2[k] = 0
  BY <1>1, ColumnHeights
<1> HIDE DEF z
<1>3. ASSUME NEW k \in 1..(z + 1)
      PROVE  Levels(leaves)[k - 1][n \div Pow2[k - 1]] = c[SizeOf(n - 1) + k]
  <2>1. PICK h \in Nat : h = k - 1
    BY <1>2
  <2>2. n % Pow2[h] = 0
    <3>1. h \in 0..z
      BY <1>2, <2>1
    <3> QED BY <1>2, <3>1
  <2> DEFINE q == n \div Pow2[h]
             t == m \div Pow2[h]
  <2>3. q \in Nat \ {0} /\ RootAt(Pow2[h] * (q - 1), h) = SizeOf(n - 1) + h
    BY <1>1, <2>2, ColumnAt
  <2>4. \A j \in 1..t : Levels(leaves)[h][j] = c[RootAt(Pow2[h] * (j - 1), h) + 1]
    BY LevelsAre
  <2>5. q <= t
    <3>1. PICK u \in Nat \ {0} : u = Pow2[h]
      BY Pow2Doubles
    <3>2. /\ q \in Nat /\ n % u \in Nat /\ n = u * q + (n % u)
          /\ t \in Nat /\ m = u * t + (m % u) /\ m % u \in 0..(u - 1)
      <4>1. m % u \in 0..(u - 1)
        BY <3>1
      <4>2. n \div u \in Nat /\ n % u \in Nat /\ n = u * (n \div u) + (n % u)
        BY <1>1, DivMod
      <4>3. m \div u \in Nat /\ m = u * (m \div u) + (m % u)
        BY DivMod
      <4> QED BY <3>1, <4>1, <4>2, <4>3
    <3> HIDE DEF q, t
    <3> SUFFICES ASSUME t < q PROVE FALSE
      BY <3>2
    <3>3. u * t + u <= u * q /\ u * t \in Nat /\ u * q \in Nat
      <4>1. u * (t + 1) <= u * q
        BY <3>2
      <4>2. u * (t + 1) = u * t + u
        BY <3>2
      <4> QED BY <3>2, <4>1, <4>2
    <3>4. u * q <= n
      BY <3>2, <3>3
    <3>5. m < u * t + u
      <4>1. PICK x \in Nat : x = u * t
        BY <3>3
      <4>2. PICK y \in 0..(u - 1) : y = m % u
        BY <3>2
      <4>3. m = x + y
        BY <3>2, <4>1, <4>2
      <4> QED BY <4>1, <4>2, <4>3
    <3> QED BY <1>1, <3>1, <3>3, <3>4, <3>5
  <2>6. q \in 1..t
    <3>1. t \in Nat
      BY Pow2Doubles, DivMod
    <3> HIDE DEF q, t
    <3> QED BY <2>3, <2>5, <3>1
  <2> HIDE DEF q, t
  <2>7. Levels(leaves)[h][q] = c[SizeOf(n - 1) + h + 1]
    BY <2>3, <2>4, <2>6
  <2>8. SizeOf(n - 1) + h + 1 = SizeOf(n - 1) + k
    BY <1>2, <2>1
  <2> QED BY <2>1, <2>7, <2>8 DEF q
<1> HIDE DEF leaves
<1>4. Column(leaves, n) = [k \in 1..(z + 1) |-> c[SizeOf(n - 1) + k]]
  BY <1>3 DEF Column, z
<1> QED BY <1>4 DEF leaves, z

\* Layout puts every node of a forest where it is.
LEMMA LayoutIsForest ==
  ASSUME NEW c, IsForest(c)
  PROVE  Layout(LeavesOf(c)) = c
<1>1. PICK m \in Nat : SizeOf(m) = Len(c)
  BY ForestSize DEF IsForest
<1> DEFINE I == Item
           leaves == LeafItems(c, m)
           f == [n \in 0..m |-> SubSeq(c, 1, SizeOf(n))]
           nodes == CHOOSE nodes : nodes = [n \in 0..m |->
                      IF n = 0 THEN <<>> ELSE nodes[n - 1] \o Column(leaves, n)]
<1>2. LeavesOf(c) = leaves /\ Len(leaves) = m
  <2>1. Numbered(c, NoNumber)
    BY DEF IsForest
  <2> QED BY <1>1, <2>1, LeavesAre, LeafItemsType
<1>3. Layout(LeavesOf(c)) = nodes[m]
  <2> HIDE DEF leaves
  <2> QED BY <1>2 DEF Layout
<1>4. c \in Seq(I) /\ Len(c) \in Nat
  BY DEF IsForest, Numbered
<1>5. ASSUME NEW n \in 1..m PROVE f[n] = f[n - 1] \o Column(leaves, n)
  <2> DEFINE z == trailing_zeros(n)
             x == Column(leaves, n)
  <2>1. n \in 0..m /\ n - 1 \in 0..m /\ n \in Nat \ {0}
    OBVIOUS
  <2>2. z \in Nat /\ SizeOf(n - 1) \in Nat /\ SizeOf(n) = SizeOf(n - 1) + z + 1
    BY <2>1, ColumnHeights
  <2>3. SizeOf(n) <= Len(c)
    <3>1. n = m \/ n < m
      OBVIOUS
    <3>2. n < m => SizeOf(n) \in Nat /\ SizeOf(m) \in Nat /\ SizeOf(n) + 1 <= SizeOf(m)
      BY <2>1, SizeBelow
    <3> QED BY <1>1, <1>4, <3>1, <3>2
  <2>4. x = [k \in 1..(z + 1) |-> c[SizeOf(n - 1) + k]]
    BY <1>1, ColumnInForest
  <2> HIDE DEF x, z, I, leaves
  <2>5. PICK s \in Nat : s = SizeOf(n - 1)
    BY <2>2
  <2>6. SubSeq(c, 1, s) \o x = SubSeq(c, 1, s + (z + 1))
    <3>1. s + (z + 1) <= Len(c) /\ z + 1 \in Nat
      BY <2>2, <2>3, <2>5
    <3> QED BY <1>4, <2>4, <2>5, <3>1, PrefixGrows
  <2>7. s + (z + 1) = SizeOf(n)
    BY <2>2, <2>5
  <2>8. f[n] = SubSeq(c, 1, SizeOf(n)) /\ f[n - 1] = SubSeq(c, 1, SizeOf(n - 1))
    BY <2>1
  <2> QED BY <2>5, <2>6, <2>7, <2>8 DEF x
<1>6. f[0] = <<>>
  BY NoLeaves
<1>7. nodes = [n \in 0..m |-> IF n = 0 THEN <<>> ELSE nodes[n - 1] \o Column(leaves, n)]
  <2>1. f = [n \in 0..m |-> IF n = 0 THEN <<>> ELSE f[n - 1] \o Column(leaves, n)]
    <3>1. ASSUME NEW n \in 0..m
          PROVE  f[n] = IF n = 0 THEN <<>> ELSE f[n - 1] \o Column(leaves, n)
      <4>1. CASE n = 0
        <5> HIDE DEF f
        <5> QED BY <1>6, <4>1
      <4>2. CASE n # 0
        <5>1. n \in 1..m
          BY <4>2
        <5> HIDE DEF f, leaves
        <5> QED BY <1>5, <4>2, <5>1
      <4> QED BY <4>1, <4>2
    <3>2. f = [n \in 0..m |-> f[n]]
      OBVIOUS
    <3> HIDE DEF f, leaves
    <3> QED BY <3>1, <3>2
  <2> HIDE DEF f, leaves
  <2> QED BY <2>1
<1> HIDE DEF nodes, leaves
<1> DEFINE S == {n \in Nat : n <= m => nodes[n] = f[n]}
<1>8. 0 \in S
  <2>1. 0 \in 0..m
    OBVIOUS
  <2>2. nodes[0] = <<>>
    BY <1>7, <2>1
  <2> HIDE DEF f
  <2> QED BY <1>6, <2>2
<1>9. ASSUME NEW n \in Nat, n \in S PROVE n + 1 \in S
  <2> SUFFICES ASSUME n + 1 <= m PROVE nodes[n + 1] = f[n + 1]
    OBVIOUS
  <2>1. n + 1 \in 1..m /\ n + 1 \in 0..m /\ n + 1 # 0 /\ (n + 1) - 1 = n /\ n <= m
    OBVIOUS
  <2>2. nodes[n + 1] = nodes[n] \o Column(leaves, n + 1)
    BY <1>7, <2>1
  <2>3. nodes[n] = f[n]
    <3> HIDE DEF f
    <3> QED BY <1>9, <2>1
  <2>4. f[n + 1] = f[n] \o Column(leaves, n + 1)
    <3> HIDE DEF f
    <3> QED BY <1>5, <2>1
  <2> HIDE DEF f
  <2> QED BY <2>2, <2>3, <2>4
<1>10. Nat \subseteq S
  <2> HIDE DEF S
  <2> QED BY <1>8, <1>9, SetInduction
<1>11. nodes[m] = SubSeq(c, 1, SizeOf(m))
  <2>1. nodes[m] = f[m]
    <3> HIDE DEF f
    <3> QED BY <1>10
  <2>2. m \in 0..m
    OBVIOUS
  <2>3. f[m] = SubSeq(c, 1, SizeOf(m))
    BY <2>2
  <2> HIDE DEF f
  <2> QED BY <2>1, <2>3
<1>12. SubSeq(c, 1, Len(c)) = c
  <2> HIDE DEF I
  <2> QED BY <1>4
<1> QED BY <1>1, <1>3, <1>11, <1>12

-----------------------------------------------------------------------------
(* Their peaks, bagged: the root that module Forest computes.              *)

\* bag_rhs_peaks with every intermediate result.
BagOf(rhs_peaks) ==
  LET bagged[i \in 1..Len(rhs_peaks)] ==
        IF i = Len(rhs_peaks) THEN rhs_peaks[i]
        ELSE merge_peaks(bagged[i + 1], rhs_peaks[i])
  IN  bagged

\* It is defined from the last peak down to the first.
LEMMA BagDefined ==
  ASSUME NEW ps \in Seq(Item), Len(ps) > 0
  PROVE  /\ bag_rhs_peaks(ps) = BagOf(ps)[1]
         /\ \A k \in 1..Len(ps) :
              /\ BagOf(ps)[k] \in Item
              /\ BagOf(ps)[k] = IF k = Len(ps) THEN ps[k]
                                ELSE merge_peaks(BagOf(ps)[k + 1], ps[k])
<1> DEFINE I == Item
           n == Len(ps)
           D == 1..n
           stop == {n}
           next == [k \in D |-> IF k = n THEN n ELSE k + 1]
           exit == [k \in D |-> ps[k]]
           join == [call \in D \X I |-> merge_peaks(call[2], ps[call[1]])]
           rank == [k \in D |-> n - k]
           bagged == CHOOSE bagged : bagged = [k \in D |->
                       IF k = n THEN ps[k] ELSE merge_peaks(bagged[k + 1], ps[k])]
<1>1. n \in Nat \ {0} /\ \A k \in D : ps[k] \in I
  <2>1. ps \in Seq(I)
    OBVIOUS
  <2> HIDE DEF I
  <2> QED BY <2>1
<1>2. IsLoop(D, I, stop, next, exit, join, rank)
  <2>1. next \in [D -> D] /\ rank \in [D -> Nat]
    BY <1>1
  <2>2. exit \in [D -> I]
    <3> HIDE DEF I, D
    <3> QED BY <1>1
  <2>3. join \in [D \X I -> I]
    <3>1. ASSUME NEW k \in D, NEW v \in I PROVE merge_peaks(v, ps[k]) \in I
      BY <1>1, MergeIsItem DEF merge_peaks
    <3> HIDE DEF I, D
    <3> QED BY <3>1
  <2>4. \A k \in D \ stop : rank[next[k]] < rank[k]
    BY <1>1
  <2> HIDE DEF I, D, stop, next, exit, join, rank
  <2> QED BY <2>1, <2>2, <2>3, <2>4 DEF IsLoop
<1>3. PICK f \in [D -> I] : Loop(f, D, stop, next, exit, join)
  <2> HIDE DEF I, D, stop, next, exit, join, rank
  <2> QED BY <1>2, LoopHasResult
<1>4. \A k \in D : f[k] = IF k = n THEN ps[k] ELSE merge_peaks(f[k + 1], ps[k])
  <2> TAKE k \in D
  <2>1. f[k] = IF k \in stop THEN exit[k] ELSE join[<<k, f[next[k]]>>]
    <3> HIDE DEF I, D, stop, next, exit, join, rank
    <3> QED BY <1>3 DEF Loop
  <2>2. CASE k = n
    <3> HIDE DEF I, D
    <3> QED BY <2>1, <2>2
  <2>3. CASE k # n
    <3>1. next[k] = k + 1 /\ k + 1 \in D /\ k \notin stop
      BY <1>1, <2>3
    <3>2. f[k + 1] \in I
      <4> HIDE DEF I, D
      <4> QED BY <3>1
    <3>3. join[<<k, f[k + 1]>>] = merge_peaks(f[k + 1], ps[k])
      <4> HIDE DEF I, D
      <4> QED BY <3>2
    <3> HIDE DEF I, D, join, next, stop
    <3> QED BY <2>1, <2>3, <3>1, <3>3
  <2> QED BY <2>2, <2>3
<1>5. BagOf(ps) = bagged /\ bag_rhs_peaks(ps) = bagged[1]
  BY DEF BagOf, bag_rhs_peaks
<1>6. bagged = [k \in D |-> IF k = n THEN ps[k] ELSE merge_peaks(bagged[k + 1], ps[k])]
  <2>1. f = [k \in D |-> IF k = n THEN ps[k] ELSE merge_peaks(f[k + 1], ps[k])]
    <3> HIDE DEF I, D, n
    <3> QED BY <1>4
  <2> HIDE DEF I, D, n
  <2> QED BY <2>1
<1> HIDE DEF bagged, D
<1>7. \A k \in D : bagged[k] = IF k = n THEN ps[k] ELSE merge_peaks(bagged[k + 1], ps[k])
  <2> HIDE DEF n
  <2> QED BY <1>6
<1>8. \A k \in D : bagged[k] \in I
  <2> DEFINE S == {d \in Nat : d < n => bagged[n - d] \in I}
  <2>1. 0 \in S
    <3>1. n \in D /\ n - 0 = n
      BY <1>1 DEF D
    <3> HIDE DEF I, n
    <3> QED BY <1>1, <1>7, <3>1
  <2>2. ASSUME NEW d \in Nat, d \in S PROVE d + 1 \in S
    <3> SUFFICES ASSUME d + 1 < n PROVE bagged[n - (d + 1)] \in I
      OBVIOUS
    <3>1. n - (d + 1) \in D /\ n - (d + 1) # n /\ (n - (d + 1)) + 1 = n - d /\ d < n
      BY <1>1 DEF D
    <3>2. bagged[n - d] \in I
      <4> HIDE DEF I, n
      <4> QED BY <2>2, <3>1
    <3>3. ps[n - (d + 1)] \in I
      <4> HIDE DEF I, n
      <4> QED BY <1>1, <3>1
    <3>4. bagged[n - (d + 1)] = merge_peaks(bagged[n - d], ps[n - (d + 1)])
      <4> HIDE DEF I, n
      <4> QED BY <1>7, <3>1
    <3> QED BY <3>2, <3>3, <3>4, MergeIsItem DEF merge_peaks
  <2>3. Nat \subseteq S
    <3> HIDE DEF S
    <3> QED BY <2>1, <2>2, SetInduction
  <2> TAKE k \in D
  <2>4. n - k \in Nat /\ n - k < n /\ n - (n - k) = k
    BY <1>1 DEF D
  <2> HIDE DEF I, n
  <2> QED BY <2>3, <2>4
<1> HIDE DEF I
<1> QED BY <1>5, <1>7, <1>8 DEF D, n, I

\* One peak is its own root.
LEMMA OnePeak ==
  ASSUME NEW x \in Item
  PROVE  bag_rhs_peaks(<<x>>) = x
<1>1. <<x>> \in Seq(Item) /\ Len(<<x>>) = 1 /\ <<x>>[1] = x
  <2> DEFINE I == Item
  <2>1. x \in I
    OBVIOUS
  <2> HIDE DEF I
  <2>2. <<x>> \in Seq(I) /\ Len(<<x>>) = 1 /\ <<x>>[1] = x
    BY <2>1
  <2> QED BY <2>2 DEF I
<1>2. PICK ps \in Seq(Item) : ps = <<x>>
  BY <1>1
<1>3. Len(ps) > 0 /\ 1 \in 1..Len(ps) /\ Len(ps) = 1
  BY <1>1, <1>2
<1>4. bag_rhs_peaks(ps) = BagOf(ps)[1] /\ BagOf(ps)[1] = ps[1]
  BY <1>3, BagDefined
<1> QED BY <1>1, <1>2, <1>4

\* A higher peak in front is merged last.
LEMMA PeakInFront ==
  ASSUME NEW s \in Seq(Item), Len(s) > 0, NEW x \in Item
  PROVE  /\ <<x>> \o s \in Seq(Item)
         /\ bag_rhs_peaks(<<x>> \o s) = merge_peaks(bag_rhs_peaks(s), x)
<1> DEFINE I == Item
           w == <<x>> \o s
           n == Len(s)
<1>1. /\ n \in Nat \ {0} /\ w \in Seq(I) /\ Len(w) = n + 1 /\ w[1] = x
      /\ \A k \in 1..n : w[k + 1] = s[k]
  <2>1. s \in Seq(I) /\ x \in I
    OBVIOUS
  <2> HIDE DEF I
  <2>2. n \in Nat \ {0}
    BY <2>1
  <2>3. w \in Seq(I) /\ Len(w) = n + 1 /\ w[1] = x
    BY <2>1
  <2>4. ASSUME NEW k \in 1..n PROVE w[k + 1] = s[k]
    BY <2>1
  <2> QED BY <2>2, <2>3, <2>4
<1> HIDE DEF w, n
<1>2. /\ bag_rhs_peaks(w) = BagOf(w)[1]
      /\ \A k \in 1..(n + 1) : BagOf(w)[k] = IF k = n + 1 THEN w[k]
                                             ELSE merge_peaks(BagOf(w)[k + 1], w[k])
  <2>1. w \in Seq(Item) /\ Len(w) > 0
    BY <1>1
  <2> QED BY <1>1, <2>1, BagDefined
<1>3. /\ bag_rhs_peaks(s) = BagOf(s)[1]
      /\ \A k \in 1..n : BagOf(s)[k] = IF k = n THEN s[k]
                                       ELSE merge_peaks(BagOf(s)[k + 1], s[k])
  BY <1>1, BagDefined DEF n
<1> DEFINE S == {d \in Nat : d < n => BagOf(w)[(n - d) + 1] = BagOf(s)[n - d]}
<1>4. 0 \in S
  <2>1. n - 0 = n /\ n \in 1..n /\ n + 1 \in 1..(n + 1)
    BY <1>1
  <2> QED BY <1>1, <1>2, <1>3, <2>1
<1>5. ASSUME NEW d \in Nat, d \in S PROVE d + 1 \in S
  <2> SUFFICES ASSUME d + 1 < n
               PROVE  BagOf(w)[(n - (d + 1)) + 1] = BagOf(s)[n - (d + 1)]
    OBVIOUS
  <2>1. PICK k \in 1..n : k = n - (d + 1) /\ k # n /\ k + 1 = n - d
    <3>1. n - (d + 1) \in 1..n /\ n - (d + 1) # n /\ (n - (d + 1)) + 1 = n - d
      BY <1>1
    <3> QED BY <3>1
  <2>2. k + 1 \in 1..(n + 1) /\ k + 1 # n + 1
    BY <1>1, <2>1
  <2>3. BagOf(w)[(k + 1) + 1] = BagOf(s)[k + 1]
    <3>1. d < n
      BY <1>1
    <3> QED BY <1>5, <2>1, <3>1
  <2>4. BagOf(w)[k + 1] = merge_peaks(BagOf(w)[(k + 1) + 1], w[k + 1])
    BY <1>2, <2>2
  <2>5. BagOf(s)[k] = merge_peaks(BagOf(s)[k + 1], s[k])
    BY <1>3, <2>1
  <2>6. BagOf(w)[k + 1] = BagOf(s)[k]
    BY <1>1, <2>3, <2>4, <2>5
  <2> QED BY <2>1, <2>6
<1>6. Nat \subseteq S
  <2> HIDE DEF S
  <2> QED BY <1>4, <1>5, SetInduction
<1>7. BagOf(w)[2] = BagOf(s)[1]
  <2>1. n - 1 \in Nat /\ n - 1 < n /\ n - (n - 1) = 1 /\ 1 + 1 = 2
    BY <1>1
  <2>2. n - 1 \in S
    BY <1>6, <2>1
  <2>3. BagOf(w)[(n - (n - 1)) + 1] = BagOf(s)[n - (n - 1)]
    BY <2>1, <2>2
  <2> QED BY <2>1, <2>3
<1>8. BagOf(w)[1] = merge_peaks(BagOf(w)[2], x)
  <2>1. 1 \in 1..(n + 1) /\ 1 # n + 1 /\ 1 + 1 = 2
    BY <1>1
  <2> QED BY <1>1, <1>2, <2>1
<1>9. bag_rhs_peaks(w) = merge_peaks(bag_rhs_peaks(s), x)
  BY <1>2, <1>3, <1>7, <1>8
<1> QED BY <1>1, <1>9 DEF w

\* What Bags is, height by height.
LEMMA BagsDefined ==
  ASSUME NEW leaves \in Seq(Item)
  PROVE  /\ Bags(leaves)[0] = None
         /\ \A h \in Nat :
              LET level == Levels(leaves)[h]
                  lower == Bags(leaves)[h]
              IN  Bags(leaves)[h + 1] =
                    IF Len(level) % 2 = 0 THEN lower
                    ELSE IF lower = None THEN level[Len(level)]
                    ELSE merge_peaks(lower, level[Len(level)])
<1> DEFINE I == Item
           T == I \cup {None}
           L(h) == Levels(leaves)[h]
           Up(h, lower) == IF Len(L(h)) % 2 = 0 THEN lower
                           ELSE IF lower = None THEN L(h)[Len(L(h))]
                           ELSE merge_peaks(lower, L(h)[Len(L(h))])
           first == None
           D == Nat
           join == [call \in D \X T |-> IF call[1] = 0 THEN None
                                        ELSE Up(call[1] - 1, call[2])]
           bag == CHOOSE bag : bag = [h \in Nat |->
                    IF h = 0 THEN None
                    ELSE LET level == Levels(leaves)[h - 1]
                             lower == bag[h - 1]
                         IN  IF Len(level) % 2 = 0 THEN lower
                             ELSE IF lower = None THEN level[Len(level)]
                             ELSE merge_peaks(lower, level[Len(level)])]
<1>1. \A h \in Nat : L(h) \in Seq(I)
  BY LevelsDefined
<1>2. ASSUME NEW h \in Nat, NEW lower \in T PROVE Up(h, lower) \in T
  <2>1. CASE Len(L(h)) % 2 = 0
    BY <2>1
  <2>2. CASE Len(L(h)) % 2 # 0
    <3>1. L(h)[Len(L(h))] \in I
      <4>1. L(h) \in Seq(I)
        BY <1>1
      <4> HIDE DEF I, L
      <4>2. Len(L(h)) \in Nat
        BY <4>1
      <4>3. Len(L(h)) # 0
        <5>1. 0 % 2 = 0
          OBVIOUS
        <5> QED BY <2>2, <5>1
      <4>4. Len(L(h)) \in 1..Len(L(h))
        BY <4>2, <4>3
      <4> QED BY <4>1, <4>4
    <3>2. lower # None => merge_peaks(lower, L(h)[Len(L(h))]) \in I
      BY <3>1, MergeIsItem DEF merge_peaks
    <3> HIDE DEF I, L
    <3> QED BY <2>2, <3>1, <3>2
  <2> QED BY <2>1, <2>2
<1>3. join \in [D \X T -> T]
  <2>1. ASSUME NEW h \in D, NEW lower \in T
        PROVE  (IF h = 0 THEN None ELSE Up(h - 1, lower)) \in T
    <3>1. h # 0 => h - 1 \in Nat
      OBVIOUS
    <3>2. None \in T
      OBVIOUS
    <3> HIDE DEF T, Up
    <3> QED BY <1>2, <3>1, <3>2
  <2> HIDE DEF T, Up, D
  <2> QED BY <2>1
<1>4. PICK f \in [D -> T] : Steps(f, D, first, join)
  <2>1. D \subseteq Nat /\ 0 \in D /\ \A n \in D \ {0} : n - 1 \in D
    OBVIOUS
  <2>2. first \in T
    OBVIOUS
  <2> HIDE DEF T, D, join, first
  <2> QED BY <1>3, <2>1, <2>2, StepsExist
<1>5. \A h \in Nat : f[h] = IF h = 0 THEN None ELSE Up(h - 1, f[h - 1])
  <2> TAKE h \in Nat
  <2>1. f[h] = IF h = 0 THEN None ELSE join[<<h, f[h - 1]>>]
    <3>1. h \in D
      OBVIOUS
    <3> HIDE DEF T, D, join
    <3> QED BY <1>4, <3>1 DEF Steps
  <2>2. CASE h = 0
    BY <2>1, <2>2
  <2>3. CASE h # 0
    <3>1. h \in D /\ h - 1 \in D
      BY <2>3
    <3>2. f[h - 1] \in T
      <4> HIDE DEF T, D
      <4> QED BY <3>1
    <3>3. join[<<h, f[h - 1]>>] = Up(h - 1, f[h - 1])
      <4> HIDE DEF T, D, Up
      <4> QED BY <2>3, <3>1, <3>2
    <3> HIDE DEF join, Up
    <3> QED BY <2>1, <2>3, <3>3
  <2> QED BY <2>2, <2>3
<1>6. Bags(leaves) = bag
  BY DEF Bags
<1>7. bag = [h \in Nat |-> IF h = 0 THEN None ELSE Up(h - 1, bag[h - 1])]
  <2>1. f = [h \in Nat |-> IF h = 0 THEN None ELSE Up(h - 1, f[h - 1])]
    <3> HIDE DEF T, Up
    <3> QED BY <1>5
  <2> QED BY <2>1
<1> HIDE DEF bag, Up
<1>8. bag[0] = None
  BY <1>7
<1>9. ASSUME NEW h \in Nat PROVE bag[h + 1] = Up(h, bag[h])
  <2>1. h + 1 \in Nat /\ h + 1 # 0 /\ (h + 1) - 1 = h
    OBVIOUS
  <2> QED BY <1>7, <2>1
<1> QED BY <1>6, <1>8, <1>9 DEF Up

\* The nodes at some positions.
ItemsAt(c, ps) == [k \in DOMAIN ps |-> c[ps[k] + 1]]

\* A position in front is a node in front.
LEMMA ItemInFront ==
  ASSUME NEW c \in Seq(Item), NEW p \in 0..(Len(c) - 1), NEW s \in Seq(0..(Len(c) - 1))
  PROVE  /\ ItemsAt(c, s) \in Seq(Item) /\ Len(ItemsAt(c, s)) = Len(s)
         /\ c[p + 1] \in Item
         /\ ItemsAt(c, <<p>> \o s) = <<c[p + 1]>> \o ItemsAt(c, s)
<1> DEFINE I == Item
           P == 0..(Len(c) - 1)
           items == ItemsAt(c, s)
           l == <<p>> \o s
           x == c[p + 1]
           r == <<x>> \o items
<1>1. c \in Seq(I) /\ Len(c) \in Nat
  <2>1. c \in Seq(I)
    OBVIOUS
  <2> HIDE DEF I
  <2> QED BY <2>1
<1>2. \A q \in P : c[q + 1] \in I
  <2> HIDE DEF I
  <2> QED BY <1>1
<1> HIDE DEF I
<1>3. p \in P /\ x \in I
  BY <1>2
<1>4. s \in Seq(P) /\ Len(s) \in Nat /\ DOMAIN s = 1..Len(s) /\ \A k \in 1..Len(s) : s[k] \in P
  <2>1. s \in Seq(P)
    OBVIOUS
  <2> HIDE DEF P
  <2> QED BY <2>1
<1> HIDE DEF P
<1>5. items = [k \in 1..Len(s) |-> c[s[k] + 1]]
  BY <1>4 DEF ItemsAt
<1>6. items \in Seq(I) /\ Len(items) = Len(s)
  <2>1. items \in [1..Len(s) -> I]
    <3> HIDE DEF items
    <3> QED BY <1>2, <1>4, <1>5
  <2> HIDE DEF items
  <2>2. items \in Seq(I)
    BY <1>4, <2>1
  <2>3. DOMAIN items = 1..Len(s)
    BY <2>1
  <2>4. Len(items) = Len(s)
    BY <1>4, <2>2, <2>3
  <2> QED BY <2>2, <2>4
<1> HIDE DEF items, x
<1>7. /\ Len(l) = 1 + Len(s) /\ l \in Seq(P) /\ l[1] = p
      /\ \A k \in 2..(1 + Len(s)) : l[k] = s[k - 1]
  BY <1>3, <1>4
<1>8. /\ Len(r) = 1 + Len(s) /\ r \in Seq(I) /\ r[1] = x
      /\ \A k \in 2..(1 + Len(s)) : r[k] = items[k - 1]
  BY <1>3, <1>4, <1>6
<1> HIDE DEF l, r
<1>9. ItemsAt(c, l) = [k \in 1..(1 + Len(s)) |-> c[l[k] + 1]]
  <2>1. DOMAIN l = 1..(1 + Len(s))
    BY <1>4, <1>7
  <2> QED BY <2>1 DEF ItemsAt
<1>10. ASSUME NEW k \in 1..(1 + Len(s)) PROVE c[l[k] + 1] = r[k]
  <2>1. CASE k = 1
    BY <1>7, <1>8, <2>1 DEF x
  <2>2. CASE k # 1
    <3>1. k \in 2..(1 + Len(s)) /\ k - 1 \in 1..Len(s)
      BY <1>4, <2>2
    <3>2. l[k] = s[k - 1] /\ r[k] = items[k - 1] /\ items[k - 1] = c[s[k - 1] + 1]
      BY <1>5, <1>7, <1>8, <3>1
    <3> QED BY <3>2
  <2> QED BY <2>1, <2>2
<1>11. r = [k \in 1..(1 + Len(s)) |-> r[k]]
  BY <1>4, <1>8
<1>12. ItemsAt(c, l) = r
  BY <1>9, <1>10, <1>11
<1> QED BY <1>3, <1>6, <1>12 DEF I, items, x, l, r

\* What is bagged of the peaks below some height.
Bagging(c, ps, root) ==
  /\ ps \in Seq(0..(Len(c) - 1))
  /\ IF ps = <<>> THEN root = None
     ELSE root \in Item /\ root = bag_rhs_peaks(ItemsAt(c, ps))

\* A peak in front of some others.
LEMMA BaggingGrows ==
  ASSUME NEW c \in Seq(Item), NEW ps, NEW root, Bagging(c, ps, root),
         NEW p \in 0..(Len(c) - 1)
  PROVE  Bagging(c, <<p>> \o ps,
                 IF root = None THEN c[p + 1] ELSE merge_peaks(root, c[p + 1]))
<1> DEFINE P == 0..(Len(c) - 1)
<1>1. ps \in Seq(P)
  BY DEF Bagging
<1>2. <<p>> \o ps \in Seq(P) /\ <<p>> \o ps # <<>>
  <2>1. p \in P
    OBVIOUS
  <2> HIDE DEF P
  <2>2. <<p>> \o ps \in Seq(P) /\ Len(<<p>> \o ps) = 1 + Len(ps) /\ Len(ps) \in Nat
    BY <1>1, <2>1
  <2>3. Len(<<>>) = 0
    OBVIOUS
  <2>4. 1 + Len(ps) # 0
    BY <2>2
  <2> QED BY <2>2, <2>3, <2>4
<1>3. /\ ItemsAt(c, ps) \in Seq(Item) /\ Len(ItemsAt(c, ps)) = Len(ps)
      /\ c[p + 1] \in Item
      /\ ItemsAt(c, <<p>> \o ps) = <<c[p + 1]>> \o ItemsAt(c, ps)
  BY <1>1, ItemInFront
<1>4. CASE ps = <<>>
  <2>1. root = None
    BY <1>4 DEF Bagging
  <2>2. ItemsAt(c, ps) = <<>>
    BY <1>4 DEF ItemsAt
  <2>3. <<c[p + 1]>> \o <<>> = <<c[p + 1]>>
    OBVIOUS
  <2>4. ItemsAt(c, <<p>> \o ps) = <<c[p + 1]>>
    BY <1>3, <2>2, <2>3
  <2>5. bag_rhs_peaks(ItemsAt(c, <<p>> \o ps)) = c[p + 1]
    BY <1>3, <2>4, OnePeak
  <2> QED BY <1>2, <1>3, <2>1, <2>5 DEF Bagging
<1>5. CASE ps # <<>>
  <2>1. root \in Item /\ root = bag_rhs_peaks(ItemsAt(c, ps))
    BY <1>5 DEF Bagging
  <2>2. root # None
    BY <2>1, NoneAssumption
  <2>3. Len(ItemsAt(c, ps)) > 0
    <3> HIDE DEF P
    <3>1. Len(ps) > 0
      BY <1>1, <1>5
    <3> QED BY <1>3, <3>1
  <2>4. bag_rhs_peaks(<<c[p + 1]>> \o ItemsAt(c, ps))
          = merge_peaks(bag_rhs_peaks(ItemsAt(c, ps)), c[p + 1])
    BY <1>3, <2>3, PeakInFront
  <2>5. merge_peaks(root, c[p + 1]) \in Item
    BY <1>3, <2>1, MergeIsItem DEF merge_peaks
  <2> QED BY <1>2, <1>3, <2>1, <2>2, <2>4, <2>5 DEF Bagging
<1> QED BY <1>4, <1>5

\* The root of a forest: bagging its peaks is pairing its leaves.
LEMMA RootIsBagged ==
  ASSUME NEW c, IsForest(c)
  PROVE  Bagging(c, PeaksIter(Len(c)), Bagged(LeavesOf(c)))
<1>1. PICK m \in Nat : SizeOf(m) = Len(c)
  BY ForestSize DEF IsForest
<1>15. \A k \in Nat : /\ Len(Levels(LeafItems(c, m))[k]) = m \div Pow2[k]
                     /\ m \div Pow2[k] \in Nat
  <2>1. ASSUME NEW k \in Nat
        PROVE  LET level == Levels(LeafItems(c, m))[k]
               IN  /\ level \in Seq(Item)
                   /\ Len(level) = m \div Pow2[k]
                   /\ m \div Pow2[k] \in Nat
                   /\ \A j \in 1..(m \div Pow2[k]) :
                        level[j] = c[RootAt(Pow2[k] * (j - 1), k) + 1]
    BY <1>1, LevelsAre
  <2> QED BY <2>1
<1>2. PICK n \in Nat : n = Len(c) /\ n = SizeOf(m)
  <2>1. SizeOf(m) \in Nat
    BY FinishedHeight
  <2> QED BY <1>1, <2>1
<1>3. c \in Seq(Item)
  BY DEF IsForest, Numbered
<1> DEFINE leaves == LeafItems(c, m)
           bag == Bags(leaves)
           S == {k \in Nat : Bagging(c, Yielded(n, k), bag[k])}
<1>4. LeavesOf(c) = leaves /\ leaves \in Seq(Item) /\ Len(leaves) = m
  <2>1. Numbered(c, NoNumber)
    BY DEF IsForest
  <2> QED BY <1>1, <2>1, LeavesAre, LeafItemsType
<1>5. bag[0] = None
  <2> HIDE DEF leaves
  <2> QED BY <1>4, BagsDefined
<1>6. ASSUME NEW h \in Nat
      PROVE  LET level == Levels(leaves)[h]
                 lower == bag[h]
                 q == m \div Pow2[h]
             IN  /\ q \in Nat
                 /\ q % 2 = 0 => bag[h + 1] = bag[h]
                 /\ q % 2 # 0 => /\ q # 0
                                 /\ bag[h + 1] = IF bag[h] = None THEN level[q]
                                                 ELSE merge_peaks(bag[h], level[q])
  <2> DEFINE level == Levels(leaves)[h]
             q == m \div Pow2[h]
  <2>1. Len(level) = q /\ q \in Nat
    <3> HIDE DEF bag, S, leaves
    <3> QED BY <1>15 DEF leaves
  <2>2. bag[h + 1] = IF Len(level) % 2 = 0 THEN bag[h]
                     ELSE IF bag[h] = None THEN level[Len(level)]
                     ELSE merge_peaks(bag[h], level[Len(level)])
    <3> HIDE DEF leaves
    <3> QED BY <1>4, BagsDefined
  <2>3. q % 2 # 0 => q # 0
    <3>1. 0 % 2 = 0
      OBVIOUS
    <3> HIDE DEF q
    <3> QED BY <3>1
  <2> HIDE DEF level, bag, q
  <2>4. /\ q \in Nat
        /\ q % 2 = 0 => bag[h + 1] = bag[h]
        /\ q % 2 # 0 => /\ q # 0
                        /\ bag[h + 1] = IF bag[h] = None THEN level[q]
                                        ELSE merge_peaks(bag[h], level[q])
    BY <2>1, <2>2, <2>3
  <2> QED BY <2>4 DEF level, bag, q
<1>7. 0 \in S
  <2>1. Yielded(n, 0) = <<>>
    BY ScanSteps
  <2>2. <<>> \in Seq(0..(Len(c) - 1))
    OBVIOUS
  <2> HIDE DEF bag
  <2>3. Bagging(c, Yielded(n, 0), bag[0])
    BY <1>5, <2>1, <2>2 DEF Bagging
  <2> QED BY <2>3
<1>8. ASSUME NEW h \in Nat, h \in S PROVE h + 1 \in S
  <2> DEFINE q == m \div Pow2[h]
             p == RootAt(Pow2[h] * (q - 1), h)
  <2>1. /\ q \in Nat
        /\ q % 2 = 0 => Yield(n, h) = <<>>
        /\ q % 2 # 0 => q # 0 /\ Yield(n, h) = <<p>> /\ p \in 0..(n - 1)
    BY <1>2, PeakOfBit
  <2>2. Yielded(n, h + 1) = Yield(n, h) \o Yielded(n, h)
    BY ScanSteps
  <2>3. Bagging(c, Yielded(n, h), bag[h])
    BY <1>8
  <2>4. \A j \in 1..q : Levels(leaves)[h][j] = c[RootAt(Pow2[h] * (j - 1), h) + 1]
    BY <1>1, LevelsAre
  <2>5. /\ q % 2 = 0 => bag[h + 1] = bag[h]
        /\ q % 2 # 0 => bag[h + 1] = IF bag[h] = None THEN Levels(leaves)[h][q]
                                     ELSE merge_peaks(bag[h], Levels(leaves)[h][q])
    BY <1>6
  <2> HIDE DEF bag, leaves
  <2>6. CASE q % 2 = 0
    <3>1. Yielded(n, h + 1) = Yielded(n, h)
      <4>1. Yielded(n, h) \in Seq(0..(Len(c) - 1))
        BY <2>3 DEF Bagging
      <4> DEFINE P == 0..(Len(c) - 1)
      <4>2. Yielded(n, h) \in Seq(P)
        BY <4>1
      <4> HIDE DEF P, q
      <4>3. <<>> \o Yielded(n, h) = Yielded(n, h)
        BY <4>2
      <4> QED BY <2>1, <2>2, <2>6, <4>3
    <3>2. bag[h + 1] = bag[h]
      BY <2>5, <2>6
    <3> QED BY <2>3, <3>1, <3>2
  <2>7. CASE q % 2 # 0
    <3>1. Yielded(n, h + 1) = <<p>> \o Yielded(n, h) /\ p \in 0..(Len(c) - 1)
      BY <1>2, <2>1, <2>2, <2>7
    <3>2. Levels(leaves)[h][q] = c[p + 1]
      <4>1. q \in 1..q
        <5> HIDE DEF p, q
        <5> QED BY <2>1, <2>7
      <4> QED BY <2>4, <4>1
    <3> HIDE DEF p, q
    <3>3. bag[h + 1] = IF bag[h] = None THEN c[p + 1] ELSE merge_peaks(bag[h], c[p + 1])
      BY <2>5, <2>7, <3>2
    <3>4. Bagging(c, <<p>> \o Yielded(n, h),
                  IF bag[h] = None THEN c[p + 1] ELSE merge_peaks(bag[h], c[p + 1]))
      BY <1>3, <2>3, <3>1, BaggingGrows
    <3>5. Bagging(c, Yielded(n, h + 1), bag[h + 1])
      BY <3>1, <3>3, <3>4
    <3> QED BY <3>5
  <2> QED BY <2>6, <2>7
<1>9. Nat \subseteq S
  <2> HIDE DEF S
  <2> QED BY <1>7, <1>8, SetInduction
<1>10. m \in Nat /\ m <= n
  <2>1. SizeOf(0 + m) \in Nat /\ SizeOf(0) + m <= SizeOf(0 + m)
    <3>1. 0 \in Nat
      OBVIOUS
    <3> QED BY <3>1, SizeGrows
  <2> QED BY <1>2, <2>1, NoLeaves
<1>11. bag[n] = bag[m]
  <2> DEFINE R == {d \in Nat : bag[m + d] = bag[m]}
  <2>1. 0 \in R
    OBVIOUS
  <2>2. ASSUME NEW d \in Nat, d \in R PROVE d + 1 \in R
    <3>1. PICK h \in Nat : h = m + d /\ h + 1 = m + (d + 1) /\ m <= h
      <4>1. m + d \in Nat /\ (m + d) + 1 = m + (d + 1) /\ m <= m + d
        OBVIOUS
      <4> QED BY <4>1
    <3>2. PICK u \in Nat : u = Pow2[h] /\ m < u
      <4>1. h < Pow2[h] /\ Pow2[h] \in Nat
        BY Pow2Grows, Pow2Doubles
      <4> QED BY <3>1, <4>1
    <3>3. m \div u = 0
      BY <3>2
    <3>4. (m \div Pow2[h]) % 2 = 0
      <4>1. 0 % 2 = 0
        OBVIOUS
      <4> QED BY <3>2, <3>3, <4>1
    <3>5. bag[h + 1] = bag[h]
      BY <1>6, <3>4
    <3>6. bag[h] = bag[m]
      <4> HIDE DEF bag
      <4> QED BY <2>2, <3>1
    <3> HIDE DEF bag
    <3> QED BY <3>1, <3>5, <3>6
  <2>3. Nat \subseteq R
    <3> HIDE DEF R
    <3> QED BY <2>1, <2>2, SetInduction
  <2>4. n - m \in Nat /\ m + (n - m) = n
    BY <1>10
  <2> HIDE DEF bag
  <2> QED BY <2>3, <2>4
<1>12. Yielded(n, n) = PeaksIter(n)
  <2>1. n < Pow2[n]
    BY Pow2Grows
  <2> QED BY <2>1, ScanSteps
<1>13. Bagging(c, PeaksIter(n), bag[m])
  <2> HIDE DEF bag
  <2>1. Bagging(c, Yielded(n, n), bag[n])
    BY <1>9
  <2> QED BY <1>11, <1>12, <2>1
<1>14. Bagged(leaves) = bag[m]
  BY <1>4 DEF Bagged
<1> HIDE DEF bag, leaves
<1> QED BY <1>2, <1>4, <1>13, <1>14

-----------------------------------------------------------------------------
(* What the store and the batch hold is a forest.                          *)

\* Where no parent is due the scan yields the peaks, and there are some.
LEMMA PeaksExist ==
  ASSUME NEW n \in Nat \ {0}, H(n) = 0
  PROVE  /\ PeaksIter(n) \in Seq(0..(n - 1)) /\ PeaksIter(n) # <<>>
         /\ PeaksIter(n) = PeaksMMRIVERIter(n - 1)
         /\ \A k \in DOMAIN PeaksIter(n) : PeaksIter(n)[k] \in 0..(n - 1)
<1> DEFINE ps == PeaksMMRIVERIter(n - 1)
<1>1. /\ Row(ps) /\ Nodes(ps) = n /\ Len(ps) \in Nat \ {0} /\ DOMAIN ps = 1..Len(ps)
      /\ ~Due(ps)
      /\ \A k \in 1..Len(ps) : ps[k] \in 0..(n - 1)
  BY PeaksAreRow
<1>2. PeaksIter(n) = ps
  <2> HIDE DEF ps
  <2> QED BY <1>1, RowScan
<1>3. ps # <<>>
  <2> HIDE DEF ps
  <2> QED BY <1>1
<1>4. PeaksIter(n) \in Seq(0..(n - 1))
  BY PeaksIterRange
<1> QED BY <1>1, <1>2, <1>3, <1>4

\* A single node is its own peak.
LEMMA OneNode ==
  ASSUME H(1) = 0
  PROVE  Len(PeaksIter(1)) = 1 /\ DOMAIN PeaksIter(1) = 1..1 /\ PeaksIter(1)[1] = 0
<1> DEFINE ps == PeaksIter(1)
<1>1. ps = PeaksMMRIVERIter(1 - 1) /\ \A k \in DOMAIN ps : ps[k] \in 0..(1 - 1)
  BY PeaksExist
<1>2. Row(ps) /\ Nodes(ps) = 1 /\ Len(ps) \in Nat \ {0} /\ DOMAIN ps = 1..Len(ps)
  BY <1>1, PeaksAreRow
<1> HIDE DEF ps
<1>3. \A k \in 1..Len(ps) : /\ Before(ps, k) \in Nat /\ TreeSize(H(ps[k])) \in Nat \ {0}
                            /\ Before(ps, k + 1) = Before(ps, k) + TreeSize(H(ps[k]))
  BY <1>2, RowTypes
<1>4. Len(ps) = 1
  <2> SUFFICES ASSUME Len(ps) # 1 PROVE FALSE
    OBVIOUS
  <2> DEFINE n == Len(ps) - 1
  <2>1. n \in Nat /\ n \in 1..Len(ps) /\ n + 1 \in 1..Len(ps) /\ n + 1 = Len(ps)
    BY <1>2
  <2> HIDE DEF n
  <2>2. PICK x, y, z \in Nat : /\ x = Before(ps, n) /\ y = Before(ps, n + 1)
                               /\ z = Before(ps, (n + 1) + 1)
                               /\ y > x /\ z > y
    <3>1. /\ Before(ps, n) \in Nat /\ TreeSize(H(ps[n])) \in Nat \ {0}
          /\ Before(ps, n + 1) = Before(ps, n) + TreeSize(H(ps[n]))
      BY <1>3, <2>1
    <3>2. /\ Before(ps, n + 1) \in Nat /\ TreeSize(H(ps[n + 1])) \in Nat \ {0}
          /\ Before(ps, (n + 1) + 1) = Before(ps, n + 1) + TreeSize(H(ps[n + 1]))
      BY <1>3, <2>1
    <3>3. Before(ps, (n + 1) + 1) \in Nat
      BY <3>2
    <3> QED BY <3>1, <3>2, <3>3
  <2>3. z = 1
    BY <1>2, <2>1, <2>2 DEF Nodes
  <2> QED BY <2>2, <2>3
<1>5. DOMAIN ps = 1..1 /\ ps[1] = 0
  BY <1>1, <1>2, <1>4
<1> QED BY <1>4, <1>5 DEF ps

\* The root of a forest is the bag of its peaks.
LEMMA RootOfForest ==
  ASSUME NEW c, IsForest(c), Len(c) # 0
  PROVE  Bagged(LeavesOf(c)) = bag_rhs_peaks(ItemsAt(c, PeaksIter(Len(c))))
<1>1. Len(c) \in Nat \ {0} /\ H(Len(c)) = 0
  BY DEF IsForest, Numbered
<1>2. PeaksIter(Len(c)) # <<>>
  BY <1>1, PeaksExist
<1>3. Bagging(c, PeaksIter(Len(c)), Bagged(LeavesOf(c)))
  BY RootIsBagged
<1> QED BY <1>2, <1>3 DEF Bagging

\* The sizes between two calls are those before a leaf.
LEMMA FinishedIsLeaf ==
  ASSUME NEW size \in FinishedSizes
  PROVE  size \in Nat /\ H(size) = 0
<1>1. CASE size = 0
  BY <1>1, FirstIsLeaf DEF H
<1>2. ASSUME NEW index \in 0..MaxSize, size = leaf_index_to_mmr_size(index)
      PROVE  size \in Nat /\ H(size) = 0
  <2>1. index \in Nat
    BY <1>2, MaxSizeAssumption
  <2>2. leaf_index_to_mmr_size(index) = SizeOf(index + 1) /\ index + 1 \in Nat
    BY <2>1 DEF leaf_index_to_mmr_size, SizeOf
  <2> QED BY <1>2, <2>2, FinishedHeight DEF H
<1> QED BY <1>1, <1>2 DEF FinishedSizes

\* What was pushed, while nothing is in doubt.
LEMMA ContentIsForest ==
  ASSUME NEW at \in [Nat -> Nat], TypeOK, ContentComplete, TreeBuilt(at), intact
  PROVE  Numbered(content, at)
<1>1. content \in Seq(Item) /\ Len(content) = mmr_size
  BY DEF TypeOK, ContentComplete
<1>2. Sound = 0..(Len(content) - 1)
  BY <1>1 DEF Sound
<1> QED BY <1>1, <1>2 DEF Numbered, TreeBuilt, H

LEMMA SubSeqFront ==
  ASSUME NEW T, NEW s \in Seq(T), NEW n \in Nat, n <= Len(s)
  PROVE  /\ SubSeq(s, 1, n) \in Seq(T) /\ Len(SubSeq(s, 1, n)) = n
         /\ \A k \in 1..n : SubSeq(s, 1, n)[k] = s[k]
<1>1. Len(s) \in Nat
  OBVIOUS
<1> QED BY <1>1

\* What was committed, up to a size the application may have on record.
LEMMA PrefixIsForest ==
  ASSUME NEW at \in [Nat -> Nat], TypeOK, ContentComplete, TreeBuilt(at),
         NEW size \in FinishedSizes, size <= durable
  PROVE  /\ Numbered(SubSeq(content, 1, size), at)
         /\ Len(SubSeq(content, 1, size)) = size
         /\ \A k \in 1..size : SubSeq(content, 1, size)[k] = content[k]
<1> DEFINE I == Item
           c == SubSeq(content, 1, size)
<1>1. size \in Nat /\ H(size) = 0
  BY FinishedIsLeaf
<1>2. content \in Seq(I) /\ durable \in Nat /\ durable <= Len(content) /\ Len(content) \in Nat
  BY DEF TypeOK, ContentComplete
<1>3. c \in Seq(I) /\ Len(c) = size /\ \A k \in 1..size : c[k] = content[k]
  <2> HIDE DEF I
  <2>1. PICK s \in Seq(I) : s = content
    BY <1>2
  <2>2. size \in Nat /\ size <= Len(s) /\ Len(s) \in Nat
    BY <1>1, <1>2, <2>1
  <2>3. /\ SubSeq(s, 1, size) \in Seq(I) /\ Len(SubSeq(s, 1, size)) = size
        /\ \A k \in 1..size : SubSeq(s, 1, size)[k] = s[k]
    BY <2>2, SubSeqFront
  <2> QED BY <2>1, <2>3
<1>4. ASSUME NEW p \in 0..(size - 1) PROVE IsNode(c, p, at[p])
  <2>1. p \in Nat /\ p \in 0..(durable - 1)
    BY <1>1, <1>2
  <2>2. p \in Sound
    BY <2>1, <1>2 DEF Sound, ContentComplete
  <2>3. IsNode(content, p, at[p])
    BY <2>2 DEF TreeBuilt
  <2>4. \A k \in 1..(p + 1) : c[k] = content[k]
    BY <1>1, <1>3
  <2> HIDE DEF c
  <2> QED BY <2>1, <2>3, <2>4, NodeKept
<1> QED BY <1>1, <1>3, <1>4 DEF Numbered

LEMMA NoNumberType == NoNumber \in [Nat -> Nat]
BY DEF NoNumber

LEMMA MMRTreeHolds == Spec => [](IInv /\ MMRTree)
<1>1. Init => MMRTree
  BY TreeInit DEF MMRTree, Init
<1>2. IInv /\ IInv' /\ MMRTree /\ [Next]_vars => MMRTree'
  BY MMRTreeStep
<1> QED BY <1>1, <1>2, InvariantHolds, PTL DEF Spec

\* Both lookups read what was pushed.
LEMMA ReadsContent ==
  ASSUME TypeOK, ContentComplete, Held, intact, NEW p \in 0..(mmr_size - 1)
  PROVE  /\ get_elem(p) = content[p + 1] /\ get_elems(p) = content[p + 1]
         /\ content[p + 1] \in Item
<1>1. get_elem(p) = content[p + 1]
  BY BatchOrStore DEF ReadYourWrites
<1>2. p \in 0..mmr_size
  BY DEF TypeOK
<1>3. get_elem(p) = get_elems(p)
  BY <1>2, BothLookups DEF SameLookup
<1>4. content[p + 1] \in Item
  BY ContentIsItem
<1> QED BY <1>1, <1>3, <1>4

-----------------------------------------------------------------------------
(* The theorems.                                                           *)

\* Every node that push puts into the MMR is at its place: positions, sizes and
\* hashes are those of the mountains over the leaves pushed so far, at each
\* moment and also after a rollback over a store with older entries in it.
THEOREM TreeInShape == Spec => []TreeShape
<1>1. IInv /\ MMRTree => TreeShape
  <2> SUFFICES ASSUME IInv, MMRTree, intact PROVE content = Layout(LeavesOf(content))
    BY DEF TreeShape
  <2>1. IsForest(content)
    BY ContentIsForest, NoNumberType DEF IInv, MMRTree, IsForest
  <2> QED BY <2>1, LayoutIsForest
<1> QED BY <1>1, MMRTreeHolds, PTL

\* get_root is the bagged root of exactly the leaves pushed so far, whether the
\* peaks it reads are in the batch, in the store or some in each.
THEOREM RootIsCorrect == Spec => []RootCorrect
<1>1. IInv /\ MMRTree => RootCorrect
  <2> SUFFICES ASSUME IInv, MMRTree, intact PROVE get_root = Bagged(LeavesOf(content))
    BY DEF RootCorrect
  <2>1. IsForest(content)
    BY ContentIsForest, NoNumberType DEF IInv, MMRTree, IsForest
  <2>2. Len(content) = mmr_size /\ mmr_size \in Nat /\ H(mmr_size) = 0
    BY <2>1 DEF IInv, TypeOK, ContentComplete, IsForest, Numbered
  <2> DEFINE peaks == PeaksIter(mmr_size)
             items == [k \in DOMAIN peaks |-> get_elems(peaks[k])]
  <2>3. CASE mmr_size = 0
    <3>1. Bagging(content, PeaksIter(0), Bagged(LeavesOf(content)))
      BY <2>1, <2>2, <2>3, RootIsBagged
    <3>2. PeaksIter(0) = <<>>
      <4>1. PeaksIter(0) \in Seq(0..(0 - 1))
        BY PeaksIterRange
      <4>2. 0..(0 - 1) = {}
        OBVIOUS
      <4> QED BY <4>1, <4>2
    <3>3. get_root = None
      BY <2>3 DEF get_root
    <3> QED BY <3>1, <3>2, <3>3 DEF Bagging
  <2>4. CASE mmr_size # 0
    <3>1. Bagged(LeavesOf(content)) = bag_rhs_peaks(ItemsAt(content, peaks))
      BY <2>1, <2>2, <2>4, RootOfForest
    <3>2. \A k \in DOMAIN peaks : peaks[k] \in 0..(mmr_size - 1)
      BY <2>2, <2>4, PeaksExist
    <3>3. \A k \in DOMAIN peaks : /\ get_elems(peaks[k]) = content[peaks[k] + 1]
                                  /\ content[peaks[k] + 1] \in Item
      <4> HIDE DEF peaks
      <4> QED BY <3>2, ReadsContent DEF IInv, Held
    <3>4. items = ItemsAt(content, peaks)
      <4> HIDE DEF peaks
      <4> QED BY <3>3 DEF ItemsAt
    <3>5. CASE mmr_size = 1
      <4>1. get_elem(0) = content[1] /\ content[1] \in Item
        <5>1. 0 \in 0..(mmr_size - 1) /\ 0 + 1 = 1
          BY <3>5
        <5> QED BY <5>1, ReadsContent DEF IInv, Held
      <4>2. ItemsAt(content, peaks) = <<content[1]>>
        <5>1. DOMAIN peaks = 1..1 /\ peaks[1] = 0
          BY <2>2, <3>5, OneNode
        <5> HIDE DEF peaks
        <5>2. ItemsAt(content, peaks) = [k \in 1..1 |-> content[1]]
          BY <5>1 DEF ItemsAt
        <5> QED BY <5>2
      <4>3. get_root = get_elem(0)
        BY <3>5 DEF get_root
      <4> QED BY <3>1, <4>1, <4>2, <4>3, OnePeak
    <3>6. CASE mmr_size # 1
      <4>1. ~\E k \in DOMAIN items : items[k] = None
        <5> HIDE DEF peaks
        <5> QED BY <3>3, NoneAssumption
      <4>2. get_root = bag_rhs_peaks(items)
        BY <2>4, <3>6, <4>1 DEF get_root
      <4> QED BY <3>1, <3>4, <4>2
    <3> QED BY <3>5, <3>6
  <2> QED BY <2>3, <2>4
<1> QED BY <1>1, MMRTreeHolds, PTL

\* Opening the store at any size the application may have on record gives the
\* root that the MMR had at that size, whatever was pushed, lost or half written
\* since.
THEOREM RecoveredRootIsCorrect == Spec => []RecoveredRootCorrect
<1>1. IInv /\ MMRTree => RecoveredRootCorrect
  <2> SUFFICES ASSUME IInv, MMRTree, NEW size \in FinishedSizes \ {0}, size <= durable
               PROVE  RootIfOpenedAt(size) = Bagged(LeavesOf(SubSeq(content, 1, size)))
    BY DEF RecoveredRootCorrect
  <2> DEFINE c == SubSeq(content, 1, size)
             peaks == PeaksIter(size)
  <2>1. size \in Nat \ {0} /\ H(size) = 0
    BY FinishedIsLeaf
  <2>2. Numbered(c, NoNumber) /\ Len(c) = size /\ \A k \in 1..size : c[k] = content[k]
    BY PrefixIsForest, NoNumberType DEF IInv, MMRTree
  <2>3. Bagged(LeavesOf(c)) = bag_rhs_peaks(ItemsAt(c, peaks))
    <3> HIDE DEF c
    <3> QED BY <2>1, <2>2, RootOfForest DEF IsForest
  <2>4. \A k \in DOMAIN peaks : peaks[k] \in 0..(size - 1)
    BY <2>1, PeaksExist
  <2> HIDE DEF c, peaks
  <2>5. ASSUME NEW p \in 0..(size - 1) PROVE StoreGet(p) = c[p + 1] /\ c[p + 1] \in Item
    <3>1. p \in 0..(durable - 1) /\ p + 1 \in 1..size
      BY <2>1 DEF IInv, TypeOK
    <3>2. StoreGet(p) = content[p + 1]
      BY <3>1 DEF IInv, DurablePrefix
    <3>3. p \in 0..(mmr_size - 1)
      BY <3>1 DEF IInv, TypeOK, ContentComplete
    <3>4. content[p + 1] \in Item
      BY <3>3, ContentIsItem DEF IInv
    <3> QED BY <2>2, <3>1, <3>2, <3>4
  <2>6. /\ ~\E k \in DOMAIN peaks : StoreGet(peaks[k]) = None
        /\ [k \in DOMAIN peaks |-> StoreGet(peaks[k])] = ItemsAt(c, peaks)
    <3>1. \A k \in DOMAIN peaks : /\ StoreGet(peaks[k]) = c[peaks[k] + 1]
                                  /\ c[peaks[k] + 1] \in Item
      BY <2>4, <2>5
    <3> QED BY <3>1, NoneAssumption DEF ItemsAt
  <2>7. RootIfOpenedAt(size) = bag_rhs_peaks(ItemsAt(c, peaks))
    BY <2>6 DEF RootIfOpenedAt, peaks
  <2> QED BY <2>3, <2>7 DEF c
<1> QED BY <1>1, MMRTreeHolds, PTL

=============================================================================
