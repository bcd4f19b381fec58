--------------------------- MODULE PositionsProofs ---------------------------
(***************************************************************************)
(* What the position arithmetic of module Positions returns, for every     *)
(* argument: where its loops end, and the ranges of their results; then    *)
(* heights and families of nodes.                                          *)
(***************************************************************************)
EXTENDS Positions, SequenceTheorems, FiniteSetTheorems, WellFoundedInduction, TLAPS

-----------------------------------------------------------------------------
(* Induction and recursion for functions whose values are computed by a    *)
(* loop.  Nothing here takes an operator: predicates are sets, and a loop  *)
(* is given by functions on its states.                                    *)

\* A nonempty set of natural numbers has a least element.
LEMMA LeastNat ==
  ASSUME NEW S \in SUBSET Nat, S # {}
  PROVE  \E least \in S : \A n \in S : least <= n
<1>1. PICK least \in S : \A n \in S : ~ (<<n, least>> \in OpToRel(<, Nat))
  BY NatLessThanWellFounded, WFMin
<1>2. \A n \in S : ~ (n < least)
  BY <1>1 DEF OpToRel
<1> QED BY <1>2

\* Induction, for the set S of the numbers that have a property.
LEMMA SetInduction ==
  ASSUME NEW S, 0 \in S, \A n \in Nat : n \in S => n + 1 \in S
  PROVE  Nat \subseteq S
<1> SUFFICES ASSUME Nat \ S # {} PROVE FALSE
  OBVIOUS
<1>1. PICK least \in Nat \ S : \A n \in Nat \ S : least <= n
  BY LeastNat
<1>2. least # 0 /\ least - 1 \in Nat
  BY <1>1
<1>3. least - 1 \in S
  BY <1>1, <1>2
<1> QED BY <1>1, <1>2, <1>3

\* A loop over states D.  It ends in the states of stop, with the result that exit
\* gives; elsewhere it goes on in the next state, and join makes its result of the
\* result there.
Loop(f, D, stop, next, exit, join) ==
  \A x \in D : f[x] = IF x \in stop THEN exit[x] ELSE join[<<x, f[next[x]]>>]

IsLoop(D, S, stop, next, exit, join, rank) ==
  /\ next \in [D -> D]
  /\ exit \in [D -> S]
  /\ join \in [D \X S -> S]
  /\ rank \in [D -> Nat]
  /\ \A x \in D \ stop : rank[next[x]] < rank[x]

\* If every iteration lowers a natural number, there is a function that gives the
\* result of the loop for every state.
THEOREM LoopHasResult ==
  ASSUME NEW D, NEW S, NEW stop, NEW next, NEW exit, NEW join, NEW rank,
         IsLoop(D, S, stop, next, exit, join, rank)
  PROVE  \E f \in [D -> S] : Loop(f, D, stop, next, exit, join)
<1> USE DEF IsLoop
<1> DEFINE Below(n) == {x \in D : rank[x] < n}
           Value(f, x) == IF x \in stop THEN exit[x] ELSE join[<<x, f[next[x]]>>]
           Results(n) == {f \in [Below(n) -> S] : \A x \in Below(n) : f[x] = Value(f, x)}
           Reached == {n \in Nat : Results(n) # {}}
\* All partial results agree where they are both defined.
<1>1. ASSUME NEW m \in Nat, NEW n \in Nat, NEW f \in Results(m), NEW h \in Results(n),
             NEW x \in Below(m), x \in Below(n)
      PROVE  f[x] = h[x]
  <2> DEFINE Bad == {rank[y] : y \in {z \in D : rank[z] < m /\ rank[z] < n /\ f[z] # h[z]}}
  <2> SUFFICES ASSUME f[x] # h[x] PROVE FALSE
    OBVIOUS
  <2>0. rank[x] \in Bad
    BY <1>1
  <2>1. PICK least \in Bad : \A k \in Bad : least <= k
    <3>1. Bad \in SUBSET Nat
      OBVIOUS
    <3> HIDE DEF Bad
    <3> QED BY <2>0, <3>1, LeastNat
  <2>2. PICK y \in D : rank[y] = least /\ rank[y] < m /\ rank[y] < n /\ f[y] # h[y]
    BY <2>1
  <2>3. y \in Below(m) /\ y \in Below(n)
    BY <2>2
  <2>4. f[y] = Value(f, y) /\ h[y] = Value(h, y)
    BY <2>3
  <2>5. y \notin stop
    BY <2>2, <2>4
  <2>6. next[y] \in D /\ rank[next[y]] < rank[y]
    BY <2>5
  <2>7. f[next[y]] = h[next[y]]
    <3> SUFFICES ASSUME f[next[y]] # h[next[y]] PROVE FALSE
      OBVIOUS
    <3>1. rank[next[y]] \in Nat /\ rank[y] \in Nat
      BY <2>6
    <3>2. rank[next[y]] < m /\ rank[next[y]] < n
      BY <2>2, <2>6, <3>1
    <3>3. rank[next[y]] \in Bad
      BY <2>6, <3>2
    <3> HIDE DEF Bad
    <3> QED BY <2>1, <2>2, <2>6, <3>1, <3>3
  <2> QED BY <2>2, <2>4, <2>5, <2>7
<1>2. Nat \subseteq Reached
  <2>1. 0 \in Reached
    <3>1. Below(0) = {}
      OBVIOUS
    <3> DEFINE empty == [x \in {} |-> exit[x]]
    <3>2. empty \in Results(0)
      BY <3>1
    <3> HIDE DEF Results, empty
    <3> QED BY <3>2
  <2>2. ASSUME NEW n \in Nat, n \in Reached PROVE n + 1 \in Reached
    <3>1. PICK f : f \in Results(n)
      BY <2>2
    <3> DEFINE h == [x \in Below(n + 1) |-> Value(f, x)]
    <3>2. \A x \in Below(n + 1) : x \notin stop => next[x] \in Below(n)
      OBVIOUS
    <3>3. \A x \in Below(n + 1) : Value(f, x) \in S
      <4> TAKE x \in Below(n + 1)
      <4>1. CASE x \in stop
        BY <4>1
      <4>2. CASE x \notin stop
        <5>1. f[next[x]] \in S
          BY <3>1, <3>2, <4>2
        <5> QED BY <4>2, <5>1
      <4> QED BY <4>1, <4>2
    <3>4. \A x \in Below(n) : h[x] = f[x] /\ x \in Below(n + 1)
      BY <3>1
    <3>5. \A x \in Below(n + 1) : Value(f, x) = Value(h, x)
      BY <3>2, <3>4
    <3>6. h \in Results(n + 1)
      <4>1. h \in [Below(n + 1) -> S]
        BY <3>3
      <4>2. \A x \in Below(n + 1) : h[x] = Value(f, x)
        OBVIOUS
      <4> HIDE DEF h
      <4> QED BY <3>5, <4>1, <4>2
    <3> HIDE DEF Results
    <3> QED BY <3>6
  <2> HIDE DEF Reached
  <2> QED BY <2>1, <2>2, SetInduction
<1> DEFINE Part(n) == CHOOSE f : f \in Results(n)
           F == [x \in D |-> Part(rank[x] + 1)[x]]
<1>3. \A n \in Nat : Part(n) \in Results(n)
  <2> TAKE n \in Nat
  <2>1. Results(n) # {}
    BY <1>2
  <2> HIDE DEF Results
  <2> QED BY <2>1
<1>4. ASSUME NEW n \in Nat, NEW x \in Below(n) PROVE F[x] = Part(n)[x]
  <2>1. rank[x] + 1 \in Nat /\ x \in Below(rank[x] + 1)
    OBVIOUS
  <2>2. Part(n) \in Results(n) /\ Part(rank[x] + 1) \in Results(rank[x] + 1)
    BY <1>3, <2>1
  <2>3. F[x] = Part(rank[x] + 1)[x]
    OBVIOUS
  <2> HIDE DEF Part, F, Results, Below
  <2> QED BY <1>1, <2>1, <2>2, <2>3
<1>5. ASSUME NEW x \in D PROVE F[x] \in S /\ F[x] = Value(F, x)
  <2> DEFINE n == rank[x] + 1
  <2>1. n \in Nat /\ x \in Below(n)
    OBVIOUS
  <2>2. Part(n) \in Results(n)
    BY <1>3, <2>1
  <2>3. F[x] = Part(n)[x]
    BY <1>4, <2>1
  <2>4. Part(n)[x] \in S /\ Part(n)[x] = Value(Part(n), x)
    <3> HIDE DEF Part, n
    <3> QED BY <2>1, <2>2
  <2>5. x \notin stop => F[next[x]] = Part(n)[next[x]]
    <3> SUFFICES ASSUME x \notin stop PROVE F[next[x]] = Part(n)[next[x]]
      OBVIOUS
    <3>1. next[x] \in Below(n)
      OBVIOUS
    <3> HIDE DEF F, Part, n, Below
    <3> QED BY <1>4, <2>1, <3>1
  <2> HIDE DEF F, Part, n
  <2> QED BY <2>3, <2>4, <2>5
<1>6. F \in [D -> S] /\ Loop(F, D, stop, next, exit, join)
  <2>1. F \in [D -> S]
    <3>1. \A x \in D : F[x] \in S
      BY <1>5
    <3> HIDE DEF Part
    <3> QED BY <3>1
  <2>2. Loop(F, D, stop, next, exit, join)
    <3> HIDE DEF F
    <3> QED BY <1>5 DEF Loop
  <2> QED BY <2>1, <2>2
<1> HIDE DEF F
<1> QED BY <1>6

-----------------------------------------------------------------------------
(* Loops that collect a sequence.                                          *)

\* Each iteration puts its part before what the rest of the loop collects.
Collects(f, D, stop, next, part) ==
  \A x \in D : f[x] = IF x \in stop THEN <<>> ELSE part[x] \o f[next[x]]

IsCollection(D, T, stop, next, part, rank) ==
  /\ next \in [D -> D]
  /\ part \in [D -> Seq(T)]
  /\ rank \in [D -> Nat]
  /\ \A x \in D \ stop : rank[next[x]] < rank[x]

\* A loop that ends collects a sequence for every state.
LEMMA CollectionExists ==
  ASSUME NEW D, NEW T, NEW stop, NEW next, NEW part, NEW rank,
         IsCollection(D, T, stop, next, part, rank)
  PROVE  \E f \in [D -> Seq(T)] : Collects(f, D, stop, next, part)
<1> USE DEF IsCollection
<1> DEFINE S == Seq(T)
           exit == [x \in D |-> <<>>]
           join == [call \in D \X S |-> part[call[1]] \o call[2]]
<1>1. IsLoop(D, S, stop, next, exit, join, rank)
  <2>1. exit \in [D -> S]
    OBVIOUS
  <2>2. join \in [D \X S -> S]
    <3>1. \A call \in D \X S : part[call[1]] \o call[2] \in S
      BY ConcatProperties
    <3> HIDE DEF S
    <3> QED BY <3>1
  <2> HIDE DEF S, exit, join
  <2> QED BY <2>1, <2>2 DEF IsLoop
<1>2. PICK f \in [D -> S] : Loop(f, D, stop, next, exit, join)
  <2> HIDE DEF S, exit, join
  <2> QED BY <1>1, LoopHasResult
<1>3. \A x \in D : f[x] = IF x \in stop THEN <<>> ELSE part[x] \o f[next[x]]
  <2> TAKE x \in D
  <2>1. f[x] = IF x \in stop THEN exit[x] ELSE join[<<x, f[next[x]]>>]
    <3> HIDE DEF S, exit, join
    <3> QED BY <1>2 DEF Loop
  <2>2. <<x, f[next[x]]>> \in D \X S
    <3> HIDE DEF S
    <3> QED OBVIOUS
  <2>3. join[<<x, f[next[x]]>>] = part[x] \o f[next[x]]
    <3> HIDE DEF S
    <3> QED BY <2>2
  <2> HIDE DEF join
  <2> QED BY <2>1, <2>3
<1> QED BY <1>3 DEF Collects

\* Nothing else satisfies the equation of such a loop, so whatever does collects
\* elements of T.
LEMMA CollectionRange ==
  ASSUME NEW D, NEW T, NEW stop, NEW next, NEW part, NEW rank,
         IsCollection(D, T, stop, next, part, rank),
         NEW h, Collects(h, D, stop, next, part)
  PROVE  \A x \in D : h[x] \in Seq(T)
<1> USE DEF IsCollection
<1>1. PICK f \in [D -> Seq(T)] : Collects(f, D, stop, next, part)
  BY CollectionExists
<1>2. \A x \in D : h[x] = f[x]
  <2> DEFINE Bad == {rank[x] : x \in {y \in D : h[y] # f[y]}}
  <2> SUFFICES ASSUME NEW x \in D, h[x] # f[x] PROVE FALSE
    OBVIOUS
  <2>1. PICK least \in Bad : \A n \in Bad : least <= n
    <3>1. Bad \in SUBSET Nat /\ rank[x] \in Bad
      OBVIOUS
    <3> HIDE DEF Bad
    <3> QED BY <3>1, LeastNat
  <2>2. PICK y \in D : rank[y] = least /\ h[y] # f[y]
    BY <2>1
  <2>3. y \notin stop
    BY <1>1, <2>2 DEF Collects
  <2>4. next[y] \in D /\ rank[next[y]] < rank[y]
    BY <2>3
  <2>5. rank[next[y]] \in Nat /\ rank[y] \in Nat
    BY <2>4
  <2>6. rank[next[y]] \notin Bad
    <3> HIDE DEF Bad
    <3> QED BY <2>1, <2>2, <2>4, <2>5
  <2>7. h[next[y]] = f[next[y]]
    BY <2>4, <2>6
  <2> QED BY <1>1, <2>2, <2>3, <2>7 DEF Collects
<1> QED BY <1>1, <1>2

-----------------------------------------------------------------------------
(* Powers of two and bit lengths.                                          *)

\* 1 << k is defined for every k, and doubles with k.
LEMMA Pow2Doubles ==
  /\ Pow2 \in [Nat -> Nat \ {0}]
  /\ Pow2[0] = 1
  /\ \A k \in Nat : Pow2[k + 1] = 2 * Pow2[k]
<1> DEFINE Positive == Nat \ {0}
           stop == {0}
           next == [k \in Nat |-> IF k = 0 THEN 0 ELSE k - 1]
           exit == [k \in Nat |-> 1]
           join == [call \in Nat \X Positive |-> 2 * call[2]]
           rank == [k \in Nat |-> k]
<1>1. IsLoop(Nat, Positive, stop, next, exit, join, rank)
  <2>1. next \in [Nat -> Nat] /\ exit \in [Nat -> Positive] /\ rank \in [Nat -> Nat]
    OBVIOUS
  <2>2. join \in [Nat \X Positive -> Positive]
    OBVIOUS
  <2>3. \A k \in Nat \ stop : rank[next[k]] < rank[k]
    OBVIOUS
  <2> HIDE DEF Positive, stop, next, exit, join, rank
  <2> QED BY <2>1, <2>2, <2>3 DEF IsLoop
<1>2. PICK f \in [Nat -> Positive] : Loop(f, Nat, stop, next, exit, join)
  <2> HIDE DEF Positive, stop, next, exit, join, rank
  <2> QED BY <1>1, LoopHasResult
<1>3. \A k \in Nat : f[k] = IF k = 0 THEN 1 ELSE 2 * f[k - 1]
  <2> TAKE k \in Nat
  <2>1. f[k] = IF k \in stop THEN exit[k] ELSE join[<<k, f[next[k]]>>]
    <3> HIDE DEF stop, next, exit, join, rank
    <3> QED BY <1>2 DEF Loop
  <2>2. CASE k = 0
    BY <2>1, <2>2
  <2>3. CASE k # 0
    <3>1. <<k, f[next[k]]>> \in Nat \X Positive
      BY <2>3
    <3>2. join[<<k, f[next[k]]>>] = 2 * f[next[k]]
      BY <3>1
    <3> QED BY <2>1, <2>3, <3>2
  <2> QED BY <2>2, <2>3
<1>4. f = [k \in Nat |-> IF k = 0 THEN 1 ELSE 2 * f[k - 1]]
  BY <1>3
<1>5. Pow2 = [k \in Nat |-> IF k = 0 THEN 1 ELSE 2 * Pow2[k - 1]]
  BY <1>4 DEF Pow2
<1>6. \A k \in Nat : Pow2[k] = IF k = 0 THEN 1 ELSE 2 * Pow2[k - 1]
  BY <1>5
<1>7. \A k \in Nat : Pow2[k] \in Positive
  <2> DEFINE P == {k \in Nat : Pow2[k] \in Positive}
  <2>1. 0 \in P
    BY <1>6
  <2>2. \A k \in Nat : k \in P => k + 1 \in P
    BY <1>6
  <2> HIDE DEF P
  <2>3. Nat \subseteq P
    BY <2>1, <2>2, SetInduction
  <2> QED BY <2>3 DEF P
<1>8. DOMAIN Pow2 = Nat
  BY <1>5
<1>9. Pow2 \in [Nat -> Positive]
  BY <1>5, <1>7
<1> QED BY <1>6, <1>9

\* Powers of two grow, faster than their exponents.
LEMMA Pow2Grows ==
  /\ \A k \in Nat : k < Pow2[k]
  /\ \A j, k \in Nat : j <= k => Pow2[j] <= Pow2[k]
<1>1. \A k \in Nat : Pow2[k] \in Nat \ {0}
  BY Pow2Doubles
<1>2. \A k \in Nat : k < Pow2[k]
  <2> DEFINE P == {k \in Nat : k < Pow2[k]}
  <2>1. 0 \in P
    BY Pow2Doubles
  <2>2. \A k \in Nat : k \in P => k + 1 \in P
    <3> TAKE k \in Nat
    <3> HAVE k \in P
    <3>1. Pow2[k + 1] = 2 * Pow2[k] /\ k < Pow2[k]
      BY Pow2Doubles
    <3> QED BY <1>1, <3>1
  <2> HIDE DEF P
  <2>3. Nat \subseteq P
    BY <2>1, <2>2, SetInduction
  <2> QED BY <2>3 DEF P
<1>3. ASSUME NEW j \in Nat PROVE \A d \in Nat : Pow2[j] <= Pow2[j + d]
  <2> DEFINE P == {d \in Nat : Pow2[j] <= Pow2[j + d]}
  <2>1. 0 \in P
    BY <1>1
  <2>2. \A d \in Nat : d \in P => d + 1 \in P
    <3> TAKE d \in Nat
    <3> HAVE d \in P
    <3>1. j + d \in Nat /\ j + (d + 1) = (j + d) + 1
      OBVIOUS
    <3>2. Pow2[j + (d + 1)] = 2 * Pow2[j + d]
      BY <3>1, Pow2Doubles
    <3>3. Pow2[j] <= Pow2[j + d]
      OBVIOUS
    <3>4. Pow2[j] \in Nat /\ Pow2[j + d] \in Nat
      BY <1>1, <3>1
    <3> QED BY <3>2, <3>3, <3>4
  <2> HIDE DEF P
  <2>3. Nat \subseteq P
    BY <2>1, <2>2, SetInduction
  <2> QED BY <2>3 DEF P
<1>4. ASSUME NEW j \in Nat, NEW k \in Nat, j <= k PROVE Pow2[j] <= Pow2[k]
  <2>1. k - j \in Nat /\ j + (k - j) = k
    BY <1>4
  <2> QED BY <1>3, <2>1
<1> QED BY <1>2, <1>4

\* BitLength finds the power of two just above n.
LEMMA BitLengthBounds ==
  ASSUME NEW n \in Nat
  PROVE  /\ BitLength(n) \in 0..n
         /\ n < Pow2[BitLength(n)]
         /\ n > 0 => BitLength(n) > 0 /\ Pow2[BitLength(n) - 1] <= n
<1> DEFINE D == 0..n
           stop == {0}
           next == [m \in D |-> m \div 2]
           exit == [m \in D |-> 0]
           join == [call \in D \X Nat |-> call[2] + 1]
           rank == [m \in D |-> m]
<1>1. \A m \in D : m \div 2 \in D /\ 2 * (m \div 2) <= m /\ m <= 2 * (m \div 2) + 1
  OBVIOUS
<1>2. \A m \in D \ stop : m \div 2 < m
  OBVIOUS
<1>3. IsLoop(D, Nat, stop, next, exit, join, rank)
  <2>1. next \in [D -> D] /\ exit \in [D -> Nat] /\ rank \in [D -> Nat]
    BY <1>1
  <2>2. join \in [D \X Nat -> Nat]
    OBVIOUS
  <2>3. \A m \in D \ stop : rank[next[m]] < rank[m]
    BY <1>1, <1>2
  <2> HIDE DEF D, stop, next, exit, join, rank
  <2> QED BY <2>1, <2>2, <2>3 DEF IsLoop
<1>4. PICK f \in [D -> Nat] : Loop(f, D, stop, next, exit, join)
  <2> HIDE DEF D, stop, next, exit, join, rank
  <2> QED BY <1>3, LoopHasResult
<1>5. \A m \in D : f[m] = IF m = 0 THEN 0 ELSE f[m \div 2] + 1
  <2> TAKE m \in D
  <2>1. f[m] = IF m \in stop THEN exit[m] ELSE join[<<m, f[next[m]]>>]
    <3> HIDE DEF D, stop, next, exit, join, rank
    <3> QED BY <1>4 DEF Loop
  <2>2. CASE m = 0
    BY <2>1, <2>2
  <2>3. CASE m # 0
    <3>1. next[m] = m \div 2 /\ m \div 2 \in D
      BY <1>1
    <3>2. <<m, f[m \div 2]>> \in D \X Nat
      BY <3>1
    <3>3. join[<<m, f[m \div 2]>>] = f[m \div 2] + 1
      <4> HIDE DEF D
      <4> QED BY <3>2
    <3> HIDE DEF join, next
    <3> QED BY <2>1, <2>3, <3>1, <3>3
  <2> QED BY <2>2, <2>3
<1> DEFINE bits[m \in D] == IF m = 0 THEN 0 ELSE bits[m \div 2] + 1
<1>6. bits = [m \in D |-> IF m = 0 THEN 0 ELSE bits[m \div 2] + 1]
  <2>1. f = [m \in D |-> IF m = 0 THEN 0 ELSE f[m \div 2] + 1]
    BY <1>5
  <2> QED BY <2>1
<1>7. BitLength(n) = bits[n]
  BY DEF BitLength
<1> HIDE DEF bits
<1> DEFINE Good(m) == /\ bits[m] \in 0..m
                      /\ m < Pow2[bits[m]]
                      /\ m > 0 => bits[m] > 0 /\ Pow2[bits[m] - 1] <= m
<1>8. ASSUME NEW m \in D, m = 0 PROVE Good(m)
  BY <1>6, <1>8, Pow2Doubles
<1>9. ASSUME NEW m \in D, m # 0, Good(m \div 2) PROVE Good(m)
  <2> DEFINE half == m \div 2
             b == bits[half]
  <2>1. half \in D /\ 2 * half <= m /\ m <= 2 * half + 1 /\ half < m
    BY <1>1, <1>2, <1>9
  <2>2. bits[m] = b + 1 /\ m \in Nat \ {0}
    BY <1>6, <1>9
  <2>3. b \in 0..half /\ half < Pow2[b] /\ (half > 0 => b > 0 /\ Pow2[b - 1] <= half)
    BY <1>9
  <2> HIDE DEF half, b
  <2>4. b \in Nat /\ Pow2[b + 1] = 2 * Pow2[b] /\ Pow2[b] \in Nat
    BY <2>1, <2>3, Pow2Doubles
  <2>5. half > 0 => Pow2[b] = 2 * Pow2[b - 1] /\ Pow2[b - 1] \in Nat
    <3>1. half > 0 => b - 1 \in Nat /\ (b - 1) + 1 = b
      BY <2>3, <2>4
    <3>2. \A k \in Nat : Pow2[k + 1] = 2 * Pow2[k] /\ Pow2[k] \in Nat
      BY Pow2Doubles
    <3> QED BY <3>1, <3>2
  <2>6. b + 1 \in 0..m /\ m < Pow2[b + 1]
    BY <2>1, <2>2, <2>3, <2>4
  <2>7. Pow2[(b + 1) - 1] <= m
    <3>1. (b + 1) - 1 = b
      BY <2>4
    <3>2. CASE half > 0
      BY <2>1, <2>2, <2>3, <2>4, <2>5, <3>1, <3>2
    <3>3. CASE half = 0
      <4>1. b = 0
        BY <2>3, <3>3
      <4> QED BY <2>2, <3>1, <4>1, Pow2Doubles
    <3> QED BY <2>1, <3>2, <3>3
  <2> QED BY <2>2, <2>4, <2>6, <2>7
<1>10. \A m \in D : Good(m)
  <2> DEFINE P == {l \in Nat : \A m \in D : m <= l => Good(m)}
  <2>1. 0 \in P
    <3>1. \A m \in D : m <= 0 => m = 0
      OBVIOUS
    <3> HIDE DEF Good, D
    <3> QED BY <1>8, <3>1
  <2>2. \A l \in Nat : l \in P => l + 1 \in P
    <3> TAKE l \in Nat
    <3> HAVE l \in P
    <3> SUFFICES ASSUME NEW m \in D, m <= l + 1 PROVE Good(m)
      <4> HIDE DEF Good, D
      <4> QED OBVIOUS
    <3>1. CASE m = 0
      <4> HIDE DEF Good, D
      <4> QED BY <1>8, <3>1
    <3>2. CASE m # 0
      <4>1. m \div 2 \in D /\ m \div 2 <= l
        BY <1>1, <1>2, <3>2
      <4> HIDE DEF Good, D
      <4> QED BY <1>9, <3>2, <4>1
    <3> QED BY <3>1, <3>2
  <2>3. Nat \subseteq P
    <3> HIDE DEF P
    <3> QED BY <2>1, <2>2, SetInduction
  <2> TAKE m \in D
  <2>4. m \in P /\ m <= m
    BY <2>3
  <2> HIDE DEF Good
  <2> QED BY <2>4
<1>11. n \in D
  OBVIOUS
<1> HIDE DEF D
<1>12. Good(n)
  BY <1>10, <1>11
<1> QED BY <1>7, <1>12

-----------------------------------------------------------------------------
(* The scan for peaks.                                                     *)

\* What is left decreases by a whole mountain or not at all.
LEMMA UnscannedDecreases ==
  ASSUME NEW n \in Nat
  PROVE  LET K == BitLength(n)
             rest == Unscanned(n)
         IN  /\ rest \in [0..K -> 0..n]
             /\ rest[K] = n
             /\ \A k \in 0..(K - 1) :
                  rest[k] = IF rest[k + 1] >= Pow2[k + 1] - 1
                            THEN rest[k + 1] - (Pow2[k + 1] - 1) ELSE rest[k + 1]
<1> DEFINE K == BitLength(n)
           D == 0..K
           S == 0..n
           Left(k, before) ==
             IF before >= Pow2[k + 1] - 1 THEN before - (Pow2[k + 1] - 1) ELSE before
           stop == {K}
           next == [k \in D |-> IF k = K THEN K ELSE k + 1]
           exit == [k \in D |-> n]
           join == [call \in D \X S |-> Left(call[1], call[2])]
           rank == [k \in D |-> K - k]
<1>1. K \in Nat
  BY BitLengthBounds
<1> HIDE DEF K
<1>2. \A k \in D, before \in S : Left(k, before) \in S
  <2> TAKE k \in D, before \in S
  <2>1. Pow2[k + 1] \in Nat \ {0}
    BY <1>1, Pow2Doubles
  <2> QED BY <2>1
<1>3. IsLoop(D, S, stop, next, exit, join, rank)
  <2>1. next \in [D -> D] /\ exit \in [D -> S] /\ rank \in [D -> Nat]
    BY <1>1
  <2>2. join \in [D \X S -> S]
    <3> HIDE DEF Left, D, S
    <3> QED BY <1>2
  <2>3. \A k \in D \ stop : rank[next[k]] < rank[k]
    BY <1>1
  <2> HIDE DEF D, S, stop, next, exit, join, rank
  <2> QED BY <2>1, <2>2, <2>3 DEF IsLoop
<1>4. PICK f \in [D -> S] : Loop(f, D, stop, next, exit, join)
  <2> HIDE DEF D, S, stop, next, exit, join, rank
  <2> QED BY <1>3, LoopHasResult
<1>5. \A k \in D : f[k] = IF k = K THEN n ELSE Left(k, f[k + 1])
  <2> TAKE k \in D
  <2>1. f[k] = IF k \in stop THEN exit[k] ELSE join[<<k, f[next[k]]>>]
    <3> HIDE DEF D, stop, next, exit, join, rank
    <3> QED BY <1>4 DEF Loop
  <2>2. CASE k = K
    BY <2>1, <2>2
  <2>3. CASE k # K
    <3>1. next[k] = k + 1 /\ k + 1 \in D
      BY <1>1, <2>3
    <3>2. <<k, f[k + 1]>> \in D \X S
      BY <3>1
    <3>3. join[<<k, f[k + 1]>>] = Left(k, f[k + 1])
      <4> HIDE DEF Left, D, S
      <4> QED BY <3>2
    <3> HIDE DEF Left, join, next
    <3> QED BY <2>1, <2>3, <3>1, <3>3
  <2> HIDE DEF Left
  <2> QED BY <2>2, <2>3
<1>6. f = [k \in D |-> IF k = K THEN n ELSE Left(k, f[k + 1])]
  <2> HIDE DEF Left
  <2> QED BY <1>5
<1> DEFINE rest == Unscanned(n)
<1>7. rest = [k \in D |-> IF k = K THEN n ELSE Left(k, rest[k + 1])]
  BY <1>6 DEF Unscanned, K
<1> HIDE DEF rest
<1>8. \A k \in D : rest[k] = IF k = K THEN n ELSE Left(k, rest[k + 1])
  <2> HIDE DEF Left
  <2> QED BY <1>7
<1>9. \A k \in D : rest[k] \in S
  <2> DEFINE P == {d \in Nat : d <= K => rest[K - d] \in S}
  <2>1. 0 \in P
    BY <1>1, <1>8
  <2>2. \A d \in Nat : d \in P => d + 1 \in P
    <3> TAKE d \in Nat
    <3> HAVE d \in P
    <3> SUFFICES ASSUME d + 1 <= K PROVE rest[K - (d + 1)] \in S
      OBVIOUS
    <3>1. K - (d + 1) \in D /\ K - (d + 1) # K /\ (K - (d + 1)) + 1 = K - d
      BY <1>1
    <3>2. rest[K - d] \in S
      BY <1>1
    <3>3. rest[K - (d + 1)] = Left(K - (d + 1), rest[K - d])
      <4> HIDE DEF Left, D
      <4> QED BY <1>8, <3>1
    <3> HIDE DEF Left, D, S
    <3> QED BY <1>2, <3>1, <3>2, <3>3
  <2>3. Nat \subseteq P
    <3> HIDE DEF P
    <3> QED BY <2>1, <2>2, SetInduction
  <2> TAKE k \in D
  <2>4. K - k \in Nat /\ K - k <= K /\ K - (K - k) = k
    BY <1>1
  <2>5. rest[K - (K - k)] \in S
    <3> HIDE DEF S
    <3> QED BY <2>3, <2>4
  <2> QED BY <2>4, <2>5
<1>10. rest \in [D -> S]
  <2> HIDE DEF D, S, Left
  <2> QED BY <1>7, <1>9
<1>11. \A k \in 0..(K - 1) : k \in D /\ k # K
  BY <1>1
<1>12. K \in D
  BY <1>1
<1> QED BY <1>8, <1>10, <1>11, <1>12 DEF rest, K

\* A mountain that is taken off was there.
LEMMA PeakFits ==
  ASSUME NEW n \in Nat, NEW k \in PeakHeights(n)
  PROVE  /\ k \in Nat /\ k < BitLength(n)
         /\ Pow2[k + 1] - 1 <= n
         /\ Unscanned(n)[k] \in 0..(n - 1)
<1> DEFINE K == BitLength(n)
           rest == Unscanned(n)
<1>1. K \in Nat
  BY BitLengthBounds
<1>2. k \in 0..(K - 1) /\ rest[k] # rest[k + 1]
  BY DEF PeakHeights
<1>3. /\ rest[k] \in 0..n /\ rest[k + 1] \in 0..n
      /\ rest[k] = IF rest[k + 1] >= Pow2[k + 1] - 1
                   THEN rest[k + 1] - (Pow2[k + 1] - 1) ELSE rest[k + 1]
  <2>1. k \in 0..K /\ k + 1 \in 0..K
    BY <1>1, <1>2
  <2> HIDE DEF rest, K
  <2> QED BY <1>2, <2>1, UnscannedDecreases DEF rest, K
<1>4. Pow2[k + 1] \in Nat \ {0}
  BY <1>1, <1>2, Pow2Doubles
<1> HIDE DEF rest, K
<1>5. rest[k] <= n - 1 /\ Pow2[k + 1] - 1 <= n
  BY <1>2, <1>3, <1>4
<1> QED BY <1>1, <1>2, <1>3, <1>5 DEF rest, K

\* Dividing by 2b is dividing by b, then by two.
LEMMA HalvedQuotient ==
  ASSUME NEW a \in Nat, NEW b \in Nat \ {0}
  PROVE  a \div (2 * b) = (a \div b) \div 2
<1>1. \A c \in Nat \ {0} : /\ a \div c \in Nat
                           /\ (a \div c) * c <= a /\ a < (a \div c) * c + c
  OBVIOUS
<1>2. \A c \in Nat \ {0}, q \in Nat : q * c <= a /\ a < q * c + c => a \div c = q
  OBVIOUS
<1> QED BY <1>1, <1>2

\* The function in get_peak_map, and that it is one.
PeakMaps(n) ==
  LET K == BitLength(n)
      heights == PeakHeights(n)
      peak_map[k \in 0..K] ==
        IF k = K THEN 0
        ELSE 2 * peak_map[k + 1] + (IF k \in heights THEN 1 ELSE 0)
  IN  peak_map

\* The shifting of get_peak_map gives a number for every height.
LEMMA PeakMapsDefined ==
  ASSUME NEW n \in Nat
  PROVE  /\ get_peak_map(n) = PeakMaps(n)[0]
         /\ \A k \in 0..BitLength(n) :
              /\ PeakMaps(n)[k] \in Nat
              /\ PeakMaps(n)[k] = IF k = BitLength(n) THEN 0
                                  ELSE 2 * PeakMaps(n)[k + 1]
                                         + (IF k \in PeakHeights(n) THEN 1 ELSE 0)
<1> DEFINE K == BitLength(n)
           Bit(k) == IF k \in PeakHeights(n) THEN 1 ELSE 0
           D == 0..K
           stop == {K}
           next == [k \in D |-> IF k = K THEN K ELSE k + 1]
           exit == [k \in D |-> 0]
           join == [call \in D \X Nat |-> 2 * call[2] + Bit(call[1])]
           rank == [k \in D |-> K - k]
<1>1. K \in Nat
  BY BitLengthBounds
<1>2. \A k \in D : Bit(k) \in {0, 1}
  OBVIOUS
<1> HIDE DEF K, Bit
<1>3. IsLoop(D, Nat, stop, next, exit, join, rank)
  <2>1. next \in [D -> D] /\ exit \in [D -> Nat] /\ rank \in [D -> Nat]
    BY <1>1
  <2>2. join \in [D \X Nat -> Nat]
    BY <1>2
  <2>3. \A k \in D \ stop : rank[next[k]] < rank[k]
    BY <1>1
  <2> HIDE DEF D, stop, next, exit, join, rank
  <2> QED BY <2>1, <2>2, <2>3 DEF IsLoop
<1>4. PICK f \in [D -> Nat] : Loop(f, D, stop, next, exit, join)
  <2> HIDE DEF D, stop, next, exit, join, rank
  <2> QED BY <1>3, LoopHasResult
<1>5. \A k \in D : f[k] = IF k = K THEN 0 ELSE 2 * f[k + 1] + Bit(k)
  <2> TAKE k \in D
  <2>1. f[k] = IF k \in stop THEN exit[k] ELSE join[<<k, f[next[k]]>>]
    <3> HIDE DEF D, stop, next, exit, join, rank
    <3> QED BY <1>4 DEF Loop
  <2>2. CASE k = K
    BY <2>1, <2>2
  <2>3. CASE k # K
    <3>1. next[k] = k + 1 /\ k + 1 \in D
      BY <1>1, <2>3
    <3>2. <<k, f[k + 1]>> \in D \X Nat
      BY <3>1
    <3>3. join[<<k, f[k + 1]>>] = 2 * f[k + 1] + Bit(k)
      <4> HIDE DEF D
      <4> QED BY <3>2
    <3> HIDE DEF join, next
    <3> QED BY <2>1, <2>3, <3>1, <3>3
  <2> QED BY <2>2, <2>3
<1> DEFINE peak_map[k \in D] == IF k = K THEN 0 ELSE 2 * peak_map[k + 1] + Bit(k)
<1>6. peak_map = [k \in D |-> IF k = K THEN 0 ELSE 2 * peak_map[k + 1] + Bit(k)]
  <2>1. f = [k \in D |-> IF k = K THEN 0 ELSE 2 * f[k + 1] + Bit(k)]
    BY <1>5
  <2> QED BY <2>1
<1>7. get_peak_map(n) = peak_map[0] /\ PeakMaps(n) = peak_map
  BY DEF get_peak_map, PeakMaps, K, Bit
<1> HIDE DEF peak_map
<1>8. \A k \in D : peak_map[k] = IF k = K THEN 0 ELSE 2 * peak_map[k + 1] + Bit(k)
  BY <1>6
<1>9. \A k \in D : peak_map[k] \in Nat
  <2> DEFINE P == {d \in Nat : d <= K => peak_map[K - d] \in Nat}
  <2>1. 0 \in P
    BY <1>1, <1>8
  <2>2. \A d \in Nat : d \in P => d + 1 \in P
    <3> TAKE d \in Nat
    <3> HAVE d \in P
    <3> SUFFICES ASSUME d + 1 <= K PROVE peak_map[K - (d + 1)] \in Nat
      OBVIOUS
    <3>1. K - (d + 1) \in D /\ K - (d + 1) # K /\ (K - (d + 1)) + 1 = K - d
      BY <1>1
    <3>2. peak_map[K - d] \in Nat
      BY <1>1
    <3>3. peak_map[K - (d + 1)] = 2 * peak_map[K - d] + Bit(K - (d + 1))
      <4> HIDE DEF D
      <4> QED BY <1>8, <3>1
    <3> HIDE DEF D
    <3> QED BY <1>2, <3>1, <3>2, <3>3
  <2>3. Nat \subseteq P
    <3> HIDE DEF P
    <3> QED BY <2>1, <2>2, SetInduction
  <2> TAKE k \in D
  <2>4. K - k \in Nat /\ K - k <= K /\ K - (K - k) = k
    BY <1>1
  <2>5. peak_map[K - (K - k)] \in Nat
    BY <2>3, <2>4
  <2> QED BY <2>4, <2>5
<1> QED BY <1>1, <1>7, <1>8, <1>9 DEF K, Bit

\* get_peak_map has a bit for each mountain that is taken off, and no other.
LEMMA PeakMapBits ==
  ASSUME NEW n \in Nat
  PROVE  /\ get_peak_map(n) \in Nat
         /\ \A k \in Nat : HasBit(get_peak_map(n), Pow2[k]) <=> k \in PeakHeights(n)
<1> DEFINE K == BitLength(n)
           D == 0..K
           Bit(k) == IF k \in PeakHeights(n) THEN 1 ELSE 0
           peak_map == PeakMaps(n)
<1>1. K \in Nat
  BY BitLengthBounds
<1>2. \A k \in D : Bit(k) \in {0, 1}
  OBVIOUS
<1>3. get_peak_map(n) = peak_map[0]
  BY PeakMapsDefined
<1>4. \A k \in D : peak_map[k] = IF k = K THEN 0 ELSE 2 * peak_map[k + 1] + Bit(k)
  BY PeakMapsDefined
<1>5. \A k \in D : peak_map[k] \in Nat
  BY PeakMapsDefined
<1> HIDE DEF peak_map, K, Bit
<1> DEFINE map == peak_map[0]
<1>6. map \in Nat
  BY <1>1, <1>5
\* Dividing by 2^k shifts the last k bits out again.
<1>7. \A k \in Nat : k <= K => map \div Pow2[k] = peak_map[k]
  <2> DEFINE P == {k \in Nat : k <= K => map \div Pow2[k] = peak_map[k]}
  <2>1. 0 \in P
    <3>1. map \div 1 = map
      BY <1>6
    <3> QED BY <3>1, Pow2Doubles
  <2>2. \A k \in Nat : k \in P => k + 1 \in P
    <3> TAKE k \in Nat
    <3> HAVE k \in P
    <3> SUFFICES ASSUME k + 1 <= K PROVE map \div Pow2[k + 1] = peak_map[k + 1]
      OBVIOUS
    <3>1. k \in D /\ k # K /\ k + 1 \in D
      BY <1>1
    <3>2. map \div Pow2[k] = peak_map[k]
      BY <1>1
    <3>3. peak_map[k] = 2 * peak_map[k + 1] + Bit(k)
      <4> HIDE DEF D
      <4> QED BY <1>4, <3>1
    <3>4. peak_map[k] \div 2 = peak_map[k + 1]
      <4>1. peak_map[k + 1] \in Nat /\ Bit(k) \in {0, 1}
        BY <1>2, <1>5, <3>1
      <4> QED BY <3>3, <4>1
    <3>5. Pow2[k] \in Nat \ {0} /\ Pow2[k + 1] = 2 * Pow2[k]
      BY Pow2Doubles
    <3>6. map \div (2 * Pow2[k]) = (map \div Pow2[k]) \div 2
      <4> HIDE DEF map
      <4> QED BY <1>6, <3>5, HalvedQuotient
    <3> QED BY <3>2, <3>4, <3>5, <3>6
  <2> HIDE DEF P
  <2>3. Nat \subseteq P
    BY <2>1, <2>2, SetInduction
  <2> QED BY <2>3 DEF P
<1> HIDE DEF map
<1>8. ASSUME NEW k \in Nat PROVE HasBit(map, Pow2[k]) <=> k \in PeakHeights(n)
  <2>1. CASE k < K
    <3>1. k \in D /\ k # K /\ k + 1 \in D
      BY <1>1, <2>1
    <3>2. peak_map[k] = 2 * peak_map[k + 1] + Bit(k)
      <4> HIDE DEF D
      <4> QED BY <1>4, <3>1
    <3>3. peak_map[k + 1] \in Nat /\ Bit(k) \in {0, 1}
      BY <1>2, <1>5, <3>1
    <3>4. peak_map[k] % 2 = Bit(k)
      BY <3>2, <3>3
    <3>5. map \div Pow2[k] = peak_map[k]
      BY <1>1, <1>7, <2>1
    <3> QED BY <3>4, <3>5 DEF HasBit, Bit
  <2>2. CASE ~(k < K)
    <3>1. k \notin PeakHeights(n)
      BY <1>1, <2>2 DEF PeakHeights, K
    <3>2. map \div Pow2[K] = 0
      <4>1. peak_map[K] = 0
        BY <1>1, <1>4
      <4> QED BY <1>1, <1>7, <4>1
    <3>3. Pow2[K] \in Nat \ {0} /\ Pow2[k] \in Nat \ {0} /\ Pow2[K] <= Pow2[k]
      <4>1. K \in Nat /\ K <= k
        BY <1>1, <2>2
      <4> QED BY <4>1, Pow2Doubles, Pow2Grows
    <3>4. map < Pow2[K]
      BY <1>6, <3>2, <3>3
    <3>5. map \div Pow2[k] = 0
      <4>1. map < Pow2[k]
        BY <1>6, <3>3, <3>4
      <4> QED BY <1>6, <3>3, <4>1
    <3> QED BY <3>1, <3>5 DEF HasBit
  <2> QED BY <2>1, <2>2
<1> QED BY <1>3, <1>6, <1>8 DEF map

-----------------------------------------------------------------------------
(* The MMRIVER flavour.                                                    *)

\* What all_ones and most_sig_bit leave of a position, counted from one.
HeightStep(n) == n - (most_sig_bit(n) - 1)

\* A number lies between its highest bit and the next; leaving that bit's tree out makes it smaller.
LEMMA HeightSteps ==
  ASSUME NEW n \in Nat \ {0}
  PROVE  /\ BitLength(n) \in Nat /\ BitLength(n) - 1 \in Nat
         /\ Pow2[BitLength(n) - 1] <= n /\ n < Pow2[BitLength(n)]
         /\ Pow2[BitLength(n) - 1] \in Nat \ {0}
         /\ Pow2[BitLength(n)] = 2 * Pow2[BitLength(n) - 1]
         /\ most_sig_bit(n) = Pow2[BitLength(n) - 1]
         /\ ~all_ones(n) => HeightStep(n) \in Nat \ {0} /\ HeightStep(n) < n
<1>1. /\ BitLength(n) \in Nat /\ BitLength(n) > 0
      /\ Pow2[BitLength(n) - 1] <= n /\ n < Pow2[BitLength(n)]
  BY BitLengthBounds
<1>2. BitLength(n) - 1 \in Nat /\ (BitLength(n) - 1) + 1 = BitLength(n)
  BY <1>1
<1>3. /\ Pow2[(BitLength(n) - 1) + 1] = 2 * Pow2[BitLength(n) - 1]
      /\ Pow2[BitLength(n) - 1] \in Nat \ {0}
  BY <1>2, Pow2Doubles
<1>4. most_sig_bit(n) = Pow2[BitLength(n) - 1]
  BY DEF most_sig_bit
<1>5. ASSUME ~all_ones(n)
      PROVE  HeightStep(n) \in Nat \ {0} /\ HeightStep(n) < n
  <2>1. n # Pow2[BitLength(n)] - 1
    BY <1>5 DEF all_ones
  <2>2. Pow2[BitLength(n) - 1] # 1
    BY <1>1, <1>2, <1>3, <2>1
  <2> QED BY <1>1, <1>3, <1>4, <2>2 DEF HeightStep
<1> QED BY <1>1, <1>2, <1>3, <1>4, <1>5

\* The heights index_height_mmriver(i) calculates on its way down from i + 1.
RiverHeights(i) ==
  LET height[pos \in 1..(i + 1)] ==
        IF all_ones(pos) THEN BitLength(pos) - 1
        ELSE height[pos - (most_sig_bit(pos) - 1)]
  IN  height

\* The loop of index_height_mmriver ends for every position.
LEMMA HeightsDefined ==
  ASSUME NEW i \in Nat
  PROVE  /\ index_height_mmriver(i) = RiverHeights(i)[i + 1]
         /\ \A n \in 1..(i + 1) :
              RiverHeights(i)[n] = IF all_ones(n) THEN BitLength(n) - 1
                                   ELSE RiverHeights(i)[HeightStep(n)]
<1> DEFINE D == 1..(i + 1)
           stop == {n \in D : all_ones(n)}
           next == [n \in D |-> IF all_ones(n) THEN n ELSE HeightStep(n)]
           exit == [n \in D |-> BitLength(n) - 1]
           join == [call \in D \X Nat |-> call[2]]
           rank == [n \in D |-> n]
<1>1. ASSUME NEW n \in D PROVE BitLength(n) - 1 \in Nat
  BY HeightSteps
<1>2. ASSUME NEW n \in D, ~all_ones(n)
      PROVE  HeightStep(n) \in D /\ HeightStep(n) < n
  BY <1>2, HeightSteps
<1>3. IsLoop(D, Nat, stop, next, exit, join, rank)
  <2>1. next \in [D -> D]
    BY <1>2
  <2>2. exit \in [D -> Nat]
    BY <1>1
  <2>3. rank \in [D -> Nat] /\ join \in [D \X Nat -> Nat]
    OBVIOUS
  <2>4. \A n \in D \ stop : rank[next[n]] < rank[n]
    BY <1>2
  <2> HIDE DEF D, stop, next, exit, join, rank
  <2> QED BY <2>1, <2>2, <2>3, <2>4 DEF IsLoop
<1>4. PICK f \in [D -> Nat] : Loop(f, D, stop, next, exit, join)
  <2> HIDE DEF D, stop, next, exit, join, rank
  <2> QED BY <1>3, LoopHasResult
<1>5. \A n \in D : f[n] = IF all_ones(n) THEN BitLength(n) - 1 ELSE f[HeightStep(n)]
  <2> TAKE n \in D
  <2>1. f[n] = IF n \in stop THEN exit[n] ELSE join[<<n, f[next[n]]>>]
    <3> HIDE DEF D, stop, next, exit, join, rank
    <3> QED BY <1>4 DEF Loop
  <2>2. CASE all_ones(n)
    BY <2>1, <2>2
  <2>3. CASE ~all_ones(n)
    <3>1. next[n] = HeightStep(n) /\ HeightStep(n) \in D
      BY <1>2, <2>3
    <3>2. <<n, f[HeightStep(n)]>> \in D \X Nat
      BY <3>1
    <3>3. join[<<n, f[HeightStep(n)]>>] = f[HeightStep(n)]
      <4> HIDE DEF D
      <4> QED BY <3>2
    <3> HIDE DEF join, next
    <3> QED BY <2>1, <2>3, <3>1, <3>3
  <2> QED BY <2>2, <2>3
<1> DEFINE height[n \in D] == IF all_ones(n) THEN BitLength(n) - 1 ELSE height[HeightStep(n)]
<1>6. height = [n \in D |-> IF all_ones(n) THEN BitLength(n) - 1 ELSE height[HeightStep(n)]]
  <2>1. f = [n \in D |-> IF all_ones(n) THEN BitLength(n) - 1 ELSE f[HeightStep(n)]]
    BY <1>5
  <2> QED BY <2>1
<1>7. RiverHeights(i) = height /\ index_height_mmriver(i) = height[i + 1]
  BY DEF RiverHeights, index_height_mmriver, HeightStep
<1> HIDE DEF height
<1> QED BY <1>6, <1>7

\* A node of height h is the last of a perfect tree of 2^(h+1) - 1 nodes, so there
\* are that many nodes up to it.
LEMMA NodeHeight ==
  ASSUME NEW i \in Nat
  PROVE  /\ index_height_mmriver(i) \in Nat
         /\ Pow2[index_height_mmriver(i) + 1] - 1 <= i + 1
<1> DEFINE D == 1..(i + 1)
           height == RiverHeights(i)
<1>1. ASSUME NEW n \in D
      PROVE  BitLength(n) \in Nat /\ BitLength(n) - 1 \in Nat
  BY HeightSteps
<1>2. ASSUME NEW n \in D, ~all_ones(n)
      PROVE  HeightStep(n) \in D /\ HeightStep(n) < n
  BY <1>2, HeightSteps
<1>8. \A n \in D : height[n] = IF all_ones(n) THEN BitLength(n) - 1 ELSE height[HeightStep(n)]
  BY HeightsDefined
<1> HIDE DEF height
<1> DEFINE Good(n) == height[n] \in Nat /\ Pow2[height[n] + 1] - 1 <= n
<1>9. \A n \in D : Good(n)
  <2> DEFINE P == {m \in Nat : \A n \in D : n <= m => Good(n)}
  <2>1. 0 \in P
    OBVIOUS
  <2>2. \A m \in Nat : m \in P => m + 1 \in P
    <3> TAKE m \in Nat
    <3> HAVE m \in P
    <3> SUFFICES ASSUME NEW n \in D, n <= m + 1 PROVE Good(n)
      <4> HIDE DEF Good, D
      <4> QED OBVIOUS
    <3>1. CASE all_ones(n)
      <4>1. height[n] = BitLength(n) - 1 /\ n = Pow2[BitLength(n)] - 1
        BY <1>8, <3>1 DEF all_ones
      <4>2. BitLength(n) \in Nat /\ BitLength(n) - 1 \in Nat /\ n \in Nat
        BY <1>1
      <4>3. (BitLength(n) - 1) + 1 = BitLength(n)
        BY <4>2
      <4>4. height[n] \in Nat /\ Pow2[height[n] + 1] = Pow2[BitLength(n)]
        BY <4>1, <4>2, <4>3
      <4> QED BY <4>1, <4>2, <4>4
    <3>2. CASE ~all_ones(n)
      <4>1. HeightStep(n) \in D /\ HeightStep(n) < n /\ height[n] = height[HeightStep(n)]
        BY <1>2, <1>8, <3>2
      <4>2. HeightStep(n) <= m /\ HeightStep(n) <= n
        BY <4>1
      <4>3. Good(HeightStep(n))
        <5>1. \A l \in D : l <= m => Good(l)
          <6> HIDE DEF Good, D
          <6> QED OBVIOUS
        <5> HIDE DEF Good, D
        <5> QED BY <4>1, <4>2, <5>1
      <4>4. Pow2[height[HeightStep(n)] + 1] \in Nat /\ HeightStep(n) \in Nat /\ n \in Nat
        <5>1. HeightStep(n) \in Nat /\ n \in Nat
          BY <4>1
        <5>2. height[HeightStep(n)] + 1 \in Nat
          BY <4>3
        <5> QED BY <5>1, <5>2, Pow2Doubles
      <4>5. Pow2[height[HeightStep(n)] + 1] - 1 <= n
        BY <4>2, <4>3, <4>4
      <4> QED BY <4>1, <4>3, <4>5
    <3> QED BY <3>1, <3>2
  <2>3. Nat \subseteq P
    <3> HIDE DEF P
    <3> QED BY <2>1, <2>2, SetInduction
  <2> TAKE n \in D
  <2>4. n \in P /\ n <= n
    BY <2>3
  <2> HIDE DEF Good
  <2> QED BY <2>4
<1>10. i + 1 \in D
  OBVIOUS
<1> HIDE DEF D
<1> QED BY <1>9, <1>10, HeightsDefined DEF height

-----------------------------------------------------------------------------
(* The iterators yield positions below the size they are created with.     *)

\* The function in PeaksIter, and that it is one.
PeakYields(n) ==
  LET heights == PeakHeights(n)
      rest == Unscanned(n)
      yielded[k \in 0..BitLength(n)] ==
        IF k = 0 THEN <<>>
        ELSE (IF k - 1 \in heights THEN <<n - rest[k - 1] - 1>> ELSE <<>>)
               \o yielded[k - 1]
  IN  yielded

\* The loop of PeaksIter yields a sequence of positions below the size.
LEMMA PeakYieldsDefined ==
  ASSUME NEW n \in Nat
  PROVE  /\ PeaksIter(n) = PeakYields(n)[BitLength(n)]
         /\ PeakYields(n)[BitLength(n)] \in Seq(0..(n - 1))
         /\ PeakYields(n)[0] = <<>>
         /\ \A k \in 1..BitLength(n) :
              PeakYields(n)[k] =
                (IF (k - 1) \in PeakHeights(n) THEN <<n - Unscanned(n)[k - 1] - 1>> ELSE <<>>)
                  \o PeakYields(n)[k - 1]
<1> DEFINE K == BitLength(n)
           D == 0..K
           T == 0..(n - 1)
           Part(k) == IF (k - 1) \in PeakHeights(n)
                      THEN <<n - Unscanned(n)[k - 1] - 1>> ELSE <<>>
           stop == {0}
           next == [k \in D |-> IF k = 0 THEN 0 ELSE k - 1]
           part == [k \in D |-> Part(k)]
           rank == [k \in D |-> k]
<1>1. K \in Nat
  BY BitLengthBounds
<1> HIDE DEF K
<1>2. \A k \in D : Part(k) \in Seq(T)
  <2> TAKE k \in D
  <2>1. CASE (k - 1) \in PeakHeights(n)
    <3>1. Unscanned(n)[k - 1] \in 0..(n - 1)
      BY <2>1, PeakFits
    <3>2. n - Unscanned(n)[k - 1] - 1 \in T
      BY <3>1
    <3> HIDE DEF T
    <3> QED BY <2>1, <3>2
  <2>2. CASE (k - 1) \notin PeakHeights(n)
    BY <2>2
  <2> QED BY <2>1, <2>2
<1> HIDE DEF Part
<1>3. IsCollection(D, T, stop, next, part, rank)
  <2>1. next \in [D -> D] /\ rank \in [D -> Nat]
    BY <1>1
  <2>2. part \in [D -> Seq(T)]
    BY <1>2
  <2>3. \A k \in D \ stop : rank[next[k]] < rank[k]
    BY <1>1
  <2> HIDE DEF D, T, stop, next, part, rank
  <2> QED BY <2>1, <2>2, <2>3 DEF IsCollection
<1> DEFINE yielded[k \in D] == IF k = 0 THEN <<>> ELSE Part(k) \o yielded[k - 1]
<1>4. yielded = [k \in D |-> IF k = 0 THEN <<>> ELSE Part(k) \o yielded[k - 1]]
  <2>1. PICK f \in [D -> Seq(T)] : Collects(f, D, stop, next, part)
    <3> HIDE DEF D, T, stop, next, part, rank
    <3> QED BY <1>3, CollectionExists
  <2>2. \A k \in D : f[k] = IF k = 0 THEN <<>> ELSE Part(k) \o f[k - 1]
    BY <2>1 DEF Collects
  <2>3. f = [k \in D |-> IF k = 0 THEN <<>> ELSE Part(k) \o f[k - 1]]
    BY <2>2
  <2> QED BY <2>3
<1>5. PeaksIter(n) = yielded[K] /\ PeakYields(n) = yielded
  BY DEF PeaksIter, PeakYields, Part, K
<1> HIDE DEF yielded
<1>6. Collects(yielded, D, stop, next, part)
  <2>1. \A k \in D : yielded[k] = IF k = 0 THEN <<>> ELSE Part(k) \o yielded[k - 1]
    BY <1>4
  <2> QED BY <2>1 DEF Collects
<1>7. K \in D
  BY <1>1
<1>8. yielded[0] = <<>> /\ \A k \in 1..K : yielded[k] = Part(k) \o yielded[k - 1]
  <2>1. 0 \in D /\ \A k \in 1..K : k \in D /\ k # 0
    BY <1>1
  <2> HIDE DEF D
  <2> QED BY <1>4, <2>1
<1> HIDE DEF D, T, stop, next, part, rank
<1>9. yielded[K] \in Seq(T)
  BY <1>3, <1>6, <1>7, CollectionRange
<1> QED BY <1>5, <1>8, <1>9 DEF T, K, Part

\* PeaksIter yields positions below the size.
LEMMA PeaksIterRange ==
  ASSUME NEW n \in Nat
  PROVE  PeaksIter(n) \in Seq(0..(n - 1))
BY PeakYieldsDefined

\* The function in PeaksMMRIVERIter, and that it is one.
RiverYields(i) ==
  LET yielded[remaining \in 0..(i + 1)] ==
        IF remaining = 0 THEN <<>>
        ELSE LET highest_size == Pow2[BitLength(remaining + 1) - 1] - 1
                 peak == (i + 1 - remaining) + highest_size
             IN  <<peak - 1>> \o yielded[remaining - highest_size]
  IN  yielded

\* The loop of PeaksMMRIVERIter ends, and yields positions up to the last one.
LEMMA RiverYieldsDefined ==
  ASSUME NEW i \in Nat
  PROVE  /\ PeaksMMRIVERIter(i) = RiverYields(i)[i + 1]
         /\ RiverYields(i)[i + 1] \in Seq(0..i)
         /\ RiverYields(i)[0] = <<>>
         /\ \A remaining \in 1..(i + 1) :
              RiverYields(i)[remaining] =
                LET highest_size == Pow2[BitLength(remaining + 1) - 1] - 1
                IN  <<(i + 1 - remaining) + highest_size - 1>>
                      \o RiverYields(i)[remaining - highest_size]
<1> DEFINE D == 0..(i + 1)
           T == 0..i
           Highest(remaining) == Pow2[BitLength(remaining + 1) - 1] - 1
           Peak(remaining) == (i + 1 - remaining) + Highest(remaining)
           stop == {0}
           next == [k \in D |-> IF k = 0 THEN 0 ELSE k - Highest(k)]
           part == [k \in D |-> IF k = 0 THEN <<>> ELSE <<Peak(k) - 1>>]
           rank == [k \in D |-> k]
<1>1. ASSUME NEW k \in D, k # 0
      PROVE  Highest(k) \in 1..k
  <2> DEFINE b == BitLength(k + 1)
  <2>1. k + 1 \in Nat /\ k + 1 >= 2
    BY <1>1
  <2>2. b \in Nat /\ b > 0 /\ Pow2[b - 1] <= k + 1 /\ k + 1 < Pow2[b]
    BY <2>1, BitLengthBounds
  <2>3. b # 1
    <3>1. Pow2[0 + 1] = 2
      BY Pow2Doubles
    <3> HIDE DEF b
    <3> QED BY <2>1, <2>2, <3>1
  <2> HIDE DEF b
  <2>4. b - 1 \in Nat \ {0}
    BY <2>2, <2>3
  <2>5. Pow2[b - 1] \in Nat /\ b - 1 < Pow2[b - 1]
    BY <2>4, Pow2Doubles, Pow2Grows
  <2>6. Pow2[b - 1] - 1 \in 1..k
    BY <2>1, <2>2, <2>4, <2>5
  <2> QED BY <2>6 DEF b
<1> HIDE DEF Highest
<1>2. \A k \in D : k # 0 => Peak(k) - 1 \in T /\ k - Highest(k) \in D
                            /\ k - Highest(k) < k
  BY <1>1
<1> HIDE DEF Peak
<1>3. IsCollection(D, T, stop, next, part, rank)
  <2>1. next \in [D -> D] /\ rank \in [D -> Nat]
    BY <1>2
  <2>2. part \in [D -> Seq(T)]
    <3>1. \A k \in D : k # 0 => Peak(k) - 1 \in T
      BY <1>2
    <3> HIDE DEF T
    <3> QED BY <3>1
  <2>3. \A k \in D \ stop : rank[next[k]] < rank[k]
    BY <1>2
  <2> HIDE DEF D, T, stop, next, part, rank
  <2> QED BY <2>1, <2>2, <2>3 DEF IsCollection
<1> DEFINE yielded[k \in D] ==
             IF k = 0 THEN <<>> ELSE <<Peak(k) - 1>> \o yielded[k - Highest(k)]
<1>4. yielded = [k \in D |->
                   IF k = 0 THEN <<>> ELSE <<Peak(k) - 1>> \o yielded[k - Highest(k)]]
  <2>1. PICK f \in [D -> Seq(T)] : Collects(f, D, stop, next, part)
    <3> HIDE DEF D, T, stop, next, part, rank
    <3> QED BY <1>3, CollectionExists
  <2>2. \A k \in D :
          f[k] = IF k = 0 THEN <<>> ELSE <<Peak(k) - 1>> \o f[k - Highest(k)]
    BY <2>1 DEF Collects
  <2>3. f = [k \in D |->
               IF k = 0 THEN <<>> ELSE <<Peak(k) - 1>> \o f[k - Highest(k)]]
    BY <2>2
  <2> QED BY <2>3
<1>5. PeaksMMRIVERIter(i) = yielded[i + 1] /\ RiverYields(i) = yielded
  BY DEF PeaksMMRIVERIter, RiverYields, Peak, Highest
<1> HIDE DEF yielded
<1>6. Collects(yielded, D, stop, next, part)
  <2>1. \A k \in D : yielded[k] =
          IF k = 0 THEN <<>> ELSE <<Peak(k) - 1>> \o yielded[k - Highest(k)]
    BY <1>4
  <2> QED BY <2>1 DEF Collects
<1>7. i + 1 \in D
  OBVIOUS
<1>9. /\ yielded[0] = <<>>
      /\ \A remaining \in 1..(i + 1) :
           yielded[remaining] =
             LET highest_size == Pow2[BitLength(remaining + 1) - 1] - 1
             IN  <<(i + 1 - remaining) + highest_size - 1>>
                   \o yielded[remaining - highest_size]
  <2>1. \A k \in D : yielded[k] =
          IF k = 0 THEN <<>> ELSE <<Peak(k) - 1>> \o yielded[k - Highest(k)]
    BY <1>4
  <2>2. 0 \in D /\ \A k \in 1..(i + 1) : k \in D /\ k # 0
    OBVIOUS
  <2>3. yielded[0] = <<>>
    BY <2>1, <2>2
  <2>4. ASSUME NEW k \in 1..(i + 1)
        PROVE  yielded[k] = <<(i + 1 - k) + Highest(k) - 1>> \o yielded[k - Highest(k)]
    <3>1. Peak(k) - 1 = (i + 1 - k) + Highest(k) - 1
      <4>1. Highest(k) \in Nat
        BY <1>1
      <4> QED BY <4>1 DEF Peak
    <3> HIDE DEF D
    <3> QED BY <2>1, <2>2, <2>4, <3>1
  <2> HIDE DEF D
  <2> QED BY <2>3, <2>4 DEF Highest
<1> HIDE DEF D, T, stop, next, part, rank
<1>8. yielded[i + 1] \in Seq(T)
  BY <1>3, <1>6, <1>7, CollectionRange
<1> QED BY <1>5, <1>8, <1>9 DEF T

\* PeaksMMRIVERIter yields positions up to the last one.
LEMMA PeaksMMRIVERIterRange ==
  ASSUME NEW i \in Nat
  PROVE  PeaksMMRIVERIter(i) \in Seq(0..i)
BY RiverYieldsDefined

\* A right child of height g has its sibling 2^(g+1) - 1 positions before it, and there
\* are that many; so the position of a sibling is never below the height.
LEMMA SiblingBounds ==
  ASSUME NEW i \in Nat, NEW g \in Nat
  PROVE  /\ isibling(i, g) \in Nat
         /\ g <= isibling(i, g)
         /\ iparent(i, g) \in Nat
<1>1. /\ \A k \in Nat : Pow2[k] \in Nat \ {0} /\ Pow2[k + 1] = 2 * Pow2[k]
      /\ \A k \in Nat : k < Pow2[k]
      /\ \A j, k \in Nat : j <= k => Pow2[j] <= Pow2[k]
  BY Pow2Doubles, Pow2Grows
<1>2. g + 1 \in Nat /\ (g + 1) + 1 \in Nat
  OBVIOUS
<1>3. /\ Pow2[g] \in Nat \ {0} /\ Pow2[g + 1] = 2 * Pow2[g]
      /\ Pow2[(g + 1) + 1] = 2 * Pow2[g + 1] /\ g + 1 < Pow2[g + 1]
  BY <1>1, <1>2
<1>4. CASE is_right(i, g)
  <2> DEFINE h == index_height_mmriver(i + 1)
  <2>1. h \in Nat /\ Pow2[h + 1] - 1 <= (i + 1) + 1
    BY NodeHeight
  <2>2. h > g
    BY <1>4 DEF is_right
  <2> HIDE DEF h
  <2>3. h + 1 \in Nat /\ (g + 1) + 1 <= h + 1
    BY <2>1, <2>2
  <2>4. Pow2[(g + 1) + 1] <= Pow2[h + 1] /\ Pow2[h + 1] \in Nat
    BY <1>1, <1>2, <2>3
  <2>5. isibling(i, g) = i - 2 * Pow2[g] + 1 /\ iparent(i, g) = i + 1
    BY <1>4 DEF isibling, iparent
  <2> QED BY <1>3, <2>1, <2>4, <2>5
<1>5. CASE ~is_right(i, g)
  <2>1. isibling(i, g) = i + 2 * Pow2[g] - 1 /\ iparent(i, g) = i + 2 * Pow2[g]
    BY <1>5 DEF isibling, iparent
  <2> QED BY <1>3, <2>1
<1> QED BY <1>4, <1>5

\* The function in inclusion_proof_path, and that it is one: heights grow along a path
\* while siblings stay below c, so it ends, and all of it is below c.
Paths(c) ==
  LET path[at \in [i : Nat, g : Nat]] ==
        IF isibling(at.i, at.g) > c THEN <<>>
        ELSE <<isibling(at.i, at.g)>>
               \o path[[i |-> iparent(at.i, at.g), g |-> at.g + 1]]
  IN  path

\* The loop of inclusion_proof_path ends, and lists positions up to c.
LEMMA PathsDefined ==
  ASSUME NEW i \in Nat, NEW c \in Nat
  PROVE  /\ inclusion_proof_path(i, c) = Paths(c)[[i |-> i, g |-> index_height_mmriver(i)]]
         /\ inclusion_proof_path(i, c) \in Seq(0..c)
         /\ \A at \in [i : Nat, g : Nat] :
              Paths(c)[at] =
                IF isibling(at.i, at.g) > c THEN <<>>
                ELSE <<isibling(at.i, at.g)>>
                       \o Paths(c)[[i |-> iparent(at.i, at.g), g |-> at.g + 1]]
<1> DEFINE D == [i : Nat, g : Nat]
           T == 0..c
           Sibling(at) == isibling(at.i, at.g)
           Above(at) == [i |-> iparent(at.i, at.g), g |-> at.g + 1]
           stop == {at \in D : Sibling(at) > c}
           next == [at \in D |-> Above(at)]
           part == [at \in D |-> IF Sibling(at) > c THEN <<>> ELSE <<Sibling(at)>>]
           rank == [at \in D |-> IF at.g <= c THEN c + 1 - at.g ELSE 0]
<1>1. ASSUME NEW at \in D
      PROVE  /\ Sibling(at) \in Nat
             /\ at.g \in Nat /\ at.g <= Sibling(at)
             /\ Above(at) \in D /\ Above(at).g = at.g + 1
  <2>1. at.i \in Nat /\ at.g \in Nat
    OBVIOUS
  <2>2. /\ isibling(at.i, at.g) \in Nat /\ at.g <= isibling(at.i, at.g)
        /\ iparent(at.i, at.g) \in Nat
    BY <2>1, SiblingBounds
  <2>3. at.g + 1 \in Nat
    BY <2>1
  <2> HIDE DEF D
  <2>4. Above(at) \in D
    BY <2>2, <2>3 DEF D
  <2>5. Above(at).g = at.g + 1
    OBVIOUS
  <2> QED BY <2>1, <2>2, <2>4, <2>5
<1> HIDE DEF Sibling, Above
<1>2. IsCollection(D, T, stop, next, part, rank)
  <2>1. next \in [D -> D]
    BY <1>1
  <2>2. rank \in [D -> Nat]
    <3>1. \A at \in D : (IF at.g <= c THEN c + 1 - at.g ELSE 0) \in Nat
      BY <1>1
    <3> HIDE DEF D
    <3> QED BY <3>1
  <2>3. part \in [D -> Seq(T)]
    <3>1. \A at \in D : Sibling(at) > c \/ Sibling(at) \in T
      BY <1>1
    <3> HIDE DEF D, T
    <3> QED BY <3>1
  <2>4. \A at \in D \ stop : rank[next[at]] < rank[at]
    <3> SUFFICES ASSUME NEW at \in D, ~(Sibling(at) > c)
                 PROVE  rank[Above(at)] < rank[at]
      OBVIOUS
    <3>1. at.g \in Nat /\ at.g <= c /\ Above(at) \in D /\ Above(at).g = at.g + 1
      BY <1>1
    <3>2. /\ rank[at] = IF at.g <= c THEN c + 1 - at.g ELSE 0
          /\ rank[Above(at)] = IF at.g + 1 <= c THEN c + 1 - (at.g + 1) ELSE 0
      BY <3>1
    <3> HIDE DEF rank, D
    <3> QED BY <3>1, <3>2
  <2> HIDE DEF D, T, stop, next, part, rank
  <2> QED BY <2>1, <2>2, <2>3, <2>4 DEF IsCollection
<1> DEFINE path[at \in D] ==
             IF Sibling(at) > c THEN <<>> ELSE <<Sibling(at)>> \o path[Above(at)]
<1>3. path = [at \in D |->
                IF Sibling(at) > c THEN <<>> ELSE <<Sibling(at)>> \o path[Above(at)]]
  <2>1. PICK f \in [D -> Seq(T)] : Collects(f, D, stop, next, part)
    <3> HIDE DEF D, T, stop, next, part, rank
    <3> QED BY <1>2, CollectionExists
  <2>2. \A at \in D :
          f[at] = IF Sibling(at) > c THEN <<>> ELSE <<Sibling(at)>> \o f[Above(at)]
    <3> HIDE DEF D
    <3> QED BY <2>1 DEF Collects
  <2>3. f = [at \in D |->
               IF Sibling(at) > c THEN <<>> ELSE <<Sibling(at)>> \o f[Above(at)]]
    <3> HIDE DEF D
    <3> QED BY <2>2
  <2> HIDE DEF D
  <2> QED BY <2>3
<1> DEFINE first == [i |-> i, g |-> index_height_mmriver(i)]
<1>4. inclusion_proof_path(i, c) = path[first] /\ Paths(c) = path
  BY DEF inclusion_proof_path, Paths, Sibling, Above
<1>5. first \in D
  BY NodeHeight
<1> HIDE DEF path, D, first
<1>6. \A at \in D : path[at] =
        IF Sibling(at) > c THEN <<>> ELSE <<Sibling(at)>> \o path[Above(at)]
  BY <1>3
<1>7. Collects(path, D, stop, next, part)
  BY <1>6 DEF Collects
<1> HIDE DEF T, stop, next, part, rank
<1>8. path[first] \in Seq(T)
  BY <1>2, <1>5, <1>7, CollectionRange
<1> QED BY <1>4, <1>6, <1>8 DEF T, D, first, Sibling, Above

\* inclusion_proof_path lists positions up to c.
LEMMA InclusionPathRange ==
  ASSUME NEW i \in Nat, NEW c \in Nat
  PROVE  inclusion_proof_path(i, c) \in Seq(0..c)
BY PathsDefined


-----------------------------------------------------------------------------
(* Heights and families of nodes.  Positions count from zero; a perfect    *)
(* tree of height k has 2^(k+1) - 1 nodes, and the tree of height k + 1 is  *)
(* two of them and a root.  First index_height_mmriver, one step at a time. *)

\* Between two powers of two there is one bit length.
LEMMA BitLengthIs ==
  ASSUME NEW n \in Nat \ {0}, NEW k \in Nat, Pow2[k] <= n, n < Pow2[k + 1]
  PROVE  BitLength(n) = k + 1
<1>1. /\ BitLength(n) \in Nat /\ BitLength(n) - 1 \in Nat
      /\ Pow2[BitLength(n) - 1] <= n /\ n < Pow2[BitLength(n)]
  BY HeightSteps
<1> DEFINE b == BitLength(n)
<1> HIDE DEF b
<1>2. \A j \in Nat : Pow2[j] \in Nat
  BY Pow2Doubles
<1>3. \A i, j \in Nat : i <= j => Pow2[i] <= Pow2[j]
  BY Pow2Grows
<1>4. b \in Nat /\ b - 1 \in Nat /\ Pow2[b - 1] <= n /\ n < Pow2[b]
  BY <1>1 DEF b
<1>5. ~(b <= k)
  <2> SUFFICES ASSUME b <= k PROVE FALSE
    OBVIOUS
  <2>1. Pow2[b] <= Pow2[k]
    BY <1>3, <1>4
  <2> QED BY <1>2, <1>4, <2>1
<1>6. ~(k + 1 <= b - 1)
  <2> SUFFICES ASSUME k + 1 <= b - 1 PROVE FALSE
    OBVIOUS
  <2>1. Pow2[k + 1] <= Pow2[b - 1] /\ k + 1 \in Nat
    BY <1>3, <1>4
  <2> QED BY <1>2, <1>4, <2>1
<1>7. b = k + 1
  BY <1>4, <1>5, <1>6
<1> QED BY <1>7 DEF b

\* How high a node is does not depend on where the calculation started.
LEMMA HeightsAreOne ==
  ASSUME NEW i \in Nat, NEW n \in 1..(i + 1)
  PROVE  RiverHeights(i)[n] = index_height_mmriver(n - 1)
<1> DEFINE P == {m \in Nat : \A a, b \in Nat : \A k \in 1..(a + 1) :
                    k <= m /\ k <= b + 1 => RiverHeights(a)[k] = RiverHeights(b)[k]}
<1>1. 0 \in P
  OBVIOUS
<1>2. \A m \in Nat : m \in P => m + 1 \in P
  <2> TAKE m \in Nat
  <2> HAVE m \in P
  <2> SUFFICES ASSUME NEW a \in Nat, NEW b \in Nat, NEW k \in 1..(a + 1),
                      k <= m + 1, k <= b + 1
               PROVE  RiverHeights(a)[k] = RiverHeights(b)[k]
    OBVIOUS
  <2>1. k \in 1..(b + 1) /\ k \in Nat \ {0}
    OBVIOUS
  <2>2. /\ RiverHeights(a)[k] = IF all_ones(k) THEN BitLength(k) - 1
                                ELSE RiverHeights(a)[HeightStep(k)]
        /\ RiverHeights(b)[k] = IF all_ones(k) THEN BitLength(k) - 1
                                ELSE RiverHeights(b)[HeightStep(k)]
    BY <2>1, HeightsDefined
  <2>3. CASE all_ones(k)
    BY <2>2, <2>3
  <2>4. CASE ~all_ones(k)
    <3>1. HeightStep(k) \in Nat \ {0} /\ HeightStep(k) < k
      BY <2>1, <2>4, HeightSteps
    <3>2. HeightStep(k) \in 1..(a + 1) /\ HeightStep(k) <= m /\ HeightStep(k) <= b + 1
      BY <3>1
    <3>3. RiverHeights(a)[HeightStep(k)] = RiverHeights(b)[HeightStep(k)]
      BY <3>2
    <3> QED BY <2>2, <2>4, <3>3
  <2> QED BY <2>3, <2>4
<1>3. Nat \subseteq P
  <2> HIDE DEF P
  <2> QED BY <1>1, <1>2, SetInduction
<1>4. n - 1 \in Nat /\ n \in Nat /\ n <= (n - 1) + 1 /\ (n - 1) + 1 = n
  OBVIOUS
<1>5. RiverHeights(i)[n] = RiverHeights(n - 1)[n]
  BY <1>3, <1>4
<1>6. index_height_mmriver(n - 1) = RiverHeights(n - 1)[(n - 1) + 1]
  BY <1>4, HeightsDefined
<1> QED BY <1>4, <1>5, <1>6

\* The root of a perfect tree of height k that is the first in the MMR.
LEMMA PerfectHeight ==
  ASSUME NEW k \in Nat
  PROVE  /\ Pow2[k + 1] - 2 \in Nat
         /\ index_height_mmriver(Pow2[k + 1] - 2) = k
<1> DEFINE n == Pow2[k + 1] - 1
<1>1. /\ Pow2[k] \in Nat \ {0} /\ Pow2[k + 1] = 2 * Pow2[k]
  BY Pow2Doubles
<1>2. n \in Nat \ {0} /\ n - 1 = Pow2[k + 1] - 2 /\ Pow2[k] <= n /\ n < Pow2[k + 1]
  BY <1>1
<1>3. BitLength(n) = k + 1
  <2> HIDE DEF n
  <2> QED BY <1>2, BitLengthIs
<1>4. all_ones(n)
  BY <1>2, <1>3 DEF all_ones
<1> HIDE DEF n
<1>5. n - 1 \in Nat /\ (n - 1) + 1 = n /\ n \in 1..((n - 1) + 1)
  BY <1>2
<1>6. index_height_mmriver(n - 1) = RiverHeights(n - 1)[n]
  BY <1>5, HeightsDefined
<1>7. RiverHeights(n - 1)[n] = BitLength(n) - 1
  BY <1>4, <1>5, HeightsDefined
<1>8. (k + 1) - 1 = k
  OBVIOUS
<1> QED BY <1>2, <1>3, <1>5, <1>6, <1>7, <1>8

\* Any other node is as high as the one at its place in the first tree of the
\* height of the tree before it.
LEMMA ShiftedHeight ==
  ASSUME NEW k \in Nat, NEW i \in Nat, i < Pow2[k + 1] - 1
  PROVE  index_height_mmriver((Pow2[k + 1] - 1) + i) = index_height_mmriver(i)
<1> DEFINE n == Pow2[k + 1] + i
<1>1. /\ Pow2[k + 1] \in Nat \ {0} /\ Pow2[(k + 1) + 1] = 2 * Pow2[k + 1]
      /\ k + 1 \in Nat
  BY Pow2Doubles
<1>2. /\ n \in Nat \ {0} /\ n - 1 \in Nat /\ (n - 1) + 1 = n
      /\ Pow2[k + 1] <= n /\ n < Pow2[(k + 1) + 1]
      /\ n # Pow2[(k + 1) + 1] - 1
      /\ (Pow2[k + 1] - 1) + i = n - 1
      /\ n - (Pow2[k + 1] - 1) = i + 1
      /\ i + 1 < n
  BY <1>1
<1> HIDE DEF n
<1>3. BitLength(n) = (k + 1) + 1
  BY <1>1, <1>2, BitLengthIs
<1>4. ~all_ones(n)
  BY <1>2, <1>3 DEF all_ones
<1>5. most_sig_bit(n) = Pow2[k + 1]
  <2>1. ((k + 1) + 1) - 1 = k + 1
    OBVIOUS
  <2> QED BY <1>2, <1>3, <2>1, HeightSteps
<1>6. HeightStep(n) = i + 1
  BY <1>2, <1>5 DEF HeightStep
<1>7. n \in 1..((n - 1) + 1) /\ i + 1 \in 1..((n - 1) + 1) /\ (i + 1) - 1 = i
  BY <1>2
<1>8. index_height_mmriver(n - 1) = RiverHeights(n - 1)[n]
  BY <1>2, HeightsDefined
<1>9. RiverHeights(n - 1)[n] = RiverHeights(n - 1)[i + 1]
  BY <1>2, <1>4, <1>6, <1>7, HeightsDefined
<1>10. RiverHeights(n - 1)[i + 1] = index_height_mmriver((i + 1) - 1)
  BY <1>2, <1>7, HeightsAreOne
<1> QED BY <1>2, <1>7, <1>8, <1>9, <1>10

-----------------------------------------------------------------------------
(* Families.                                                               *)

\* A position is the root of the first tree of some height, or it is in the second
\* tree of that height.
LEMMA PositionCases ==
  ASSUME NEW i \in Nat
  PROVE  \E k \in Nat :
           \/ i = Pow2[k + 1] - 2
           \/ \E j \in Nat : j < Pow2[k + 1] - 1 /\ i = (Pow2[k + 1] - 1) + j
<1> DEFINE n == i + 2
           b == BitLength(n)
<1>1. /\ b \in Nat /\ Pow2[b - 1] <= n /\ n < Pow2[b] /\ Pow2[b] = 2 * Pow2[b - 1]
      /\ b - 1 \in Nat /\ Pow2[b - 1] \in Nat
  BY HeightSteps
<1> HIDE DEF b
<1>2. b - 1 # 0
  <2> SUFFICES ASSUME b - 1 = 0 PROVE FALSE
    OBVIOUS
  <2>1. Pow2[b - 1] = 1
    BY Pow2Doubles
  <2> QED BY <1>1, <2>1
<1>3. b - 2 \in Nat /\ (b - 2) + 1 = b - 1
  BY <1>1, <1>2
<1>4. /\ i = Pow2[b - 1] - 2 \/ (/\ i - (Pow2[b - 1] - 1) \in Nat
                                 /\ i - (Pow2[b - 1] - 1) < Pow2[b - 1] - 1
                                 /\ i = (Pow2[b - 1] - 1) + (i - (Pow2[b - 1] - 1)))
  BY <1>1
<1> QED BY <1>3, <1>4

\* Powers of two are positive, and the next is twice as large.
LEMMA TreeSizes ==
  ASSUME NEW k \in Nat
  PROVE  /\ Pow2[k] \in Nat \ {0}
         /\ Pow2[k + 1] \in Nat /\ Pow2[k + 1] = 2 * Pow2[k] /\ Pow2[k + 1] >= 2
<1>1. Pow2[k] \in Nat \ {0} /\ Pow2[k + 1] = 2 * Pow2[k]
  BY Pow2Doubles
<1> QED BY <1>1

\* Induction over positions: from the root of a tree to that of the next higher
\* one, and from the first tree of some height to the second.
LEMMA TreeInduction ==
  ASSUME NEW S,
         \A k \in Nat : Pow2[k + 1] - 2 \in S,
         \A k, j \in Nat :
           j < Pow2[k + 1] - 1 /\ j \in S => (Pow2[k + 1] - 1) + j \in S
  PROVE  Nat \subseteq S
<1> SUFFICES ASSUME Nat \ S # {} PROVE FALSE
  OBVIOUS
<1>1. PICK i \in Nat \ S : \A j \in Nat \ S : i <= j
  BY LeastNat
<1>2. PICK k \in Nat :
        \/ i = Pow2[k + 1] - 2
        \/ \E j \in Nat : j < Pow2[k + 1] - 1 /\ i = (Pow2[k + 1] - 1) + j
  BY PositionCases
<1>3. PICK j \in Nat : j < Pow2[k + 1] - 1 /\ i = (Pow2[k + 1] - 1) + j
  BY <1>2
<1>4. j < i
  BY <1>3, TreeSizes
<1>5. j \in S
  BY <1>1, <1>4
<1> QED BY <1>3, <1>5

\* The first node is a leaf.
LEMMA FirstIsLeaf == index_height_mmriver(0) = 0
<1>1. Pow2[0 + 1] - 2 = 0
  BY Pow2Doubles
<1> QED BY <1>1, PerfectHeight

\* What comes after a node is its parent, one higher, or a leaf.
LEMMA NextHeight ==
  ASSUME NEW i \in Nat
  PROVE  index_height_mmriver(i + 1) \in {0, index_height_mmriver(i) + 1}
<1> DEFINE H(n) == index_height_mmriver(n)
           S == {n \in Nat : H(n + 1) \in {0, H(n) + 1}}
<1>1. ASSUME NEW k \in Nat PROVE Pow2[k + 1] - 2 \in S
  <2> DEFINE size == Pow2[k + 1]
  <2>1. size \in Nat /\ size >= 2
    BY TreeSizes
  <2>2. H((size - 1) + 0) = 0
    <3>1. 0 < size - 1
      BY <2>1
    <3> QED BY <3>1, FirstIsLeaf, ShiftedHeight
  <2> HIDE DEF size, H
  <2>3. size - 2 \in Nat /\ (size - 2) + 1 = (size - 1) + 0
    BY <2>1
  <2> QED BY <2>2, <2>3 DEF size
<1>2. ASSUME NEW k \in Nat, NEW j \in Nat, j < Pow2[k + 1] - 1, j \in S
      PROVE  (Pow2[k + 1] - 1) + j \in S
  <2> DEFINE size == Pow2[k + 1]
             n == (size - 1) + j
  <2>1. size \in Nat /\ size >= 2 /\ n \in Nat
    <3>1. size \in Nat /\ size >= 2
      BY TreeSizes
    <3> HIDE DEF size
    <3> QED BY <3>1
  <2>2. H(n) = H(j)
    BY <1>2, ShiftedHeight
  <2>3. H(n + 1) \in {0, H(n) + 1}
    <3>1. CASE j + 1 < size - 1
      <4>1. n + 1 = (size - 1) + (j + 1) /\ j + 1 \in Nat
        BY <2>1
      <4>2. H(n + 1) = H(j + 1)
        BY <3>1, <4>1, ShiftedHeight
      <4> QED BY <1>2, <2>2, <4>2
    <3>2. CASE j = size - 2
      <4>1. H(j) = k
        BY <3>2, PerfectHeight
      <4>2. k + 1 \in Nat /\ Pow2[(k + 1) + 1] = 2 * size
        BY TreeSizes
      <4>3. n + 1 = Pow2[(k + 1) + 1] - 2
        BY <2>1, <3>2, <4>2
      <4>4. H(n + 1) = k + 1
        BY <4>2, <4>3, PerfectHeight
      <4> QED BY <2>2, <4>1, <4>4
    <3> HIDE DEF n, H
    <3> QED BY <1>2, <2>1, <3>1, <3>2
  <2> HIDE DEF H
  <2> QED BY <2>1, <2>3
<1>3. Nat \subseteq S
  <2> HIDE DEF S
  <2> QED BY <1>1, <1>2, TreeInduction
<1> QED BY <1>3

\* The children of a node are one lower: the right one comes just before it, the
\* left one before all of the right one's tree.
LEMMA ChildrenHeights ==
  ASSUME NEW i \in Nat, index_height_mmriver(i) # 0
  PROVE  LET h == index_height_mmriver(i)
         IN  /\ h - 1 \in Nat /\ i - 1 \in Nat /\ i - Pow2[h] \in Nat
             /\ index_height_mmriver(i - 1) = h - 1
             /\ index_height_mmriver(i - Pow2[h]) = h - 1
<1> DEFINE H(n) == index_height_mmriver(n)
           Good(n) == H(n) # 0 =>
                        /\ H(n) - 1 \in Nat /\ n - 1 \in Nat /\ n - Pow2[H(n)] \in Nat
                        /\ H(n - 1) = H(n) - 1
                        /\ H(n - Pow2[H(n)]) = H(n) - 1
           S == {n \in Nat : Good(n)}
<1>1. ASSUME NEW k \in Nat PROVE Pow2[k + 1] - 2 \in S
  <2> DEFINE n == Pow2[k + 1] - 2
  <2>1. H(n) = k /\ n \in Nat
    BY PerfectHeight
  <2> SUFFICES ASSUME k # 0 PROVE Good(n)
    BY <2>1
  <2> DEFINE l == k - 1
             size == Pow2[k]
  <2>2. l \in Nat /\ l + 1 = k
    OBVIOUS
  <2> HIDE DEF l
  <2>3. Pow2[k + 1] = 2 * size /\ size \in Nat /\ size >= 2 /\ Pow2[l + 1] = size
    BY <2>2, TreeSizes
  <2>4. H(size - 2) = l
    BY <2>2, <2>3, PerfectHeight
  <2> HIDE DEF size, H
  <2>5. /\ n - 1 = (size - 1) + (size - 2) /\ n - 1 \in Nat
        /\ n - size = size - 2 /\ size - 2 \in Nat /\ size - 2 < size - 1
    BY <2>3
  <2>6. H(n - 1) = l
    BY <2>2, <2>3, <2>4, <2>5, ShiftedHeight DEF H
  <2>7. k - 1 = l
    BY <2>2
  <2> HIDE DEF n
  <2> QED BY <2>1, <2>2, <2>4, <2>5, <2>6, <2>7 DEF size
<1>2. ASSUME NEW k \in Nat, NEW j \in Nat, j < Pow2[k + 1] - 1, j \in S
      PROVE  (Pow2[k + 1] - 1) + j \in S
  <2> DEFINE size == Pow2[k + 1]
             n == (size - 1) + j
  <2>1. size \in Nat /\ size >= 2 /\ n \in Nat
    <3>1. size \in Nat /\ size >= 2
      BY TreeSizes
    <3> HIDE DEF size
    <3> QED BY <3>1
  <2>2. H(n) = H(j)
    BY <1>2, ShiftedHeight
  <2> SUFFICES ASSUME H(j) # 0 PROVE Good(n)
    BY <2>1, <2>2
  <2> DEFINE low == Pow2[H(j)]
  <2>3. low \in Nat
    BY NodeHeight, Pow2Doubles
  <2>4. /\ H(j) - 1 \in Nat /\ j - 1 \in Nat /\ j - low \in Nat
        /\ H(j - 1) = H(j) - 1
        /\ H(j - low) = H(j) - 1
    BY <1>2
  <2> HIDE DEF H, low
  <2>5. /\ n - 1 = (size - 1) + (j - 1) /\ n - 1 \in Nat
        /\ n - low = (size - 1) + (j - low) /\ n - low \in Nat
        /\ j - 1 < size - 1 /\ j - low < size - 1
    <3> HIDE DEF size
    <3>1. j < size - 1
      BY <1>2 DEF size
    <3> QED BY <2>1, <2>3, <2>4, <3>1
  <2>6. H(n - 1) = H(j - 1) /\ H(n - low) = H(j - low)
    BY <2>4, <2>5, ShiftedHeight DEF H
  <2> HIDE DEF n
  <2> QED BY <2>2, <2>4, <2>5, <2>6 DEF low
<1> HIDE DEF Good
<1>3. Nat \subseteq S
  <2> HIDE DEF S
  <2> QED BY <1>1, <1>2, TreeInduction
<1>4. Good(i)
  BY <1>3
<1> QED BY <1>4 DEF Good

-----------------------------------------------------------------------------
(* The scan for peaks, and pos_height_in_tree.                             *)

\* What is left of n when mountains of height k - 1 and lower are still to be tried,
\* also for heights that the scan of n does not start at.
Left(n, k) == IF k <= BitLength(n) THEN Unscanned(n)[k] ELSE n

\* The scan takes off one mountain of every height, or none, from any height that is above.
LEMMA LeftSteps ==
  ASSUME NEW n \in Nat
  PROVE  /\ pos_height_in_tree(n) = Left(n, 0)
         /\ \A k \in Nat : n < Pow2[k] => Left(n, k) = n
         /\ \A k \in Nat :
              /\ Left(n, k) \in 0..n
              /\ Left(n, k) = IF Left(n, k + 1) >= Pow2[k + 1] - 1
                              THEN Left(n, k + 1) - (Pow2[k + 1] - 1)
                              ELSE Left(n, k + 1)
              /\ k \in PeakHeights(n) <=> Left(n, k) # Left(n, k + 1)
<1> DEFINE K == BitLength(n)
           rest == Unscanned(n)
<1>1. K \in Nat /\ n < Pow2[K]
  BY BitLengthBounds
<1>2. /\ rest \in [0..K -> 0..n]
      /\ rest[K] = n
      /\ \A k \in 0..(K - 1) :
           rest[k] = IF rest[k + 1] >= Pow2[k + 1] - 1
                     THEN rest[k + 1] - (Pow2[k + 1] - 1) ELSE rest[k + 1]
  BY UnscannedDecreases
<1>3. PeakHeights(n) = {k \in 0..(K - 1) : rest[k] # rest[k + 1]}
  BY DEF PeakHeights
<1>4. pos_height_in_tree(n) = rest[0]
  BY DEF pos_height_in_tree
<1>5. \A k \in Nat : Left(n, k) = IF k <= K THEN rest[k] ELSE n
  BY DEF Left
<1> HIDE DEF K, rest
<1>6. pos_height_in_tree(n) = Left(n, 0)
  BY <1>1, <1>4, <1>5
<1>7. \A k \in Nat : Left(n, k) \in 0..n
  BY <1>1, <1>2, <1>5
<1>8. \A k \in Nat : n < Pow2[k] => k >= K
  <2> TAKE k \in Nat
  <2> HAVE n < Pow2[k]
  <2> SUFFICES ASSUME k < K PROVE FALSE
    BY <1>1
  <2>1. K - 1 \in Nat /\ K # 0 /\ k <= K - 1
    BY <1>1
  <2>2. n # 0
    <3> SUFFICES ASSUME n = 0 PROVE FALSE
      OBVIOUS
    <3>1. BitLength(0) = 0
      BY BitLengthBounds
    <3> QED BY <2>1, <3>1 DEF K
  <2>3. Pow2[K - 1] <= n
    BY <2>2, HeightSteps DEF K
  <2>4. Pow2[k] <= Pow2[K - 1]
    BY <2>1, Pow2Grows
  <2>5. Pow2[k] \in Nat /\ Pow2[K - 1] \in Nat
    BY <2>1, TreeSizes
  <2> QED BY <2>3, <2>4, <2>5
<1>9. \A k \in Nat : k >= K => Left(n, k) = n
  BY <1>1, <1>2, <1>5
<1>10. ASSUME NEW k \in Nat
       PROVE  /\ Left(n, k) = IF Left(n, k + 1) >= Pow2[k + 1] - 1
                              THEN Left(n, k + 1) - (Pow2[k + 1] - 1)
                              ELSE Left(n, k + 1)
              /\ k \in PeakHeights(n) <=> Left(n, k) # Left(n, k + 1)
  <2>1. CASE k < K
    <3>1. k \in 0..(K - 1) /\ Left(n, k) = rest[k] /\ Left(n, k + 1) = rest[k + 1]
      BY <1>1, <1>5, <2>1
    <3> QED BY <1>2, <1>3, <3>1
  <2>2. CASE ~(k < K)
    <3>1. Left(n, k) = n /\ Left(n, k + 1) = n /\ k \notin 0..(K - 1)
      BY <1>1, <1>9, <2>2
    <3>2. n < Pow2[k + 1] - 1
      <4>1. Pow2[K] <= Pow2[k]
        BY <1>1, <2>2, Pow2Grows
      <4>2. Pow2[k] \in Nat \ {0} /\ Pow2[k + 1] = 2 * Pow2[k] /\ Pow2[K] \in Nat
        BY <1>1, TreeSizes
      <4> QED BY <1>1, <4>1, <4>2
    <3>3. Pow2[k + 1] \in Nat
      BY TreeSizes
    <3> QED BY <1>3, <3>1, <3>2, <3>3
  <2> QED BY <2>1, <2>2
<1> QED BY <1>6, <1>7, <1>8, <1>9, <1>10

\* After a tree of height k the scan goes on as if it had not been there.
LEMMA LeftShifted ==
  ASSUME NEW k \in Nat, NEW m \in Nat, m < Pow2[k + 1] - 1
  PROVE  /\ \A j \in 0..k : Left((Pow2[k + 1] - 1) + m, j) = Left(m, j)
         /\ PeakHeights((Pow2[k + 1] - 1) + m) = {k} \cup PeakHeights(m)
<1> DEFINE size == Pow2[k + 1]
           n == (size - 1) + m
<1>1. /\ size \in Nat /\ size >= 2 /\ Pow2[(k + 1) + 1] = 2 * size
      /\ k + 1 \in Nat /\ (k + 1) + 1 \in Nat
  <2>1. k + 1 \in Nat
    OBVIOUS
  <2> QED BY <2>1, TreeSizes
<1>2. n \in Nat /\ n < 2 * size - 1 /\ n - (size - 1) = m /\ n >= size - 1
      /\ m < size
  BY <1>1
<1> HIDE DEF n
<1>3. /\ \A j \in Nat :
           /\ Left(n, j) \in 0..n
           /\ Left(n, j) = IF Left(n, j + 1) >= Pow2[j + 1] - 1
                           THEN Left(n, j + 1) - (Pow2[j + 1] - 1)
                           ELSE Left(n, j + 1)
           /\ j \in PeakHeights(n) <=> Left(n, j) # Left(n, j + 1)
      /\ \A j \in Nat : n < Pow2[j] => Left(n, j) = n
  BY <1>2, LeftSteps
<1>4. /\ \A j \in Nat :
           /\ Left(m, j) \in 0..m
           /\ Left(m, j) = IF Left(m, j + 1) >= Pow2[j + 1] - 1
                           THEN Left(m, j + 1) - (Pow2[j + 1] - 1)
                           ELSE Left(m, j + 1)
           /\ j \in PeakHeights(m) <=> Left(m, j) # Left(m, j + 1)
      /\ \A j \in Nat : m < Pow2[j] => Left(m, j) = m
  BY LeftSteps
<1>5. \A j \in Nat : j >= k + 1 => Left(m, j) = m
  <2> TAKE j \in Nat
  <2> HAVE j >= k + 1
  <2>1. size <= Pow2[j] /\ Pow2[j] \in Nat
    BY <1>1, Pow2Grows, TreeSizes
  <2>2. m < Pow2[j]
    <3> HIDE DEF size
    <3> QED BY <1>1, <1>2, <2>1
  <2> QED BY <1>4, <2>2
<1>6. \A j \in Nat : j >= (k + 1) + 1 => Left(n, j) = n
  <2> TAKE j \in Nat
  <2> HAVE j >= (k + 1) + 1
  <2>1. Pow2[(k + 1) + 1] <= Pow2[j] /\ Pow2[j] \in Nat
    BY <1>1, Pow2Grows, TreeSizes
  <2>2. n < Pow2[j]
    <3> HIDE DEF size
    <3> QED BY <1>1, <1>2, <2>1
  <2> QED BY <1>3, <2>2
<1>7. Left(n, k + 1) = n
  <2>1. Left(n, (k + 1) + 1) = n
    BY <1>1, <1>6
  <2>2. Left(n, k + 1) = IF n >= 2 * size - 1 THEN n - (2 * size - 1) ELSE n
    BY <1>1, <1>3, <2>1
  <2> HIDE DEF size
  <2> QED BY <1>1, <1>2, <2>2
<1>8. Left(n, k) = m /\ Left(m, k) = m /\ n # m
  <2>1. Left(n, k) = IF n >= size - 1 THEN n - (size - 1) ELSE n
    BY <1>3, <1>7
  <2>2. Left(m, k + 1) = m
    BY <1>1, <1>5
  <2>3. Left(m, k) = IF m >= size - 1 THEN m - (size - 1) ELSE m
    BY <1>4, <2>2
  <2>4. m < size - 1
    OBVIOUS
  <2> HIDE DEF size
  <2> QED BY <1>1, <1>2, <2>1, <2>3, <2>4
<1>9. \A j \in 0..k : Left(n, j) = Left(m, j)
  <2> DEFINE P == {d \in Nat : d <= k => Left(n, k - d) = Left(m, k - d)}
  <2>1. 0 \in P
    BY <1>8
  <2>2. \A d \in Nat : d \in P => d + 1 \in P
    <3> TAKE d \in Nat
    <3> HAVE d \in P
    <3> SUFFICES ASSUME d + 1 <= k
                 PROVE  Left(n, k - (d + 1)) = Left(m, k - (d + 1))
      OBVIOUS
    <3> DEFINE j == k - (d + 1)
    <3>1. j \in Nat /\ j + 1 = k - d /\ d <= k
      OBVIOUS
    <3>2. Left(n, j + 1) = Left(m, j + 1)
      BY <3>1
    <3> HIDE DEF j
    <3>3. Left(n, j) = Left(m, j)
      BY <1>3, <1>4, <3>1, <3>2
    <3> QED BY <3>3 DEF j
  <2>3. Nat \subseteq P
    <3> HIDE DEF P
    <3> QED BY <2>1, <2>2, SetInduction
  <2> TAKE j \in 0..k
  <2>4. k - j \in Nat /\ k - j <= k /\ k - (k - j) = j
    OBVIOUS
  <2> QED BY <2>3, <2>4
<1>10. PeakHeights(n) \subseteq Nat /\ PeakHeights(m) \subseteq Nat
  BY <1>2, PeakFits
<1>11. ASSUME NEW j \in Nat
       PROVE  j \in PeakHeights(n) <=> j = k \/ j \in PeakHeights(m)
  <2>1. CASE j < k
    <3>1. j \in 0..k /\ j + 1 \in 0..k
      BY <2>1
    <3> QED BY <1>3, <1>4, <1>9, <2>1, <3>1
  <2>2. CASE j = k
    <3>1. Left(n, j) # Left(n, j + 1)
      BY <1>7, <1>8, <2>2
    <3> QED BY <1>3, <2>2, <3>1
  <2>3. CASE j > k
    <3>1. j >= k + 1 /\ j + 1 >= k + 1 /\ j + 1 >= (k + 1) + 1 /\ j + 1 \in Nat
      BY <2>3
    <3>2. Left(m, j) = m /\ Left(m, j + 1) = m
      BY <1>5, <3>1
    <3>3. Left(n, j) = n /\ Left(n, j + 1) = n
      BY <1>6, <1>7, <3>1
    <3> QED BY <1>3, <1>4, <2>3, <3>2, <3>3
  <2> QED BY <2>1, <2>2, <2>3
<1>12. PeakHeights(n) = {k} \cup PeakHeights(m)
  BY <1>10, <1>11
<1> QED BY <1>9, <1>12 DEF n

\* pos_height_in_tree and index_height_mmriver give every node the same height.
THEOREM HeightsSame ==
  \A n \in Nat : pos_height_in_tree(n) = index_height_mmriver(n)
<1> DEFINE S == {n \in Nat : pos_height_in_tree(n) = index_height_mmriver(n)}
<1>1. ASSUME NEW k \in Nat PROVE Pow2[k + 1] - 2 \in S
  <2> DEFINE n == Pow2[k + 1] - 2
             P == {d \in Nat : d <= k => Left(n, k - d) = (Pow2[(k - d) + 1] - 2) + d}
  <2>1. n \in Nat /\ index_height_mmriver(n) = k
    BY PerfectHeight
  <2>2. Pow2[k] \in Nat \ {0} /\ Pow2[k + 1] = 2 * Pow2[k]
    BY TreeSizes
  <2>3. /\ pos_height_in_tree(n) = Left(n, 0)
        /\ \A j \in Nat : n < Pow2[j] => Left(n, j) = n
        /\ \A j \in Nat :
             Left(n, j) = IF Left(n, j + 1) >= Pow2[j + 1] - 1
                          THEN Left(n, j + 1) - (Pow2[j + 1] - 1)
                          ELSE Left(n, j + 1)
    <3> HIDE DEF n
    <3> QED BY <2>1, LeftSteps
  <2>4. 0 \in P
    <3>1. Left(n, k + 1) = n
      <4>1. k + 1 \in Nat /\ n < Pow2[k + 1]
        BY <2>2
      <4> HIDE DEF n
      <4> QED BY <2>3, <4>1
    <3>2. Left(n, k) = IF n >= Pow2[k + 1] - 1 THEN n - (Pow2[k + 1] - 1) ELSE n
      <4> HIDE DEF n
      <4> QED BY <2>3, <3>1
    <3>3. Left(n, k) = n
      BY <2>2, <3>2
    <3>4. k - 0 = k /\ (Pow2[k + 1] - 2) + 0 = n
      BY <2>2
    <3> HIDE DEF n
    <3> QED BY <3>3, <3>4
  <2>5. \A d \in Nat : d \in P => d + 1 \in P
    <3> TAKE d \in Nat
    <3> HAVE d \in P
    <3> SUFFICES ASSUME d + 1 <= k
                 PROVE  Left(n, k - (d + 1)) = (Pow2[(k - (d + 1)) + 1] - 2) + (d + 1)
      OBVIOUS
    <3> DEFINE j == k - (d + 1)
               b == Pow2[j + 1]
    <3>1. j \in Nat /\ j + 1 = k - d /\ d <= k /\ j + 1 \in Nat
      OBVIOUS
    <3>2. Left(n, j + 1) = (Pow2[(j + 1) + 1] - 2) + d
      BY <3>1
    <3> HIDE DEF j, n
    <3>3. b \in Nat /\ b >= 2 /\ Pow2[(j + 1) + 1] = 2 * b
      BY <3>1, TreeSizes
    <3>4. Left(n, j) = IF Left(n, j + 1) >= b - 1
                       THEN Left(n, j + 1) - (b - 1) ELSE Left(n, j + 1)
      BY <2>3, <3>1
    <3> HIDE DEF b
    <3>5. Left(n, j) = (b - 2) + (d + 1)
      BY <3>2, <3>3, <3>4
    <3> QED BY <3>5 DEF b, j
  <2>6. Nat \subseteq P
    <3> HIDE DEF P
    <3> QED BY <2>4, <2>5, SetInduction
  <2>7. Left(n, 0) = k
    <3>1. Pow2[0 + 1] = 2
      BY Pow2Doubles
    <3>2. k - k = 0 /\ Left(n, k - k) = (Pow2[(k - k) + 1] - 2) + k
      BY <2>6
    <3> HIDE DEF n
    <3> QED BY <3>1, <3>2
  <2> HIDE DEF n
  <2>8. n \in S
    BY <2>1, <2>3, <2>7
  <2> QED BY <2>8 DEF n
<1>2. ASSUME NEW k \in Nat, NEW m \in Nat, m < Pow2[k + 1] - 1, m \in S
      PROVE  (Pow2[k + 1] - 1) + m \in S
  <2> DEFINE n == (Pow2[k + 1] - 1) + m
  <2>1. n \in Nat
    BY TreeSizes
  <2>2. index_height_mmriver(n) = index_height_mmriver(m)
    BY <1>2, ShiftedHeight
  <2>3. Left(n, 0) = Left(m, 0)
    BY <1>2, LeftShifted
  <2> HIDE DEF n
  <2>4. pos_height_in_tree(n) = Left(n, 0) /\ pos_height_in_tree(m) = Left(m, 0)
    BY <2>1, LeftSteps
  <2>5. n \in S
    BY <1>2, <2>1, <2>2, <2>3, <2>4
  <2> QED BY <2>5 DEF n
<1>3. Nat \subseteq S
  <2> HIDE DEF S
  <2> QED BY <1>1, <1>2, TreeInduction
<1> QED BY <1>3

\* A node follows that is one higher than the last of a push exactly if there was a
\* mountain as high as that before the push.
LEMMA NextIsParent ==
  ASSUME NEW s \in Nat, NEW j \in Nat,
         \A l \in 0..j : index_height_mmriver(s + l) = l
  PROVE  j \in PeakHeights(s) <=> index_height_mmriver(s + (j + 1)) = j + 1
<1> DEFINE H(n) == index_height_mmriver(n)
           Climbs(n, d) == \A l \in 0..d : H(n + l) = l
           S == {n \in Nat : \A d \in Nat :
                   Climbs(n, d) => (d \in PeakHeights(n) <=> H(n + (d + 1)) = d + 1)}
<1>1. ASSUME NEW k \in Nat PROVE Pow2[k + 1] - 2 \in S
  <2> DEFINE n == Pow2[k + 1] - 2
  <2>1. n \in Nat /\ H(n) = k
    BY PerfectHeight
  <2> SUFFICES ASSUME NEW d \in Nat, Climbs(n, d)
               PROVE  d \in PeakHeights(n) <=> H(n + (d + 1)) = d + 1
    BY <2>1
  <2>2. k = 0
    <3>1. H(n + 0) = 0
      OBVIOUS
    <3>2. n + 0 = n
      BY <2>1
    <3> HIDE DEF n, H
    <3> QED BY <2>1, <3>1, <3>2
  <2>3. n = 0
    <3>1. Pow2[k + 1] = 2
      BY <2>2, Pow2Doubles
    <3> QED BY <3>1
  <2> HIDE DEF n
  <2>4. H(1) = 0
    <3>1. Pow2[0 + 1] = 2
      BY Pow2Doubles
    <3>2. index_height_mmriver((Pow2[0 + 1] - 1) + 0) = index_height_mmriver(0)
      BY <3>1, ShiftedHeight
    <3>3. (Pow2[0 + 1] - 1) + 0 = 1
      BY <3>1
    <3> QED BY <3>2, <3>3, FirstIsLeaf
  <2>5. d = 0
    <3> SUFFICES ASSUME d # 0 PROVE FALSE
      OBVIOUS
    <3>1. H(n + 1) = 1
      OBVIOUS
    <3>2. n + 1 = 1
      BY <2>3
    <3> HIDE DEF H
    <3> QED BY <2>4, <3>1, <3>2
  <2>6. d \notin PeakHeights(n)
    <3>1. BitLength(0) = 0
      BY BitLengthBounds
    <3> QED BY <2>3, <2>5, <3>1 DEF PeakHeights
  <2>7. n + (d + 1) = 1 /\ d + 1 = 1
    BY <2>3, <2>5
  <2> HIDE DEF H
  <2> QED BY <2>4, <2>6, <2>7
<1>2. ASSUME NEW k \in Nat, NEW m \in Nat, m < Pow2[k + 1] - 1, m \in S
      PROVE  (Pow2[k + 1] - 1) + m \in S
  <2> DEFINE tree == Pow2[k + 1] - 1
             n == tree + m
  <2>1. tree \in Nat /\ tree >= 1 /\ n \in Nat /\ m < tree
    BY <1>2, TreeSizes
  <2> SUFFICES ASSUME NEW d \in Nat, Climbs(n, d)
               PROVE  d \in PeakHeights(n) <=> H(n + (d + 1)) = d + 1
    BY <2>1
  <2>2. PeakHeights(n) = {k} \cup PeakHeights(m)
    BY <1>2, LeftShifted
  <2>3. \A i \in Nat : i < tree => H(tree + i) = H(i)
    BY ShiftedHeight
  <2>4. H(tree - 1) = k /\ tree - 1 \in Nat
    <3>1. Pow2[k + 1] - 2 = tree - 1
      BY <2>1, TreeSizes
    <3> QED BY <3>1, PerfectHeight
  <2>5. H(tree + tree) = k + 1
    <3>1. k + 1 \in Nat /\ Pow2[(k + 1) + 1] = 2 * Pow2[k + 1] /\ Pow2[k + 1] \in Nat
      BY TreeSizes
    <3>2. Pow2[(k + 1) + 1] - 2 = tree + tree
      BY <3>1
    <3> QED BY <3>1, <3>2, PerfectHeight
  <2>6. H(tree + tree + 1) = 0
    <3>1. k + 1 \in Nat /\ Pow2[(k + 1) + 1] = 2 * Pow2[k + 1] /\ Pow2[k + 1] \in Nat
      BY TreeSizes
    <3>2. (Pow2[(k + 1) + 1] - 1) + 0 = tree + tree + 1 /\ 0 < Pow2[(k + 1) + 1] - 1
      BY <2>1, <3>1
    <3>3. H((Pow2[(k + 1) + 1] - 1) + 0) = H(0)
      BY <3>1, <3>2, ShiftedHeight
    <3> QED BY <3>2, <3>3, FirstIsLeaf
  <2>7. \A i \in Nat : H(i) = k => i >= tree - 1
    <3> TAKE i \in Nat
    <3> HAVE H(i) = k
    <3>1. Pow2[k + 1] - 1 <= i + 1
      BY NodeHeight
    <3>2. Pow2[k + 1] \in Nat
      BY TreeSizes
    <3> QED BY <3>1, <3>2
  <2>8. \A h \in PeakHeights(n) : Pow2[h + 1] - 1 <= n /\ h \in Nat
    <3> HIDE DEF n
    <3> QED BY <2>1, PeakFits
  <2>9. Pow2[(k + 1) + 1] - 1 > n
    <3>1. Pow2[(k + 1) + 1] = 2 * Pow2[k + 1] /\ Pow2[k + 1] \in Nat
      <4>1. k + 1 \in Nat
        OBVIOUS
      <4> QED BY <4>1, TreeSizes
    <3> QED BY <2>1, <3>1
  <2>10. \A l \in 0..d : H(n + l) = l
    OBVIOUS
  <2>11. m \in S
    BY <1>2
  <2> HIDE DEF tree, H
  <2>12. CASE m + d < tree
    <3>1. \A l \in 0..d : H(m + l) = l
      <4> TAKE l \in 0..d
      <4>1. m + l \in Nat /\ m + l < tree /\ n + l = tree + (m + l)
        BY <2>1, <2>12
      <4>2. H(tree + (m + l)) = l
        BY <2>10, <4>1
      <4> QED BY <2>3, <4>1, <4>2
    <3>2. d \in PeakHeights(m) <=> H(m + (d + 1)) = d + 1
      BY <2>11, <3>1
    <3> HIDE DEF n
    <3>3. CASE m + (d + 1) < tree
      <4>1. H(n + (d + 1)) = H(m + (d + 1))
        <5>1. n + (d + 1) = tree + (m + (d + 1)) /\ m + (d + 1) \in Nat
          BY <2>1 DEF n
        <5> QED BY <2>3, <3>3, <5>1
      <4>2. d # k
        <5> SUFFICES ASSUME d = k PROVE FALSE
          OBVIOUS
        <5>1. H(m + d) = k /\ m + d \in Nat
          BY <3>1
        <5>2. m + d >= tree - 1
          BY <2>7, <5>1
        <5> QED BY <2>1, <3>3, <5>2
      <4> QED BY <2>2, <3>2, <4>1, <4>2
    <3>4. CASE m + (d + 1) = tree
      <4>1. m + d = tree - 1
        BY <2>1, <3>4
      <4>2. H(m + d) = d
        BY <3>1
      <4>3. d = k
        BY <2>4, <4>1, <4>2
      <4>4. n + (d + 1) = tree + tree
        BY <2>1, <3>4 DEF n
      <4> QED BY <2>2, <2>5, <4>3, <4>4
    <3> QED BY <2>1, <2>12, <3>3, <3>4
  <2>13. CASE ~(m + d < tree)
    <3> DEFINE l == tree - m
    <3>1. l \in 1..d /\ n + l = tree + tree
      BY <2>1, <2>13
    <3>2. H(n + l) = l
      BY <2>10, <3>1
    <3>3. l = k + 1
      BY <2>5, <3>1, <3>2
    <3> HIDE DEF l, n
    <3>4. d = l
      <4> SUFFICES ASSUME d # l PROVE FALSE
        OBVIOUS
      <4>1. l + 1 \in 0..d /\ n + (l + 1) = tree + tree + 1 /\ l + 1 # 0
        BY <2>1, <3>1
      <4>2. H(n + (l + 1)) = l + 1
        BY <2>10, <4>1
      <4> QED BY <2>6, <4>1, <4>2
    <3>5. d \notin PeakHeights(n)
      <4>1. d + 1 = (k + 1) + 1
        BY <3>3, <3>4
      <4>2. Pow2[d + 1] - 1 > n
        BY <2>9, <4>1
      <4>3. Pow2[d + 1] \in Nat
        BY TreeSizes
      <4> QED BY <2>1, <2>8, <4>2, <4>3
    <3>6. n + (d + 1) = tree + tree + 1 /\ d + 1 # 0
      BY <2>1, <3>1, <3>4
    <3> QED BY <2>6, <3>5, <3>6
  <2> QED BY <2>12, <2>13
<1>3. Nat \subseteq S
  <2> HIDE DEF S
  <2> QED BY <1>1, <1>2, TreeInduction
<1>4. Climbs(s, j)
  OBVIOUS
<1> HIDE DEF H
<1> QED BY <1>3, <1>4 DEF H

-----------------------------------------------------------------------------
(* The sizes between pushes.                                               *)

\* Below its highest bit, a number and the rest have the same bits.
LEMMA HighBitShifts ==
  ASSUME NEW k \in Nat, NEW m \in Nat
  PROVE  \A j \in 0..k : (Pow2[k] + m) \div Pow2[j] = Pow2[k - j] + (m \div Pow2[j])
<1> DEFINE n == Pow2[k] + m
           S == {j \in Nat : j <= k => n \div Pow2[j] = Pow2[k - j] + (m \div Pow2[j])}
<1>1. n \in Nat
  BY Pow2Doubles
<1>2. 0 \in S
  <2>1. \A a \in Nat : a \div 1 = a
    OBVIOUS
  <2>2. Pow2[0] = 1 /\ k - 0 = k
    BY Pow2Doubles
  <2> HIDE DEF n
  <2>3. n \div Pow2[0] = n /\ m \div Pow2[0] = m
    BY <1>1, <2>1, <2>2
  <2> QED BY <2>2, <2>3 DEF n
<1>3. \A j \in Nat : j \in S => j + 1 \in S
  <2> TAKE j \in Nat
  <2> HAVE j \in S
  <2> SUFFICES ASSUME j + 1 <= k
               PROVE  n \div Pow2[j + 1] = Pow2[k - (j + 1)] + (m \div Pow2[j + 1])
    OBVIOUS
  <2> DEFINE b == Pow2[j]
             c == Pow2[k - (j + 1)]
  <2>1. b \in Nat \ {0} /\ Pow2[j + 1] = 2 * b
    BY TreeSizes
  <2>2. c \in Nat /\ Pow2[k - j] = 2 * c
    <3>1. k - (j + 1) \in Nat /\ (k - (j + 1)) + 1 = k - j
      OBVIOUS
    <3> QED BY <3>1, TreeSizes
  <2>3. n \div b = 2 * c + (m \div b)
    BY <2>2
  <2> HIDE DEF n, b, c
  <2>4. n \div (2 * b) = (n \div b) \div 2 /\ m \div (2 * b) = (m \div b) \div 2
    BY <1>1, <2>1, HalvedQuotient
  <2>5. \A x, y \in Nat : (2 * x + y) \div 2 = x + (y \div 2)
    OBVIOUS
  <2>6. m \div b \in Nat
    BY <2>1
  <2>7. (n \div b) \div 2 = c + ((m \div b) \div 2)
    BY <2>2, <2>3, <2>5, <2>6
  <2>8. n \div Pow2[j + 1] = c + (m \div Pow2[j + 1])
    BY <2>1, <2>4, <2>7
  <2> QED BY <2>8 DEF c
<1>4. Nat \subseteq S
  <2> HIDE DEF S
  <2> QED BY <1>2, <1>3, SetInduction
<1> QED BY <1>4

\* The positions of the ones of a number.
Ones(n) == {k \in 0..BitLength(n) : HasBit(n, Pow2[k])}

\* A number with a new highest bit has that bit and those it had.
LEMMA OnesSplit ==
  ASSUME NEW k \in Nat, NEW m \in Nat, m < Pow2[k]
  PROVE  /\ Ones(Pow2[k] + m) = {k} \cup Ones(m)
         /\ k \notin Ones(m)
<1> DEFINE n == Pow2[k] + m
<1>1. /\ Pow2[k] \in Nat \ {0} /\ Pow2[k + 1] = 2 * Pow2[k]
      /\ n \in Nat \ {0} /\ Pow2[k] <= n /\ n < Pow2[k + 1]
  <2>1. Pow2[k] \in Nat \ {0} /\ Pow2[k + 1] = 2 * Pow2[k]
    BY TreeSizes
  <2> QED BY <2>1
<1>2. \A j \in 0..k : n \div Pow2[j] = Pow2[k - j] + (m \div Pow2[j])
  BY HighBitShifts
<1> HIDE DEF n
<1>3. BitLength(n) = k + 1
  BY <1>1, BitLengthIs
<1>4. \A l \in Nat : m < Pow2[l] => ~HasBit(m, Pow2[l])
  <2> TAKE l \in Nat
  <2> HAVE m < Pow2[l]
  <2>1. Pow2[l] \in Nat \ {0}
    BY Pow2Doubles
  <2>2. \A b \in Nat \ {0} : m < b => m \div b = 0
    OBVIOUS
  <2>3. m \div Pow2[l] = 0
    BY <2>1, <2>2
  <2> QED BY <2>3 DEF HasBit
<1>5. \A j \in Nat : HasBit(m, Pow2[j]) => j < k /\ j \in 0..BitLength(m)
  <2> TAKE j \in Nat
  <2> HAVE HasBit(m, Pow2[j])
  <2>1. \A a, b \in Nat : a <= b => Pow2[a] <= Pow2[b]
    BY Pow2Grows
  <2>2. BitLength(m) \in Nat /\ m < Pow2[BitLength(m)]
    BY BitLengthBounds
  <2>3. Pow2[j] \in Nat /\ Pow2[BitLength(m)] \in Nat
    BY <2>2, Pow2Doubles
  <2>4. ~(m < Pow2[j])
    BY <1>4
  <2>5. ~(k <= j)
    <3>1. k <= j => Pow2[k] <= Pow2[j]
      BY <2>1
    <3> QED BY <1>1, <2>3, <2>4, <3>1
  <2>6. ~(BitLength(m) <= j)
    <3>1. BitLength(m) <= j => Pow2[BitLength(m)] <= Pow2[j]
      BY <2>1, <2>2
    <3> QED BY <2>2, <2>3, <2>4, <3>1
  <2> QED BY <2>2, <2>5, <2>6
<1>6. \A j \in 0..k : HasBit(n, Pow2[j]) <=> j = k \/ HasBit(m, Pow2[j])
  <2> TAKE j \in 0..k
  <2>1. n \div Pow2[j] = Pow2[k - j] + (m \div Pow2[j])
    BY <1>2
  <2>2. Pow2[j] \in Nat \ {0}
    BY Pow2Doubles
  <2>3. m \div Pow2[j] \in Nat
    BY <2>2
  <2>4. CASE j = k
    <3>1. Pow2[k - j] = 1
      <4>1. k - j = 0
        BY <2>4
      <4> QED BY <4>1, Pow2Doubles
    <3>2. m \div Pow2[j] = 0
      <4>1. \A b \in Nat \ {0} : m < b => m \div b = 0
        OBVIOUS
      <4> QED BY <2>2, <2>4, <4>1
    <3>3. n \div Pow2[j] = 1
      BY <2>1, <3>1, <3>2
    <3> QED BY <2>4, <3>3 DEF HasBit
  <2>5. CASE j # k
    <3>1. (k - j) - 1 \in Nat /\ ((k - j) - 1) + 1 = k - j
      BY <2>5
    <3>2. PICK c \in Nat : Pow2[k - j] = 2 * c
      BY <3>1, TreeSizes
    <3>3. \A x, y \in Nat : (2 * x + y) % 2 = y % 2
      OBVIOUS
    <3>4. (n \div Pow2[j]) % 2 = (m \div Pow2[j]) % 2
      BY <2>1, <2>3, <3>2, <3>3
    <3> QED BY <2>5, <3>4 DEF HasBit
  <2> QED BY <2>4, <2>5
<1>7. ~HasBit(n, Pow2[k + 1])
  <2>1. \A b \in Nat \ {0} : n < b => n \div b = 0
    BY <1>1
  <2>2. Pow2[k + 1] \in Nat \ {0}
    BY <1>1
  <2>3. n \div Pow2[k + 1] = 0
    BY <1>1, <2>1, <2>2
  <2> QED BY <2>3 DEF HasBit
<1>8. Ones(n) = {j \in 0..(k + 1) : HasBit(n, Pow2[j])}
  BY <1>3 DEF Ones
<1>9. Ones(n) = {j \in 0..k : j = k \/ HasBit(m, Pow2[j])}
  BY <1>6, <1>7, <1>8
<1>10. Ones(m) = {j \in 0..k : HasBit(m, Pow2[j])} /\ k \notin Ones(m)
  <2>1. BitLength(m) \in Nat
    BY BitLengthBounds
  <2> QED BY <1>5, <2>1 DEF Ones
<1>11. Ones(n) = {k} \cup Ones(m)
  BY <1>9, <1>10
<1> QED BY <1>10, <1>11 DEF n

\* Induction over numbers: add a higher bit.
LEMMA BitInduction ==
  ASSUME NEW S, 0 \in S,
         \A k, m \in Nat : m < Pow2[k] /\ m \in S => Pow2[k] + m \in S
  PROVE  Nat \subseteq S
<1> SUFFICES ASSUME Nat \ S # {} PROVE FALSE
  OBVIOUS
<1>1. PICK n \in Nat \ S : \A j \in Nat \ S : n <= j
  BY LeastNat
<1>2. n \in Nat \ {0}
  BY <1>1
<1> DEFINE k == BitLength(n) - 1
<1>3. /\ k \in Nat /\ Pow2[k] \in Nat \ {0} /\ Pow2[k] <= n /\ n < 2 * Pow2[k]
  BY <1>2, HeightSteps
<1> HIDE DEF k
<1>4. /\ n - Pow2[k] \in Nat /\ n - Pow2[k] < Pow2[k] /\ n - Pow2[k] < n
      /\ Pow2[k] + (n - Pow2[k]) = n
  BY <1>2, <1>3
<1>5. n - Pow2[k] \in S
  BY <1>1, <1>4
<1>6. Pow2[k] + (n - Pow2[k]) \in S
  BY <1>3, <1>4, <1>5
<1> QED BY <1>1, <1>4, <1>6

\* It has one bit more, then.
LEMMA CountSplit ==
  ASSUME NEW k \in Nat, NEW m \in Nat, m < Pow2[k]
  PROVE  /\ count_ones(m) \in Nat
         /\ count_ones(Pow2[k] + m) = count_ones(m) + 1
<1>1. IsFiniteSet(Ones(m))
  <2>1. BitLength(m) \in Nat
    BY BitLengthBounds
  <2>2. IsFiniteSet(0..BitLength(m))
    BY <2>1, FS_Interval
  <2> QED BY <2>2, FS_Subset DEF Ones
<1>2. /\ Cardinality(Ones(m)) \in Nat
      /\ Cardinality(Ones(m) \cup {k}) = Cardinality(Ones(m)) + 1
  BY <1>1, OnesSplit, FS_AddElement, FS_CardinalityType
<1>3. Ones(Pow2[k] + m) = Ones(m) \cup {k}
  BY OnesSplit
<1>4. \A n \in Nat : count_ones(n) = Cardinality(Ones(n))
  BY DEF count_ones, Ones
<1>5. Pow2[k] + m \in Nat
  BY Pow2Doubles
<1> QED BY <1>2, <1>3, <1>4, <1>5

\* No number has more bits set than units.
LEMMA CountBounds ==
  ASSUME NEW n \in Nat
  PROVE  count_ones(n) \in 0..n
<1> DEFINE S == {m \in Nat : count_ones(m) \in 0..m}
<1>1. 0 \in S
  <2>2. ~HasBit(0, 1)
    BY DEF HasBit
  <2>3. BitLength(0) = 0
    BY BitLengthBounds
  <2>4. {j \in 0..0 : HasBit(0, Pow2[j])} = {}
    BY <2>2, Pow2Doubles
  <2>5. count_ones(0) = 0
    BY <2>3, <2>4, FS_EmptySet DEF count_ones
  <2> QED BY <2>5
<1>2. ASSUME NEW k \in Nat, NEW m \in Nat, m < Pow2[k], m \in S
      PROVE  Pow2[k] + m \in S
  <2>1. count_ones(Pow2[k] + m) = count_ones(m) + 1 /\ count_ones(m) \in 0..m
    BY <1>2, CountSplit
  <2>2. Pow2[k] \in Nat \ {0}
    BY Pow2Doubles
  <2>3. count_ones(m) + 1 \in 0..(Pow2[k] + m) /\ Pow2[k] + m \in Nat
    <3>1. \A c \in 0..m, b \in Nat \ {0} : c + 1 \in 0..(b + m) /\ b + m \in Nat
      OBVIOUS
    <3> QED BY <2>1, <2>2, <3>1
  <2> QED BY <2>1, <2>3
<1>3. Nat \subseteq S
  <2> HIDE DEF S
  <2> QED BY <1>1, <1>2, BitInduction
<1> QED BY <1>3

\* The number of nodes over n leaves.
SizeOf(n) == 2 * n - count_ones(n)

\* The largest tree comes first, and after it the range over the other leaves.
LEMMA SizeSplit ==
  ASSUME NEW k \in Nat, NEW m \in Nat, m < Pow2[k]
  PROVE  /\ SizeOf(m) \in Nat /\ SizeOf(m) < Pow2[k + 1] - 1
         /\ SizeOf(Pow2[k] + m) = (Pow2[k + 1] - 1) + SizeOf(m)
<1>1. count_ones(m) \in 0..m /\ count_ones(Pow2[k] + m) = count_ones(m) + 1
  BY CountBounds, CountSplit
<1>2. Pow2[k] \in Nat \ {0} /\ Pow2[k + 1] = 2 * Pow2[k]
  BY TreeSizes
<1> QED BY <1>1, <1>2 DEF SizeOf

\* Without leaves there are no nodes.
LEMMA NoLeaves == SizeOf(0) = 0
<1>1. count_ones(0) = 0
  BY CountBounds
<1> QED BY <1>1 DEF SizeOf

\* What comes after all the trees over some leaves is a leaf.
LEMMA FinishedHeight ==
  ASSUME NEW n \in Nat
  PROVE  SizeOf(n) \in Nat /\ index_height_mmriver(SizeOf(n)) = 0
<1> DEFINE S == {m \in Nat : /\ SizeOf(m) \in Nat
                              /\ index_height_mmriver(SizeOf(m)) = 0}
<1>1. 0 \in S
  BY NoLeaves, FirstIsLeaf
<1>2. ASSUME NEW k \in Nat, NEW m \in Nat, m < Pow2[k], m \in S
      PROVE  Pow2[k] + m \in S
  <2>1. /\ SizeOf(m) \in Nat /\ SizeOf(m) < Pow2[k + 1] - 1
        /\ SizeOf(Pow2[k] + m) = (Pow2[k + 1] - 1) + SizeOf(m)
    BY <1>2, SizeSplit
  <2>2. index_height_mmriver(SizeOf(Pow2[k] + m)) = 0
    BY <1>2, <2>1, ShiftedHeight
  <2>3. Pow2[k + 1] \in Nat /\ Pow2[k + 1] >= 2 /\ Pow2[k] \in Nat
    BY TreeSizes
  <2>4. SizeOf(Pow2[k] + m) \in Nat /\ Pow2[k] + m \in Nat
    BY <2>1, <2>3
  <2> QED BY <2>2, <2>4
<1>3. Nat \subseteq S
  <2> HIDE DEF S
  <2> QED BY <1>1, <1>2, BitInduction
<1> QED BY <1>3

\* The size leaf_index_to_mmr_size returns is one at which a leaf comes next.
LEMMA LeafIndexHeight ==
  ASSUME NEW index \in Nat
  PROVE  index_height_mmriver(leaf_index_to_mmr_size(index)) = 0
<1>1. leaf_index_to_mmr_size(index) = SizeOf(index + 1)
  BY DEF leaf_index_to_mmr_size, SizeOf
<1> QED BY <1>1, FinishedHeight

-----------------------------------------------------------------------------
(* The position of a leaf: the carries of its index are the merges of its push. *)

\* A number is what it is divided by, times the quotient, plus the remainder.
LEMMA DivMod ==
  ASSUME NEW a \in Nat, NEW c \in Nat \ {0}
  PROVE  a \div c \in Nat /\ a % c \in Nat /\ a = c * (a \div c) + (a % c)
OBVIOUS

\* What a number is a multiple of, its halves are too.
LEMMA HalfDivides ==
  ASSUME NEW a \in Nat, NEW b \in Nat \ {0}, a % (2 * b) = 0
  PROVE  a % b = 0 /\ (a \div b) % 2 = 0
<1> DEFINE q == a \div b
           s == a \div (2 * b)
           r == a % b
           t == q % 2
<1>1. /\ q \in Nat /\ r \in Nat /\ a = b * q + r
      /\ s \in Nat /\ a = (2 * b) * s + (a % (2 * b))
  <2>1. 2 * b \in Nat \ {0}
    OBVIOUS
  <2> QED BY <2>1, DivMod
<1>2. s = q \div 2
  BY HalvedQuotient
<1>3. q = 2 * s + t /\ t \in {0, 1}
  <2>1. \A x \in Nat : x = 2 * (x \div 2) + (x % 2) /\ x % 2 \in {0, 1}
    OBVIOUS
  <2> HIDE DEF q, s
  <2> QED BY <1>1, <1>2, <2>1
<1> HIDE DEF q, s, r, t
<1>4. b * q = 2 * (b * s) + b * t
  <2>1. /\ \A x, y \in Nat : x * (2 * y) = 2 * (x * y)
        /\ \A x, y \in Nat : x * (2 * y + 1) = 2 * (x * y) + x
    OBVIOUS
  <2>2. CASE t = 0
    <3>1. q = 2 * s
      BY <1>1, <1>3, <2>2
    <3>2. b * q = 2 * (b * s) /\ b * t = 0 /\ b * s \in Nat
      BY <1>1, <2>1, <2>2, <3>1
    <3> QED BY <3>2
  <2>3. CASE t = 1
    <3>1. q = 2 * s + 1
      BY <1>1, <1>3, <2>3
    <3>2. b * q = 2 * (b * s) + b /\ b * t = b
      BY <1>1, <2>1, <2>3, <3>1
    <3> QED BY <3>2
  <2> QED BY <1>3, <2>2, <2>3
<1>5. a = 2 * (b * s) /\ b * s \in Nat
  <2>1. a = (2 * b) * s
    BY <1>1
  <2>2. \A x, y \in Nat : (2 * x) * y = 2 * (x * y) /\ x * y \in Nat
    OBVIOUS
  <2> QED BY <1>1, <2>1, <2>2
<1>6. b * t = IF t = 0 THEN 0 ELSE b
  BY <1>3
<1>7. t = 0 /\ r = 0
  <2> DEFINE x == b * s
             y == b * q
             z == b * t
  <2>1. /\ a = y + r /\ a = 2 * x /\ x \in Nat /\ y = 2 * x + z /\ r \in Nat
        /\ z = IF t = 0 THEN 0 ELSE b
    BY <1>1, <1>4, <1>5, <1>6
  <2> HIDE DEF x, y, z
  <2>2. CASE t = 0
    BY <2>1, <2>2
  <2>3. CASE t # 0
    BY <2>1, <2>3
  <2> QED BY <2>2, <2>3
<1> QED BY <1>7 DEF r, t, q

\* A multiple of 2^k is one of the lower powers, and none of its last k bits are set.
LEMMA LowerDivides ==
  ASSUME NEW n \in Nat, NEW k \in Nat, n % Pow2[k] = 0
  PROVE  /\ \A j \in 0..k : n % Pow2[j] = 0
         /\ \A j \in 0..(k - 1) : ~HasBit(n, Pow2[j])
<1> DEFINE S == {d \in Nat : d <= k => n % Pow2[k - d] = 0}
<1>1. 0 \in S
  <2>1. k - 0 = k
    OBVIOUS
  <2> QED BY <2>1
<1>2. ASSUME NEW d \in Nat, d \in S PROVE d + 1 \in S
  <2> SUFFICES ASSUME d + 1 <= k PROVE n % Pow2[k - (d + 1)] = 0
    OBVIOUS
  <2> DEFINE j == k - (d + 1)
  <2>1. j \in Nat /\ j + 1 = k - d /\ d <= k
    OBVIOUS
  <2>2. n % Pow2[j + 1] = 0
    BY <1>2, <2>1
  <2> HIDE DEF j
  <2>3. Pow2[j] \in Nat \ {0} /\ Pow2[j + 1] = 2 * Pow2[j]
    BY <2>1, TreeSizes
  <2>4. n % Pow2[j] = 0
    BY <2>2, <2>3, HalfDivides
  <2> QED BY <2>4 DEF j
<1>3. Nat \subseteq S
  <2> HIDE DEF S
  <2> QED BY <1>1, <1>2, SetInduction
<1>4. ASSUME NEW j \in 0..k PROVE n % Pow2[j] = 0
  <2>1. k - j \in Nat /\ k - j <= k /\ k - (k - j) = j
    OBVIOUS
  <2>2. k - j \in S
    BY <1>3, <2>1
  <2> QED BY <2>1, <2>2
<1>5. ASSUME NEW j \in 0..(k - 1) PROVE ~HasBit(n, Pow2[j])
  <2>1. j \in Nat /\ j + 1 \in 0..k
    OBVIOUS
  <2>2. Pow2[j] \in Nat \ {0} /\ Pow2[j + 1] = 2 * Pow2[j]
    BY <2>1, TreeSizes
  <2>3. n % (2 * Pow2[j]) = 0
    BY <1>4, <2>1, <2>2
  <2>4. (n \div Pow2[j]) % 2 = 0
    BY <2>2, <2>3, HalfDivides
  <2> QED BY <2>4 DEF HasBit
<1> QED BY <1>4, <1>5

\* k zeros and then a one.
EndsIn(n, k) == n % Pow2[k] = 0 /\ HasBit(n, Pow2[k])

\* A number ends in one way only, and trailing_zeros tells in which.
LEMMA EndsInOne ==
  ASSUME NEW n \in Nat \ {0}, NEW k \in Nat, EndsIn(n, k)
  PROVE  /\ k <= n /\ Pow2[k] <= n
         /\ \A j \in Nat : EndsIn(n, j) => j = k
         /\ trailing_zeros(n) = k
<1>1. Pow2[k] \in Nat \ {0} /\ k < Pow2[k]
  BY TreeSizes, Pow2Grows
<1>2. Pow2[k] <= n
  <2>1. \A b \in Nat \ {0} : n % b = 0 => b <= n
    <3> TAKE b \in Nat \ {0}
    <3>1. n < b => n % b = n
      OBVIOUS
    <3> QED BY <3>1
  <2> QED BY <1>1, <2>1 DEF EndsIn
<1>3. k <= n
  BY <1>1, <1>2
<1>4. ASSUME NEW j \in Nat, EndsIn(n, j) PROVE j = k
  <2>1. CASE j < k
    <3>1. j \in 0..(k - 1)
      BY <2>1
    <3> QED BY <1>4, <3>1, LowerDivides DEF EndsIn
  <2>2. CASE k < j
    <3>1. k \in 0..(j - 1)
      BY <2>2
    <3> QED BY <1>4, <3>1, LowerDivides DEF EndsIn
  <2> QED BY <2>1, <2>2
<1>5. k \in 0..n
  BY <1>3
<1>6. trailing_zeros(n) = CHOOSE j \in 0..n : EndsIn(n, j)
  BY DEF trailing_zeros, EndsIn
<1>7. trailing_zeros(n) \in 0..n /\ EndsIn(n, trailing_zeros(n))
  BY <1>5, <1>6
<1>8. trailing_zeros(n) \in Nat
  BY <1>7
<1> QED BY <1>2, <1>3, <1>4, <1>7, <1>8

\* A power of two ends in its only bit.
LEMMA PowerEnds ==
  ASSUME NEW k \in Nat
  PROVE  EndsIn(Pow2[k], k) /\ count_ones(Pow2[k]) = 1
<1>1. Pow2[k] \in Nat \ {0}
  BY TreeSizes
<1>2. \A b \in Nat \ {0} : b % b = 0 /\ b \div b = 1
  OBVIOUS
<1>3. EndsIn(Pow2[k], k)
  BY <1>1, <1>2 DEF EndsIn, HasBit
<1>4. count_ones(0) = 0 /\ Pow2[k] + 0 = Pow2[k] /\ 0 < Pow2[k]
  BY <1>1, CountBounds
<1>5. count_ones(Pow2[k] + 0) = count_ones(0) + 1
  BY <1>4, CountSplit
<1> QED BY <1>3, <1>4, <1>5

\* A higher bit changes nothing at the end.
LEMMA HigherEnds ==
  ASSUME NEW k \in Nat, NEW n \in Nat \ {0}, n < Pow2[k], NEW t \in Nat, EndsIn(n, t)
  PROVE  EndsIn(Pow2[k] + n, t)
<1>1. Pow2[k] \in Nat /\ Pow2[t] \in Nat \ {0} /\ Pow2[t] <= n
  BY TreeSizes, EndsInOne
<1>2. t \in 0..(k - 1)
  <2>1. k <= t => Pow2[k] <= Pow2[t]
    BY Pow2Grows
  <2> QED BY <1>1, <2>1
<1>3. Pow2[k] % Pow2[t] = 0 /\ n % Pow2[t] = 0
  <2>1. Pow2[k] % Pow2[k] = 0
    BY PowerEnds DEF EndsIn
  <2>2. t \in 0..k
    BY <1>2
  <2> QED BY <1>1, <2>1, <2>2, LowerDivides DEF EndsIn
<1>4. (Pow2[k] + n) % Pow2[t] = 0
  <2>1. \A a, b \in Nat, c \in Nat \ {0} : a % c = 0 /\ b % c = 0 => (a + b) % c = 0
    <3> TAKE a, b \in Nat, c \in Nat \ {0}
    <3> HAVE a % c = 0 /\ b % c = 0
    <3>1. a = c * (a \div c) /\ b = c * (b \div c) /\ a \div c \in Nat /\ b \div c \in Nat
      OBVIOUS
    <3>2. a + b = c * ((a \div c) + (b \div c)) /\ (a \div c) + (b \div c) \in Nat
      BY <3>1
    <3>3. \A q \in Nat : (c * q) % c = 0
      OBVIOUS
    <3> QED BY <3>2, <3>3
  <2> QED BY <1>1, <1>3, <2>1
<1>5. (Pow2[k] + n) \div Pow2[t] = Pow2[k - t] + (n \div Pow2[t])
  <2>1. t \in 0..k
    BY <1>2
  <2> QED BY <2>1, HighBitShifts
<1>6. HasBit(Pow2[k] + n, Pow2[t])
  <2>1. (k - t) - 1 \in Nat /\ ((k - t) - 1) + 1 = k - t
    BY <1>2
  <2>2. PICK c \in Nat : Pow2[k - t] = 2 * c
    BY <2>1, TreeSizes
  <2>3. \A x, y \in Nat : (2 * x + y) % 2 = y % 2
    OBVIOUS
  <2>4. n \div Pow2[t] \in Nat
    BY <1>1
  <2>5. ((Pow2[k] + n) \div Pow2[t]) % 2 = (n \div Pow2[t]) % 2
    BY <1>5, <2>2, <2>3, <2>4
  <2> QED BY <2>5 DEF EndsIn, HasBit
<1> QED BY <1>4, <1>6 DEF EndsIn

\* Counting on: the ones at the end become zeros, the zero before them a one.
LEMMA CarryOnes ==
  ASSUME NEW n \in Nat
  PROVE  count_ones(n + 1) + trailing_zeros(n + 1) = count_ones(n) + 1
         /\ trailing_zeros(n + 1) \in Nat
<1> DEFINE S == {m \in Nat : \E t \in Nat : /\ EndsIn(m + 1, t)
                                            /\ count_ones(m + 1) + t = count_ones(m) + 1}
<1>1. 0 \in S
  <2>1. EndsIn(1, 0) /\ count_ones(1) = 1
    BY PowerEnds, Pow2Doubles
  <2>2. count_ones(0) = 0 /\ 0 + 1 = 1
    BY CountBounds
  <2> QED BY <2>1, <2>2
<1>2. ASSUME NEW k \in Nat, NEW m \in Nat, m < Pow2[k], m \in S
      PROVE  Pow2[k] + m \in S
  <2>1. PICK t \in Nat : EndsIn(m + 1, t) /\ count_ones(m + 1) + t = count_ones(m) + 1
    BY <1>2
  <2>2. /\ Pow2[k] \in Nat /\ Pow2[k] + m \in Nat /\ m + 1 \in Nat \ {0}
        /\ (Pow2[k] + m) + 1 = Pow2[k] + (m + 1)
        /\ count_ones(m) \in Nat /\ count_ones(Pow2[k] + m) = count_ones(m) + 1
    BY <1>2, TreeSizes, CountSplit
  <2>3. CASE m + 1 < Pow2[k]
    <3>1. EndsIn(Pow2[k] + (m + 1), t)
      BY <2>1, <2>2, <2>3, HigherEnds
    <3>2. count_ones(Pow2[k] + (m + 1)) = count_ones(m + 1) + 1
          /\ count_ones(m + 1) \in Nat
      BY <2>2, <2>3, CountSplit
    <3>3. count_ones(Pow2[k] + (m + 1)) + t = count_ones(Pow2[k] + m) + 1
      BY <2>1, <2>2, <3>2
    <3> QED BY <2>2, <3>1, <3>3
  <2>4. CASE ~(m + 1 < Pow2[k])
    <3>1. m + 1 = Pow2[k]
      BY <1>2, <2>2, <2>4
    <3>2. k = t /\ count_ones(m + 1) = 1
      BY <2>1, <2>2, <3>1, PowerEnds, EndsInOne
    <3>3. count_ones(m) = k
      BY <2>1, <2>2, <3>2
    <3>4. k + 1 \in Nat /\ (Pow2[k] + m) + 1 = Pow2[k + 1]
      BY <2>2, <3>1, TreeSizes
    <3>5. EndsIn(Pow2[k + 1], k + 1) /\ count_ones(Pow2[k + 1]) = 1
      BY <3>4, PowerEnds
    <3>6. count_ones(Pow2[k + 1]) + (k + 1) = count_ones(Pow2[k] + m) + 1
      BY <2>2, <3>3, <3>5
    <3> QED BY <2>2, <3>4, <3>5, <3>6
  <2> QED BY <2>3, <2>4
<1>3. Nat \subseteq S
  <2> HIDE DEF S
  <2> QED BY <1>1, <1>2, BitInduction
<1>4. PICK t \in Nat : EndsIn(n + 1, t) /\ count_ones(n + 1) + t = count_ones(n) + 1
  BY <1>3
<1>5. n + 1 \in Nat \ {0}
  OBVIOUS
<1>6. trailing_zeros(n + 1) = t
  BY <1>4, <1>5, EndsInOne
<1> QED BY <1>4, <1>6

\* A leaf goes after all the nodes over the leaves before it.
LEMMA LeafPosition ==
  ASSUME NEW index \in Nat
  PROVE  leaf_index_to_pos(index) = SizeOf(index)
<1>1. /\ count_ones(index + 1) + trailing_zeros(index + 1) = count_ones(index) + 1
      /\ trailing_zeros(index + 1) \in Nat
  BY CarryOnes
<1>2. count_ones(index + 1) \in Nat /\ count_ones(index) \in Nat
  <2>1. index + 1 \in Nat
    OBVIOUS
  <2>2. \A n \in Nat : count_ones(n) \in Nat
    BY CountBounds
  <2> QED BY <2>1, <2>2
<1>3. leaf_index_to_pos(index)
        = 2 * (index + 1) - count_ones(index + 1) - trailing_zeros(index + 1) - 1
  BY DEF leaf_index_to_pos, leaf_index_to_mmr_size
<1> DEFINE a == count_ones(index + 1)
           b == trailing_zeros(index + 1)
           c == count_ones(index)
<1>4. a \in Nat /\ b \in Nat /\ c \in Nat /\ a + b = c + 1
  BY <1>1, <1>2
<1> HIDE DEF a, b, c
<1>5. 2 * (index + 1) - a - b - 1 = 2 * index - c
  BY <1>4
<1> QED BY <1>3, <1>5 DEF SizeOf, a, b, c

=============================================================================
