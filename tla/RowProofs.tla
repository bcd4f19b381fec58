------------------------------ MODULE RowProofs ------------------------------
(***************************************************************************)
(* What helper.rs says of a range of mountains, for every range.  A row of *)
(* mountains is a sequence of peaks, ps below; how high they are follows   *)
(* from where they are.                                                    *)
(***************************************************************************)
EXTENDS PositionsProofs

H(p) == index_height_mmriver(p)

\* The number of nodes of a mountain.
TreeSize(h) == Pow2[h + 1] - 1

\* How many nodes there are before the k-th mountain.
Before(ps, k) == IF k = 1 THEN 0 ELSE ps[k - 1] + 1

Nodes(ps) == Before(ps, Len(ps) + 1)

\* Each mountain comes after those before it; each is higher than the next, or the
\* last is just as high as the one before.
Row(ps) ==
  /\ ps \in Seq(Nat)
  /\ \A k \in 1..Len(ps) : ps[k] + 1 = Before(ps, k) + TreeSize(H(ps[k]))
  /\ \A k \in 1..(Len(ps) - 1) :
       /\ H(ps[k + 1]) <= H(ps[k])
       /\ k + 1 < Len(ps) => H(ps[k + 1]) < H(ps[k])

Due(ps) == Len(ps) > 1 /\ H(ps[Len(ps)]) = H(ps[Len(ps) - 1])

\* The nodes from the k-th mountain on.
Rest(ps, k) == Nodes(ps) - Before(ps, k)

\* A mountain has more than twice the nodes of a lower one; two and a node make the next.
LEMMA TreeSizeGrows ==
  ASSUME NEW j \in Nat, NEW k \in Nat
  PROVE  /\ TreeSize(j) \in Nat \ {0}
         /\ j < k => 2 * TreeSize(j) < TreeSize(k)
         /\ j = k => TreeSize(j) = TreeSize(k)
         /\ TreeSize(j + 1) = 2 * TreeSize(j) + 1
<1>1. /\ Pow2[j + 1] \in Nat /\ Pow2[j + 1] >= 2
      /\ Pow2[(j + 1) + 1] = 2 * Pow2[j + 1]
  <2>1. j + 1 \in Nat
    OBVIOUS
  <2> QED BY <2>1, TreeSizes
<1>2. ASSUME j < k PROVE Pow2[(j + 1) + 1] <= Pow2[k + 1]
  BY <1>2, Pow2Grows
<1>3. Pow2[k + 1] \in Nat
  BY TreeSizes
<1>4. ASSUME j < k PROVE 2 * TreeSize(j) < TreeSize(k)
  BY <1>1, <1>2, <1>3, <1>4 DEF TreeSize
<1> QED BY <1>1, <1>4 DEF TreeSize

\* Every mountain of a row ends where the one after it begins.
LEMMA RowTypes ==
  ASSUME NEW ps, Row(ps)
  PROVE  /\ Len(ps) \in Nat /\ DOMAIN ps = 1..Len(ps)
         /\ \A k \in 1..Len(ps) : /\ ps[k] \in Nat /\ H(ps[k]) \in Nat
                                  /\ Before(ps, k) \in Nat
                                  /\ Before(ps, k + 1) = Before(ps, k) + TreeSize(H(ps[k]))
                                  /\ TreeSize(H(ps[k])) \in Nat \ {0}
         /\ Nodes(ps) \in Nat
<1>1. Len(ps) \in Nat /\ DOMAIN ps = 1..Len(ps) /\ \A k \in 1..Len(ps) : ps[k] \in Nat
  BY DEF Row
<1>2. \A k \in 1..Len(ps) : H(ps[k]) \in Nat
  BY <1>1, NodeHeight DEF H
<1>3. \A k \in 1..(Len(ps) + 1) : Before(ps, k) \in Nat
  <2> TAKE k \in 1..(Len(ps) + 1)
  <2>1. CASE k = 1
    BY <2>1 DEF Before
  <2>2. CASE k # 1
    <3>1. k - 1 \in 1..Len(ps)
      BY <1>1, <2>2
    <3> QED BY <1>1, <2>2, <3>1 DEF Before
  <2> QED BY <2>1, <2>2
<1>4. \A k \in 1..Len(ps) : Before(ps, k + 1) = ps[k] + 1
  <2> TAKE k \in 1..Len(ps)
  <2>1. k + 1 # 1 /\ (k + 1) - 1 = k
    BY <1>1
  <2> QED BY <2>1 DEF Before
<1>5. \A k \in 1..Len(ps) : k \in 1..(Len(ps) + 1) /\ TreeSize(H(ps[k])) \in Nat \ {0}
  <2>1. \A h \in Nat : TreeSize(h) \in Nat \ {0}
    BY TreeSizeGrows
  <2> QED BY <1>1, <1>2, <2>1
<1>6. Len(ps) + 1 \in 1..(Len(ps) + 1)
  BY <1>1
<1> QED BY <1>1, <1>2, <1>3, <1>4, <1>5, <1>6 DEF Row, Nodes

\* Together, a mountain and all that follow are at most twice as many nodes.
LEMMA RestBounds ==
  ASSUME NEW ps, Row(ps), NEW k \in 1..Len(ps)
  PROVE  /\ Rest(ps, k) = TreeSize(H(ps[k])) + Rest(ps, k + 1)
         /\ Rest(ps, k + 1) \in Nat
         /\ Rest(ps, k + 1) <= TreeSize(H(ps[k]))
         /\ Rest(ps, k + 1) = TreeSize(H(ps[k])) => Due(ps) /\ k = Len(ps) - 1
<1> DEFINE n == Len(ps)
           T(l) == TreeSize(H(ps[l]))
           R(l) == Nodes(ps) - Before(ps, l)
           Good(l) == R(l) = T(l) + R(l + 1) /\ R(l + 1) \in Nat /\ R(l + 1) <= T(l)
                      /\ (R(l + 1) = T(l) => Due(ps) /\ l = n - 1)
           S == {d \in Nat : d < n => Good(n - d)}
<1>1. /\ n \in Nat /\ Nodes(ps) \in Nat
      /\ \A l \in 1..n : T(l) \in Nat \ {0} /\ H(ps[l]) \in Nat /\ Before(ps, l) \in Nat
                         /\ Before(ps, l + 1) = Before(ps, l) + T(l)
  BY RowTypes
<1>0. n \in Nat
  BY <1>1
<1>2. R(n + 1) = 0
  BY <1>1 DEF Nodes
<1> HIDE DEF T
<1>3. \A l \in 1..n : R(l) = T(l) + R(l + 1)
  BY <1>1
<1> HIDE DEF R
<1>4. 0 \in S
  <2> SUFFICES ASSUME 0 < n PROVE Good(n)
    BY <1>1
  <2>1. n \in 1..n /\ n - 0 = n
    BY <1>1
  <2>2. R(n) = T(n) + R(n + 1) /\ T(n) \in Nat \ {0} /\ R(n + 1) = 0
    BY <1>1, <1>2, <1>3, <2>1
  <2>3. R(n + 1) \in Nat /\ R(n + 1) <= T(n) /\ R(n + 1) # T(n)
    BY <2>2
  <2> QED BY <2>2, <2>3
<1>5. ASSUME NEW d \in Nat, d \in S PROVE d + 1 \in S
  <2> SUFFICES ASSUME d + 1 < n PROVE Good(n - (d + 1))
    OBVIOUS
  <2> DEFINE l == n - (d + 1)
  <2>1. l \in 1..n /\ l + 1 \in 1..n /\ l + 1 = n - d /\ d < n /\ l \in 1..(n - 1)
    <3>1. n \in Nat /\ d \in Nat /\ d + 1 < n
      BY <1>0
    <3> HIDE DEF n, S
    <3> QED BY ONLY <3>1
  <2>2. Good(l + 1)
    BY <1>5, <2>1
  <2> HIDE DEF l
  <2>3. R(l + 1) = T(l + 1) + R(l + 2) /\ R(l + 2) \in Nat /\ R(l + 2) <= T(l + 1)
        /\ T(l + 1) \in Nat /\ T(l) \in Nat
    <3>1. (l + 1) + 1 = l + 2
      BY <2>1
    <3> QED BY <1>1, <2>1, <2>2, <3>1
  <2>4. H(ps[l + 1]) <= H(ps[l]) /\ (l + 1 < n => H(ps[l + 1]) < H(ps[l]))
        /\ H(ps[l]) \in Nat /\ H(ps[l + 1]) \in Nat
    BY <1>1, <2>1 DEF Row
  <2>5. CASE H(ps[l + 1]) < H(ps[l])
    <3>1. 2 * T(l + 1) < T(l)
      BY <2>4, <2>5, TreeSizeGrows DEF T
    <3>2. R(l + 1) \in Nat /\ R(l + 1) < T(l)
      BY <2>3, <3>1
    <3>3. R(l) = T(l) + R(l + 1)
      BY <1>3, <2>1
    <3>4. Good(l)
      BY <2>3, <3>2, <3>3
    <3> QED BY <3>4 DEF l
  <2>6. CASE ~(H(ps[l + 1]) < H(ps[l]))
    <3>1. l + 1 = n /\ l = n - 1 /\ H(ps[l + 1]) = H(ps[l])
      BY <1>1, <2>1, <2>4, <2>6
    <3>2. T(l + 1) = T(l)
      BY <3>1 DEF T
    <3>3. R(l + 2) = 0
      <4>1. l + 2 = n + 1
        BY <1>1, <2>1, <3>1
      <4> QED BY <1>2, <4>1
    <3>4. R(l + 1) = T(l)
      BY <2>3, <3>2, <3>3
    <3>5. Due(ps)
      BY <1>1, <2>1, <3>1 DEF Due
    <3>6. T(l) <= T(l) /\ T(l) \in Nat
      BY <2>3
    <3>7. R(l) = T(l) + R(l + 1)
      BY <1>3, <2>1
    <3>8. Good(l)
      BY <3>1, <3>4, <3>5, <3>6, <3>7
    <3> QED BY <3>8 DEF l
  <2> QED BY <2>5, <2>6
<1>6. Nat \subseteq S
  <2> HIDE DEF S
  <2> QED BY <1>4, <1>5, SetInduction
<1>7. n - k \in Nat /\ n - k < n /\ n - (n - k) = k
  BY <1>1
<1>8. Good(k)
  BY <1>6, <1>7
<1> QED BY <1>8 DEF R, T, Rest

\* A mountain that is due is one higher than the two it joins; otherwise a leaf comes.
LEMMA HeightAfterRow ==
  ASSUME NEW ps, Row(ps)
  PROVE  H(Nodes(ps)) = IF Due(ps) THEN H(ps[Len(ps)]) + 1 ELSE 0
<1> DEFINE n == Len(ps)
           last == IF Due(ps) THEN n - 1 ELSE n + 1
           S == {d \in Nat : d + 1 <= last => H(Nodes(ps)) = H(Rest(ps, d + 1))}
<1>1. n \in Nat /\ Nodes(ps) \in Nat
  BY RowTypes
<1>2. 0 \in S
  <2>1. Rest(ps, 0 + 1) = Nodes(ps)
    BY <1>1 DEF Rest, Before
  <2> QED BY <2>1
<1>3. ASSUME NEW d \in Nat, d \in S PROVE d + 1 \in S
  <2> SUFFICES ASSUME (d + 1) + 1 <= last PROVE H(Nodes(ps)) = H(Rest(ps, (d + 1) + 1))
    OBVIOUS
  <2> DEFINE k == d + 1
  <2>1. /\ k \in 1..n /\ k \in Nat /\ d + 1 <= last
        /\ Due(ps) => k # n - 1
    BY <1>1
  <2>2. H(Nodes(ps)) = H(Rest(ps, k))
    BY <1>3, <2>1
  <2> HIDE DEF k
  <2> DEFINE h == H(ps[k])
  <2>3. /\ h \in Nat
        /\ Rest(ps, k) = TreeSize(h) + Rest(ps, k + 1)
        /\ Rest(ps, k + 1) \in Nat /\ TreeSize(h) \in Nat
        /\ Rest(ps, k + 1) <= TreeSize(h)
        /\ Rest(ps, k + 1) # TreeSize(h)
    BY <2>1, RestBounds, RowTypes
  <2> HIDE DEF h
  <2>4. Rest(ps, k + 1) < TreeSize(h)
    BY <2>3
  <2>5. H(Rest(ps, k)) = H(Rest(ps, k + 1))
    BY <2>3, <2>4, ShiftedHeight DEF TreeSize, H
  <2> QED BY <2>2, <2>5 DEF k
<1>4. Nat \subseteq S
  <2> HIDE DEF S
  <2> QED BY <1>2, <1>3, SetInduction
<1>5. CASE ~Due(ps)
  <2>1. n + 1 <= last /\ n \in S
    BY <1>1, <1>4, <1>5
  <2>2. Rest(ps, n + 1) = 0
    BY <1>1 DEF Rest, Nodes
  <2> QED BY <1>5, <2>1, <2>2, FirstIsLeaf DEF H
<1>6. CASE Due(ps)
  <2> DEFINE h == H(ps[n])
             k == n - 1
  <2>1. /\ k \in 1..n /\ n \in 1..n /\ n - 2 \in Nat /\ (n - 2) + 1 = k /\ k + 1 = n
        /\ k <= last /\ H(ps[k]) = h
    BY <1>1, <1>6 DEF Due
  <2>2. H(Nodes(ps)) = H(Rest(ps, k))
    BY <1>4, <2>1
  <2> HIDE DEF k
  <2>3. /\ h \in Nat /\ TreeSize(h) \in Nat
        /\ Rest(ps, k) = TreeSize(h) + Rest(ps, n)
        /\ Rest(ps, n) = TreeSize(h) + Rest(ps, n + 1)
        /\ Rest(ps, n + 1) = 0
    <3>1. Rest(ps, n + 1) = 0
      BY <1>1 DEF Rest, Nodes
    <3>2. h \in Nat /\ TreeSize(h) \in Nat
      BY <2>1, RowTypes
    <3>3. Rest(ps, k) = TreeSize(H(ps[k])) + Rest(ps, k + 1)
      BY <2>1, RestBounds
    <3>4. Rest(ps, n) = TreeSize(H(ps[n])) + Rest(ps, n + 1)
      BY <2>1, RestBounds
    <3> QED BY <2>1, <3>1, <3>2, <3>3, <3>4
  <2> HIDE DEF h
  <2>4. Rest(ps, k) = TreeSize(h + 1) - 1
    BY <2>3, TreeSizeGrows
  <2>5. h + 1 \in Nat /\ Pow2[(h + 1) + 1] \in Nat
    BY <2>3, TreeSizes
  <2>6. Rest(ps, k) = Pow2[(h + 1) + 1] - 2
    BY <2>4, <2>5 DEF TreeSize
  <2>7. H(Rest(ps, k)) = h + 1
    BY <2>5, <2>6, PerfectHeight DEF H
  <2> QED BY <1>6, <2>2, <2>7 DEF h
<1> QED BY <1>5, <1>6

\* A leaf makes a new row, and so does the parent of the two last peaks.
LEMMA LeafAdded ==
  ASSUME NEW ps, Row(ps), ~Due(ps)
  PROVE  /\ Row(Append(ps, Nodes(ps)))
         /\ Nodes(Append(ps, Nodes(ps))) = Nodes(ps) + 1
         /\ Len(Append(ps, Nodes(ps))) = Len(ps) + 1
<1> DEFINE n == Len(ps)
           qs == Append(ps, Nodes(ps))
<1>1. n \in Nat /\ Nodes(ps) \in Nat /\ ps \in Seq(Nat)
  BY RowTypes DEF Row
<1>2. /\ qs \in Seq(Nat) /\ Len(qs) = n + 1
      /\ \A k \in 1..n : qs[k] = ps[k]
      /\ qs[n + 1] = Nodes(ps)
  BY <1>1
<1>3. H(Nodes(ps)) = 0
  BY HeightAfterRow
<1>4. \A k \in 1..(n + 1) : Before(qs, k) = Before(ps, k)
  <2> TAKE k \in 1..(n + 1)
  <2>1. k # 1 => k - 1 \in 1..n
    BY <1>1
  <2> HIDE DEF qs
  <2> QED BY <1>2, <2>1 DEF Before
<1> HIDE DEF qs
<1>5. TreeSize(0) = 1
  BY TreeSizes, Pow2Doubles DEF TreeSize
<1>6. ASSUME NEW k \in 1..(n + 1)
      PROVE  qs[k] + 1 = Before(qs, k) + TreeSize(H(qs[k]))
  <2>1. CASE k \in 1..n
    BY <1>2, <1>4, <2>1 DEF Row
  <2>2. CASE k = n + 1
    BY <1>1, <1>2, <1>3, <1>4, <1>5, <2>2 DEF Nodes
  <2> QED BY <1>1, <2>1, <2>2
<1>7. ASSUME NEW k \in 1..n
      PROVE  /\ H(qs[k + 1]) <= H(qs[k])
             /\ k + 1 < n + 1 => H(qs[k + 1]) < H(qs[k])
  <2>1. CASE k = n
    <3>1. qs[k + 1] = Nodes(ps) /\ qs[k] = ps[k] /\ k \in 1..n
      BY <1>2, <2>1
    <3>2. H(ps[k]) \in Nat
      BY <3>1, RowTypes
    <3>3. ~(k + 1 < n + 1)
      BY <1>1, <2>1
    <3> QED BY <1>3, <3>1, <3>2, <3>3
  <2>2. CASE k # n
    <3>1. k \in 1..(n - 1) /\ k + 1 \in 1..n
      BY <1>1, <2>2
    <3>2. H(ps[k + 1]) <= H(ps[k]) /\ (k + 1 < n => H(ps[k + 1]) < H(ps[k]))
      BY <3>1 DEF Row
    <3>3. H(ps[k]) \in Nat /\ H(ps[k + 1]) \in Nat
      BY <3>1, RowTypes
    <3>4. k + 1 = n => H(ps[k + 1]) # H(ps[k])
      <4> SUFFICES ASSUME k + 1 = n PROVE H(ps[n]) # H(ps[n - 1])
        BY <1>1
      <4>1. n > 1
        BY <1>1, <3>1
      <4> QED BY <4>1 DEF Due
    <3>5. k + 1 < n \/ k + 1 = n
      BY <1>1, <3>1
    <3>6. H(ps[k + 1]) < H(ps[k])
      BY <3>2, <3>3, <3>4, <3>5
    <3> QED BY <1>2, <3>1, <3>3, <3>6
  <2> QED BY <2>1, <2>2
<1>8. (n + 1) - 1 = n /\ (n + 1) + 1 # 1 /\ ((n + 1) + 1) - 1 = n + 1
  BY <1>1
<1>9. Row(qs)
  BY <1>2, <1>6, <1>7, <1>8 DEF Row
<1>10. Nodes(qs) = Nodes(ps) + 1
  BY <1>2, <1>8 DEF Nodes, Before
<1> QED BY <1>2, <1>9, <1>10 DEF qs

\* The parent of the two last peaks takes their place, and makes a new row as well.
LEMMA ParentAdded ==
  ASSUME NEW ps, Row(ps), Due(ps)
  PROVE  LET qs == Append(SubSeq(ps, 1, Len(ps) - 2), Nodes(ps))
         IN  /\ Row(qs) /\ Nodes(qs) = Nodes(ps) + 1
             /\ Len(qs) = Len(ps) - 1
             /\ \A k \in 1..(Len(ps) - 2) : qs[k] = ps[k]
             /\ qs[Len(ps) - 1] = Nodes(ps)
<1> DEFINE n == Len(ps)
           h == H(ps[n])
           qs == Append(SubSeq(ps, 1, n - 2), Nodes(ps))
<1>1. /\ n \in Nat /\ n - 2 \in Nat /\ n - 1 \in 1..n /\ n \in 1..n
      /\ Nodes(ps) \in Nat /\ ps \in Seq(Nat)
      /\ H(ps[n - 1]) = h
  BY RowTypes DEF Row, Due
<1>2. /\ qs \in Seq(Nat) /\ Len(qs) = n - 1
      /\ \A k \in 1..(n - 2) : qs[k] = ps[k]
      /\ qs[n - 1] = Nodes(ps)
  <2> DEFINE front == SubSeq(ps, 1, n - 2)
  <2>1. front \in Seq(Nat) /\ Len(front) = n - 2 /\ \A k \in 1..(n - 2) : front[k] = ps[k]
    <3> DEFINE m == n - 2
    <3>1. m \in Nat /\ \A k \in 1..m : ps[k] \in Nat
      BY <1>1
    <3> HIDE DEF m
    <3>2. /\ SubSeq(ps, 1, m) \in Seq(Nat)
          /\ Len(SubSeq(ps, 1, m)) = IF 1 <= m THEN m - 1 + 1 ELSE 0
          /\ \A k \in 1..(m - 1 + 1) : SubSeq(ps, 1, m)[k] = ps[1 + k - 1]
      BY <3>1, SubSeqProperties
    <3>3. m - 1 + 1 = m /\ (~(1 <= m) => m = 0) /\ \A k \in 1..m : 1 + k - 1 = k
      BY <3>1
    <3>4. Len(SubSeq(ps, 1, m)) = m /\ \A k \in 1..m : SubSeq(ps, 1, m)[k] = ps[k]
      BY <3>2, <3>3
    <3> QED BY <3>2, <3>4 DEF m
  <2> HIDE DEF front
  <2>2. (n - 2) + 1 = n - 1 /\ n - 2 \in Nat
    BY <1>1
  <2>3. /\ Append(front, Nodes(ps)) \in Seq(Nat)
        /\ Len(Append(front, Nodes(ps))) = (n - 2) + 1
        /\ \A k \in 1..(n - 2) : Append(front, Nodes(ps))[k] = front[k]
        /\ Append(front, Nodes(ps))[(n - 2) + 1] = Nodes(ps)
    <3>1. Nodes(ps) \in Nat
      BY <1>1
    <3> QED BY <2>1, <3>1, AppendProperties
  <2> QED BY <2>1, <2>2, <2>3 DEF front
<1>3. H(Nodes(ps)) = h + 1 /\ h \in Nat
  BY <1>1, HeightAfterRow, RowTypes
<1>4. \A k \in 1..(n - 1) : Before(qs, k) = Before(ps, k)
  <2> TAKE k \in 1..(n - 1)
  <2>1. k # 1 => k - 1 \in 1..(n - 2)
    BY <1>1
  <2> HIDE DEF qs
  <2> QED BY <1>2, <2>1 DEF Before
<1> HIDE DEF qs
<1>5. Nodes(ps) + 1 = Before(ps, n - 1) + TreeSize(h + 1)
  <2>1. Rest(ps, n - 1) = TreeSize(h) + Rest(ps, n)
    <3>1. (n - 1) + 1 = n
      BY <1>1
    <3> QED BY <1>1, <3>1, RestBounds
  <2>2. Rest(ps, n) = TreeSize(h) + Rest(ps, n + 1)
    BY <1>1, RestBounds
  <2>3. Rest(ps, n + 1) = 0
    BY <1>1 DEF Rest, Nodes
  <2>4. TreeSize(h) \in Nat /\ TreeSize(h + 1) = 2 * TreeSize(h) + 1
    BY <1>3, TreeSizeGrows
  <2>5. Before(ps, n - 1) \in Nat
    BY <1>1, RowTypes
  <2>6. Nodes(ps) = Before(ps, n - 1) + Rest(ps, n - 1)
    BY <1>1, <2>5 DEF Rest
  <2> HIDE DEF h
  <2> QED BY <2>1, <2>2, <2>3, <2>4, <2>5, <2>6
<1>6. ASSUME NEW k \in 1..(n - 1)
      PROVE  qs[k] + 1 = Before(qs, k) + TreeSize(H(qs[k]))
  <2>1. CASE k \in 1..(n - 2)
    <3>1. k \in 1..n /\ k \in 1..(n - 1)
      BY <1>1, <2>1
    <3> QED BY <1>2, <1>4, <2>1, <3>1 DEF Row
  <2>2. CASE k = n - 1
    BY <1>2, <1>3, <1>4, <1>5, <2>2
  <2> QED BY <1>1, <2>1, <2>2
<1>7. ASSUME NEW k \in 1..(n - 2)
      PROVE  /\ H(qs[k + 1]) <= H(qs[k])
             /\ k + 1 < n - 1 => H(qs[k + 1]) < H(qs[k])
  <2>1. k \in 1..(n - 1) /\ k + 1 \in 1..n /\ k \in 1..n /\ k + 1 < n
    BY <1>1
  <2>2. H(ps[k + 1]) < H(ps[k]) /\ H(ps[k]) \in Nat /\ H(ps[k + 1]) \in Nat
    BY <2>1, RowTypes DEF Row
  <2>3. CASE k = n - 2
    <3>1. k + 1 = n - 1
      BY <1>1, <2>3
    <3>2. H(qs[k + 1]) = h + 1 /\ H(ps[k + 1]) = h /\ qs[k] = ps[k]
      BY <1>1, <1>2, <1>3, <3>1
    <3> HIDE DEF h
    <3> QED BY <1>3, <2>2, <3>1, <3>2
  <2>4. CASE k # n - 2
    <3>1. k + 1 \in 1..(n - 2)
      BY <1>1, <2>4
    <3> QED BY <1>2, <2>2, <3>1
  <2> QED BY <2>3, <2>4
<1>8. (n - 1) - 1 = n - 2 /\ (n - 1) + 1 # 1 /\ ((n - 1) + 1) - 1 = n - 1
  BY <1>1
<1>9. Row(qs)
  BY <1>2, <1>6, <1>7, <1>8 DEF Row
<1>10. Nodes(qs) = Nodes(ps) + 1
  BY <1>2, <1>8 DEF Nodes, Before
<1> QED BY <1>2, <1>9, <1>10 DEF qs

\* Peaks are positions of the range.
LEMMA PeaksInside ==
  ASSUME NEW ps, Row(ps), NEW k \in 1..Len(ps)
  PROVE  ps[k] \in 0..(Nodes(ps) - 1)
<1>1. /\ ps[k] \in Nat /\ Before(ps, k) \in Nat /\ Nodes(ps) \in Nat
      /\ Before(ps, k + 1) = Before(ps, k) + TreeSize(H(ps[k]))
      /\ ps[k] + 1 = Before(ps, k) + TreeSize(H(ps[k]))
  BY RowTypes DEF Row
<1>2. Rest(ps, k + 1) \in Nat
  BY RestBounds
<1>3. Nodes(ps) - (ps[k] + 1) \in Nat
  BY <1>1, <1>2 DEF Rest
<1> QED BY <1>1, <1>3

\* So the heights that have been written down tell whether a merge is due.
LEMMA PeakHeightsAre ==
  ASSUME NEW ps, Row(ps), NEW hs, \A p \in 0..(Nodes(ps) - 1) : hs[p + 1] = H(p)
  PROVE  /\ \A k \in 1..Len(ps) : hs[ps[k] + 1] = H(ps[k])
         /\ Len(ps) > 1 /\ hs[ps[Len(ps)] + 1] = hs[ps[Len(ps) - 1] + 1] <=> Due(ps)
<1>1. Len(ps) \in Nat
  BY RowTypes
<1>2. \A k \in 1..Len(ps) : hs[ps[k] + 1] = H(ps[k])
  BY PeaksInside
<1>3. Len(ps) > 1 => Len(ps) \in 1..Len(ps) /\ Len(ps) - 1 \in 1..Len(ps)
  BY <1>1
<1> QED BY <1>2, <1>3 DEF Due

-----------------------------------------------------------------------------
(* PeaksMMRIVERIter goes through a row from the left.                      *)

\* With what a mountain and those after it leave room for, the highest mountain that
\* fits is that mountain.
LEMMA HighestIs ==
  ASSUME NEW ps, Row(ps), NEW k \in 1..Len(ps)
  PROVE  /\ Rest(ps, k) \in Nat \ {0}
         /\ Pow2[BitLength(Rest(ps, k) + 1) - 1] - 1 = TreeSize(H(ps[k]))
<1> DEFINE h == H(ps[k])
           r == Rest(ps, k)
<1>1. /\ h \in Nat /\ TreeSize(h) \in Nat \ {0}
      /\ Rest(ps, k + 1) \in Nat /\ Rest(ps, k + 1) <= TreeSize(h)
      /\ r = TreeSize(h) + Rest(ps, k + 1)
  <2>1. h \in Nat /\ TreeSize(h) \in Nat \ {0}
    BY RowTypes
  <2> QED BY <2>1, RestBounds
<1> HIDE DEF h, r
<1>2. h + 1 \in Nat /\ Pow2[h + 1] \in Nat /\ Pow2[(h + 1) + 1] = 2 * Pow2[h + 1]
  <2>1. h + 1 \in Nat
    BY <1>1
  <2> QED BY <2>1, TreeSizes
<1>3. /\ r + 1 \in Nat \ {0} /\ r \in Nat \ {0}
      /\ Pow2[h + 1] <= r + 1 /\ r + 1 < Pow2[(h + 1) + 1]
  <2> DEFINE size1 == Pow2[h + 1]
             rest == Rest(ps, k + 1)
  <2>1. /\ size1 - 1 \in Nat \ {0} /\ rest \in Nat /\ rest <= size1 - 1
        /\ r = (size1 - 1) + rest /\ size1 \in Nat
        /\ Pow2[(h + 1) + 1] = 2 * size1
    BY <1>1, <1>2 DEF TreeSize
  <2> HIDE DEF size1, rest
  <2>2. /\ r + 1 \in Nat \ {0} /\ r \in Nat \ {0}
        /\ size1 <= r + 1 /\ r + 1 < 2 * size1
    BY ONLY <2>1
  <2> QED BY <2>1, <2>2 DEF size1
<1>4. BitLength(r + 1) = (h + 1) + 1
  BY <1>2, <1>3, BitLengthIs
<1>5. BitLength(r + 1) - 1 = h + 1
  BY <1>1, <1>4
<1> QED BY <1>3, <1>5 DEF r, h, TreeSize

\* What an iterator yields from the j-th mountain on.
Suffix(ps, j, s) ==
  /\ s \in Seq(Nat) /\ Len(s) = Len(ps) + 1 - j
  /\ \A l \in 1..(Len(ps) + 1 - j) : s[l] = ps[j - 1 + l]

\* What is yielded from a mountain on is that mountain, then what is yielded after it.
LEMMA SuffixGrows ==
  ASSUME NEW ps \in Seq(Nat)
  PROVE  /\ Suffix(ps, Len(ps) + 1, <<>>)
         /\ \A j \in 1..Len(ps) : \A s :
              Suffix(ps, j + 1, s) => Suffix(ps, j, <<ps[j]>> \o s)
         /\ \A s : Suffix(ps, 1, s) => s = ps
<1> DEFINE n == Len(ps)
<1>1. n \in Nat /\ \A j \in 1..n : ps[j] \in Nat
  OBVIOUS
<1>2. Suffix(ps, n + 1, <<>>)
  <2>1. n + 1 - (n + 1) = 0 /\ <<>> \in Seq(Nat) /\ Len(<<>>) = 0
    BY <1>1
  <2>2. \A l \in 1..0 : <<>>[l] = ps[(n + 1) - 1 + l]
    OBVIOUS
  <2> QED BY <2>1, <2>2 DEF Suffix
<1>3. ASSUME NEW j \in 1..n, NEW s, Suffix(ps, j + 1, s)
      PROVE  Suffix(ps, j, <<ps[j]>> \o s)
  <2> DEFINE d == n + 1 - (j + 1)
             all == <<ps[j]>> \o s
  <2>1. d \in Nat /\ n + 1 - j = d + 1 /\ j \in Nat
    BY <1>1
  <2>2. s \in Seq(Nat) /\ Len(s) = d /\ \A l \in 1..d : s[l] = ps[(j + 1) - 1 + l]
    BY <1>3 DEF Suffix
  <2> HIDE DEF d
  <2>3. <<ps[j]>> \in Seq(Nat) /\ Len(<<ps[j]>>) = 1 /\ <<ps[j]>>[1] = ps[j]
    BY <1>1
  <2>4. /\ all \in Seq(Nat) /\ Len(all) = 1 + d
        /\ \A l \in 1..(1 + d) : all[l] = IF l <= 1 THEN <<ps[j]>>[l] ELSE s[l - 1]
    BY <2>2, <2>3, ConcatProperties
  <2> HIDE DEF all
  <2>5. ASSUME NEW l \in 1..(d + 1) PROVE all[l] = ps[j - 1 + l]
    <3>1. CASE l = 1
      <4>1. 1 \in 1..(1 + d) /\ j - 1 + 1 = j
        BY <2>1
      <4> QED BY <2>3, <2>4, <3>1, <4>1
    <3>2. CASE l # 1
      <4>1. l - 1 \in 1..d /\ l \in 1..(1 + d) /\ ~(l <= 1)
            /\ (j + 1) - 1 + (l - 1) = j - 1 + l
        BY <2>1, <3>2
      <4> QED BY <2>2, <2>4, <4>1
    <3> QED BY <3>1, <3>2
  <2>6. 1 + d = d + 1
    BY <2>1
  <2> QED BY <2>1, <2>4, <2>5, <2>6 DEF Suffix, all
<1>4. ASSUME NEW s, Suffix(ps, 1, s) PROVE s = ps
  <2>1. n + 1 - 1 = n /\ \A l \in 1..n : 1 - 1 + l = l
    BY <1>1
  <2>2. s \in Seq(Nat) /\ Len(s) = n /\ \A l \in 1..n : s[l] = ps[l]
    BY <1>4, <2>1 DEF Suffix
  <2> QED BY <1>1, <2>2
<1> QED BY <1>2, <1>3, <1>4

\* PeaksMMRIVERIter yields a row, whether or not a merge is due in it.
LEMMA RiverPeaksOfRow ==
  ASSUME NEW ps, Row(ps), Len(ps) > 0
  PROVE  PeaksMMRIVERIter(Nodes(ps) - 1) = ps
<1> DEFINE n == Len(ps)
           i == Nodes(ps) - 1
           Good(k) == Suffix(ps, k, RiverYields(i)[Rest(ps, k)])
           S == {d \in Nat : d <= n => Good(n + 1 - d)}
<1>1. n \in Nat /\ n > 0 /\ Nodes(ps) \in Nat /\ Rest(ps, 1) = Nodes(ps)
      /\ Rest(ps, n + 1) = 0 /\ ps \in Seq(Nat)
  BY RowTypes DEF Rest, Before, Nodes, Row
<1>2. i \in Nat /\ i + 1 = Nodes(ps)
  <2>1. Rest(ps, 1) \in Nat \ {0}
    BY <1>1, HighestIs
  <2> QED BY <1>1, <2>1
<1>3. /\ PeaksMMRIVERIter(i) = RiverYields(i)[i + 1]
      /\ RiverYields(i)[0] = <<>>
      /\ \A remaining \in 1..(i + 1) :
           RiverYields(i)[remaining] =
             LET highest_size == Pow2[BitLength(remaining + 1) - 1] - 1
             IN  <<(i + 1 - remaining) + highest_size - 1>>
                   \o RiverYields(i)[remaining - highest_size]
  BY <1>2, RiverYieldsDefined
<1> HIDE DEF i
<1>4. 0 \in S
  <2>1. n + 1 - 0 = n + 1
    BY <1>1
  <2> QED BY <1>1, <1>3, <2>1, SuffixGrows
<1>5. ASSUME NEW d \in Nat, d \in S PROVE d + 1 \in S
  <2> SUFFICES ASSUME d + 1 <= n PROVE Good(n + 1 - (d + 1))
    OBVIOUS
  <2> DEFINE k == n + 1 - (d + 1)
             tail == RiverYields(i)[Rest(ps, k + 1)]
  <2>1. k \in 1..n /\ k + 1 = n + 1 - d /\ d <= n
    BY <1>1
  <2>2. Suffix(ps, k + 1, tail)
    BY <1>5, <2>1
  <2> HIDE DEF k
  <2> DEFINE r == Rest(ps, k)
             T == TreeSize(H(ps[k]))
  <2>3. /\ r = T + Rest(ps, k + 1) /\ Rest(ps, k + 1) \in Nat
        /\ T \in Nat \ {0} /\ r \in Nat \ {0}
        /\ Pow2[BitLength(r + 1) - 1] - 1 = T
    BY <2>1, RestBounds, RowTypes, HighestIs
  <2>4. /\ ps[k] + 1 = Before(ps, k) + T /\ Before(ps, k) \in Nat /\ ps[k] \in Nat
        /\ r = (i + 1) - Before(ps, k)
    BY <1>2, <2>1, RowTypes DEF Row, Rest
  <2> HIDE DEF r, T
  <2>5. r \in 1..(i + 1) /\ r - T = Rest(ps, k + 1) /\ (i + 1 - r) + T - 1 = ps[k]
    <3> DEFINE b == Before(ps, k)
               q == Rest(ps, k + 1)
    <3>1. /\ i \in Nat /\ b \in Nat /\ q \in Nat /\ r \in Nat \ {0} /\ T \in Nat
          /\ ps[k] \in Nat /\ r = T + q /\ ps[k] + 1 = b + T /\ r = (i + 1) - b
      BY <1>2, <2>3, <2>4
    <3> HIDE DEF b, q
    <3>2. r \in 1..(i + 1) /\ r - T = q /\ (i + 1 - r) + T - 1 = ps[k]
      BY ONLY <3>1
    <3> QED BY <3>2 DEF q
  <2>6. RiverYields(i)[r] = <<ps[k]>> \o tail
    BY <1>3, <2>3, <2>5
  <2> HIDE DEF tail
  <2>7. Suffix(ps, k, <<ps[k]>> \o tail)
    BY <1>1, <2>1, <2>2, SuffixGrows
  <2>8. Good(k)
    BY <2>6, <2>7 DEF r
  <2> QED BY <2>8 DEF k
<1>6. Nat \subseteq S
  <2> HIDE DEF S
  <2> QED BY <1>4, <1>5, SetInduction
<1>7. Good(1)
  <2>1. n \in S /\ n + 1 - n = 1 /\ n <= n
    BY <1>1, <1>6
  <2> HIDE DEF Good
  <2> QED BY <2>1
<1>8. RiverYields(i)[Rest(ps, 1)] = ps
  BY <1>1, <1>7, SuffixGrows
<1> QED BY <1>1, <1>2, <1>3, <1>8 DEF i

-----------------------------------------------------------------------------
(* Leaves.                                                                 *)

\* A row of different mountains is the binary representation of its leaves.
LEMMA RowLeaves ==
  ASSUME NEW ps, Row(ps), ~Due(ps)
  PROVE  \E m \in Nat : 2 * m = Nodes(ps) + Len(ps) /\ count_ones(m) = Len(ps)
<1> DEFINE n == Len(ps)
           Counts(m, k) == /\ 2 * m = Rest(ps, k) + (n + 1 - k) /\ count_ones(m) = n + 1 - k
                           /\ \A j \in 1..n : k = j + 1 => m < Pow2[H(ps[j])]
           S == {d \in Nat : d <= n => \E m \in Nat : Counts(m, n + 1 - d)}
<1>1. /\ n \in Nat /\ Nodes(ps) \in Nat /\ Rest(ps, 1) = Nodes(ps) /\ Rest(ps, n + 1) = 0
      /\ \A k \in 1..n : H(ps[k]) \in Nat /\ Pow2[H(ps[k])] \in Nat \ {0}
  <2>1. \A k \in 1..n : H(ps[k]) \in Nat
    BY RowTypes
  <2>2. \A h \in Nat : Pow2[h] \in Nat \ {0}
    BY Pow2Doubles
  <2>3. n \in Nat /\ Nodes(ps) \in Nat
    BY RowTypes
  <2>4. Rest(ps, 1) = Nodes(ps) /\ Rest(ps, n + 1) = 0
    BY <2>3 DEF Rest, Before, Nodes
  <2> QED BY <2>1, <2>2, <2>3, <2>4
<1>2. 0 \in S
  <2>1. Counts(0, n + 1)
    <3>1. count_ones(0) = 0
      BY CountBounds
    <3> QED BY <1>1, <3>1
  <2>2. n + 1 - 0 = n + 1
    BY <1>1
  <2> QED BY <2>1, <2>2
<1>3. ASSUME NEW d \in Nat, d \in S PROVE d + 1 \in S
  <2> SUFFICES ASSUME d + 1 <= n PROVE \E m \in Nat : Counts(m, n + 1 - (d + 1))
    OBVIOUS
  <2> DEFINE k == n + 1 - (d + 1)
  <2>1. k \in 1..n /\ k \in Nat /\ k + 1 = n + 1 - d /\ d <= n
    BY <1>1
  <2>2. PICK m \in Nat : Counts(m, k + 1)
    BY <1>3, <2>1
  <2> HIDE DEF k
  <2> DEFINE h == H(ps[k])
             tree == Pow2[h]
             r == Rest(ps, k + 1)
  <2>3. /\ h \in Nat /\ tree \in Nat \ {0} /\ m < tree
        /\ 2 * m = r + (n - k) /\ count_ones(m) = n - k /\ r \in Nat
        /\ Rest(ps, k) = TreeSize(h) + r
    <3>1. n + 1 - (k + 1) = n - k
      BY <1>1, <2>1
    <3>2. m < tree
      BY <2>1, <2>2
    <3>3. 2 * m = r + (n + 1 - (k + 1)) /\ count_ones(m) = n + 1 - (k + 1)
      BY <2>2
    <3>4. r \in Nat /\ Rest(ps, k) = TreeSize(h) + r
      BY <2>1, RestBounds
    <3> QED BY <1>1, <2>1, <3>1, <3>2, <3>3, <3>4
  <2>4. TreeSize(h) = 2 * tree - 1
    BY <2>3, TreeSizes DEF TreeSize
  <2>5. tree + m \in Nat /\ count_ones(tree + m) = (n - k) + 1
    BY <2>3, CountSplit
  <2>6. \A j \in 1..n : k = j + 1 => tree + m < Pow2[H(ps[j])]
    <3> TAKE j \in 1..n
    <3> HAVE k = j + 1
    <3>1. j \in 1..(n - 1) /\ j + 1 = k
      BY <1>1, <2>1
    <3>2. h <= H(ps[j]) /\ (k < n => h < H(ps[j]))
      BY <3>1 DEF Row
    <3>3. H(ps[j]) \in Nat /\ Pow2[H(ps[j])] \in Nat
      BY <1>1
    <3>4. k = n => h # H(ps[j])
      <4> SUFFICES ASSUME k = n PROVE h # H(ps[j])
        OBVIOUS
      <4>1. j = n - 1 /\ n > 1
        BY <1>1, <3>1
      <4> QED BY <4>1 DEF Due
    <3>5. k < n \/ k = n
      BY <1>1, <2>1
    <3> DEFINE hj == H(ps[j])
    <3>6. h < hj /\ hj \in Nat /\ h \in Nat
      BY <2>3, <3>2, <3>3, <3>4, <3>5
    <3> HIDE DEF hj, h
    <3>7. h + 1 \in Nat /\ h + 1 <= hj
      BY <3>6
    <3>8. Pow2[h + 1] <= Pow2[hj] /\ Pow2[h + 1] = 2 * tree /\ Pow2[hj] \in Nat
      BY <3>6, <3>7, Pow2Grows, TreeSizes
    <3> HIDE DEF tree
    <3>9. tree + m < Pow2[hj]
      BY <2>3, <3>8
    <3> QED BY <3>9 DEF hj
  <2> HIDE DEF h, tree, r
  <2>7. 2 * (tree + m) = Rest(ps, k) + (n + 1 - k)
    <3> DEFINE rest == Rest(ps, k)
    <3>1. /\ n \in Nat /\ k \in Nat /\ tree \in Nat /\ m \in Nat /\ r \in Nat
          /\ 2 * m = r + (n - k) /\ rest = (2 * tree - 1) + r
      BY <1>1, <2>1, <2>3, <2>4
    <3> HIDE DEF n, rest
    <3>2. 2 * (tree + m) = rest + (n + 1 - k)
      BY ONLY <3>1
    <3> QED BY <3>2 DEF rest
  <2>8. (n - k) + 1 = n + 1 - k
    BY <1>1, <2>1
  <2>9. Counts(tree + m, k)
    BY <2>5, <2>6, <2>7, <2>8
  <2> QED BY <2>5, <2>9 DEF k
<1>4. Nat \subseteq S
  <2> HIDE DEF S
  <2> QED BY <1>2, <1>3, SetInduction
<1>5. PICK m \in Nat : Counts(m, 1)
  <2>1. n \in Nat
    BY <1>1
  <2>2. n <= n /\ n + 1 - n = 1
    BY <2>1
  <2>3. n \in S
    <3> HIDE DEF S
    <3> QED BY <1>4, <2>1
  <2> QED BY <2>2, <2>3
<1>6. n + 1 - 1 = n
  BY <1>1
<1> QED BY <1>1, <1>5, <1>6

\* The number of nodes follows from the number of leaves as leaf_index_to_mmr_size says.
LEMMA SizeOfRow ==
  ASSUME NEW ps, Row(ps), ~Due(ps), NEW l \in Nat, 2 * l = Nodes(ps) + Len(ps)
  PROVE  SizeOf(l) = Nodes(ps)
<1>1. PICK m \in Nat : 2 * m = Nodes(ps) + Len(ps) /\ count_ones(m) = Len(ps)
  BY RowLeaves
<1>2. m = l /\ Len(ps) \in Nat /\ Nodes(ps) \in Nat
  BY <1>1, RowTypes
<1> QED BY <1>1, <1>2 DEF SizeOf

-----------------------------------------------------------------------------
(* Families.                                                               *)

\* All mountains but the last are a row, and no merge is due in it.
LEMMA RowFront ==
  ASSUME NEW ps, Row(ps), Len(ps) > 0
  PROVE  LET qs == SubSeq(ps, 1, Len(ps) - 1)
         IN  /\ Row(qs) /\ ~Due(qs) /\ Nodes(qs) = Before(ps, Len(ps))
             /\ Len(qs) = Len(ps) - 1 /\ \A k \in 1..(Len(ps) - 1) : qs[k] = ps[k]
<1> DEFINE n == Len(ps)
           m == n - 1
           qs == SubSeq(ps, 1, m)
<1>1. /\ n \in Nat /\ n > 0 /\ m \in Nat /\ m + 1 = n /\ ps \in Seq(Nat)
      /\ \A k \in 1..n : ps[k] \in Nat /\ H(ps[k]) \in Nat
  <2>1. n \in Nat /\ n > 0
    BY RowTypes
  <2>2. m \in Nat /\ m + 1 = n
    BY <2>1
  <2>3. \A k \in 1..n : ps[k] \in Nat /\ H(ps[k]) \in Nat
    BY RowTypes
  <2>4. ps \in Seq(Nat)
    BY DEF Row
  <2> QED BY <2>1, <2>2, <2>3, <2>4
<1> HIDE DEF m
<1>2. qs \in Seq(Nat) /\ Len(qs) = m /\ \A k \in 1..m : qs[k] = ps[k]
  <2>1. \A k \in 1..m : ps[k] \in Nat
    BY <1>1
  <2>2. /\ SubSeq(ps, 1, m) \in Seq(Nat)
        /\ Len(SubSeq(ps, 1, m)) = IF 1 <= m THEN m - 1 + 1 ELSE 0
        /\ \A k \in 1..(m - 1 + 1) : SubSeq(ps, 1, m)[k] = ps[1 + k - 1]
    BY <1>1, <2>1, SubSeqProperties
  <2>3. m - 1 + 1 = m /\ (~(1 <= m) => m = 0) /\ \A k \in 1..m : 1 + k - 1 = k
    BY <1>1
  <2>4. Len(SubSeq(ps, 1, m)) = m /\ \A k \in 1..m : SubSeq(ps, 1, m)[k] = ps[k]
    BY <2>2, <2>3
  <2> QED BY <2>2, <2>4
<1> HIDE DEF qs
<1>3. \A k \in 1..(m + 1) : Before(qs, k) = Before(ps, k)
  <2> TAKE k \in 1..(m + 1)
  <2>1. k # 1 => k - 1 \in 1..m
    BY <1>1
  <2> QED BY <1>2, <2>1 DEF Before
<1>4. \A k \in 1..(m - 1) : H(qs[k + 1]) < H(qs[k])
  <2> TAKE k \in 1..(m - 1)
  <2>1. k \in 1..m /\ k + 1 \in 1..m /\ k \in 1..(n - 1) /\ k + 1 < n
    BY <1>1
  <2>2. H(ps[k + 1]) < H(ps[k])
    BY <2>1 DEF Row
  <2> QED BY <1>2, <2>1, <2>2
<1>5. \A k \in 1..(m - 1) : H(qs[k + 1]) \in Nat /\ H(qs[k]) \in Nat
  <2> TAKE k \in 1..(m - 1)
  <2>1. k \in 1..m /\ k + 1 \in 1..m /\ k \in 1..n /\ k + 1 \in 1..n
    BY <1>1
  <2> QED BY <1>1, <1>2, <2>1
<1>6. Row(qs)
  <2>1. \A k \in 1..m : qs[k] + 1 = Before(qs, k) + TreeSize(H(qs[k]))
    <3> TAKE k \in 1..m
    <3>1. k \in 1..n /\ k \in 1..(m + 1)
      BY <1>1
    <3> QED BY <1>2, <1>3, <3>1 DEF Row
  <2>2. \A k \in 1..(m - 1) : H(qs[k + 1]) <= H(qs[k])
    BY <1>4, <1>5
  <2> QED BY <1>2, <1>4, <2>1, <2>2 DEF Row
<1>7. ~Due(qs)
  <2> SUFFICES ASSUME m > 1, H(qs[m]) = H(qs[m - 1]) PROVE FALSE
    BY <1>2 DEF Due
  <2>1. m - 1 \in 1..(m - 1) /\ (m - 1) + 1 = m
    BY <1>1
  <2> QED BY <1>4, <1>5, <2>1
<1>8. Nodes(qs) = Before(ps, n)
  <2>1. m + 1 \in 1..(m + 1)
    BY <1>1
  <2> QED BY <1>1, <1>2, <1>3, <2>1 DEF Nodes
<1> QED BY <1>1, <1>2, <1>6, <1>7, <1>8 DEF qs, m

\* The sibling and the parent that the offsets lead to, from a node that is h high.
Relatives(p, h) ==
  IF H(p + 1) > h THEN [sibling |-> p - sibling_offset(h), parent |-> p + 1]
  ELSE [sibling |-> p + sibling_offset(h), parent |-> p + parent_offset(h)]

\* They are each other's, when the two last mountains are as high as each other.
LEMMA TwinsAreRelatives ==
  ASSUME NEW ps, Row(ps), Due(ps)
  PROVE  LET right == ps[Len(ps)]
             left == ps[Len(ps) - 1]
         IN  /\ left \in 0..(Nodes(ps) - 1) /\ right \in 0..(Nodes(ps) - 1)
             /\ Relatives(left, H(left)) = [sibling |-> right, parent |-> Nodes(ps)]
             /\ Relatives(right, H(right)) = [sibling |-> left, parent |-> Nodes(ps)]
<1> DEFINE n == Len(ps)
           right == ps[n]
           left == ps[n - 1]
           h == H(right)
<1>1. /\ n \in Nat /\ n > 1 /\ n \in 1..n /\ n - 1 \in 1..n /\ (n - 1) + 1 = n
      /\ H(left) = h
  BY RowTypes DEF Due
<1>2. /\ left \in 0..(Nodes(ps) - 1) /\ right \in 0..(Nodes(ps) - 1)
      /\ left \in Nat /\ right \in Nat /\ h \in Nat
  BY <1>1, PeaksInside, RowTypes
<1>3. Nodes(ps) = right + 1 /\ Before(ps, n) = left + 1
  <2>1. n + 1 # 1 /\ (n + 1) - 1 = n /\ n # 1
    BY <1>1
  <2> QED BY <2>1 DEF Nodes, Before
<1>4. right + 1 = Before(ps, n) + TreeSize(h)
  BY <1>1 DEF Row
<1>5. H(right + 1) = h + 1
  BY <1>3, HeightAfterRow
<1>6. H(left + 1) = 0
  <2>1. n > 0
    BY <1>1
  <2> DEFINE qs == SubSeq(ps, 1, n - 1)
  <2>2. Row(qs) /\ ~Due(qs) /\ Nodes(qs) = left + 1
    BY <1>3, <2>1, RowFront
  <2> HIDE DEF qs
  <2> QED BY <2>2, HeightAfterRow
<1>7. Pow2[h + 1] = 2 * Pow2[h] /\ Pow2[h] \in Nat
  BY <1>2, Pow2Doubles, TreeSizes
<1> HIDE DEF h, left, right
<1>8. right = left + sibling_offset(h) /\ left = right - sibling_offset(h)
      /\ right + 1 = left + parent_offset(h)
  <2> DEFINE pow == Pow2[h]
  <2>1. /\ pow \in Nat /\ left \in Nat /\ right \in Nat
        /\ right + 1 = (left + 1) + (2 * pow - 1)
    BY <1>2, <1>3, <1>4, <1>7 DEF TreeSize
  <2> HIDE DEF pow
  <2>2. /\ right = left + (2 * pow - 1) /\ left = right - (2 * pow - 1)
        /\ right + 1 = left + 2 * pow
    BY ONLY <2>1
  <2> QED BY <2>2 DEF pow, sibling_offset, parent_offset
<1>9. Relatives(left, h) = [sibling |-> right, parent |-> Nodes(ps)]
  <2>1. ~(H(left + 1) > h)
    BY <1>2, <1>6
  <2> QED BY <1>3, <1>8, <2>1 DEF Relatives
<1>10. Relatives(right, h) = [sibling |-> left, parent |-> Nodes(ps)]
  <2>1. H(right + 1) > h
    BY <1>2, <1>5
  <2> QED BY <1>3, <1>8, <2>1 DEF Relatives
<1> QED BY <1>1, <1>2, <1>9, <1>10 DEF h, left, right

-----------------------------------------------------------------------------
(* The path of a node goes from sibling to sibling up to its peak.         *)

\* Every mountain begins with a leaf, and so does what comes after a finished row.
LEMMA MountainsBeginWithLeaves ==
  ASSUME NEW ps, Row(ps), ~Due(ps), NEW k \in 1..(Len(ps) + 1)
  PROVE  H(Before(ps, k)) = 0
<1> DEFINE Q(m) == \A qs : Row(qs) /\ ~Due(qs) /\ Len(qs) = m
                             => \A j \in 1..(m + 1) : H(Before(qs, j)) = 0
           S == {m \in Nat : Q(m)}
<1>1. ASSUME NEW m \in Nat, NEW qs, Row(qs), ~Due(qs), Len(qs) = m
      PROVE  H(Before(qs, m + 1)) = 0
  BY <1>1, HeightAfterRow DEF Nodes
<1>2. 0 \in S
  <2> SUFFICES ASSUME NEW qs, Row(qs), ~Due(qs), Len(qs) = 0, NEW j \in 1..(0 + 1)
               PROVE  H(Before(qs, j)) = 0
    OBVIOUS
  <2>1. j = 0 + 1
    OBVIOUS
  <2> QED BY <1>1, <2>1
<1>3. ASSUME NEW m \in Nat, m \in S PROVE m + 1 \in S
  <2> SUFFICES ASSUME NEW qs, Row(qs), ~Due(qs), Len(qs) = m + 1,
                      NEW j \in 1..((m + 1) + 1)
               PROVE  H(Before(qs, j)) = 0
    OBVIOUS
  <2>1. CASE j = (m + 1) + 1
    <3>1. m + 1 \in Nat
      OBVIOUS
    <3> QED BY <1>1, <2>1, <3>1
  <2>2. CASE j # (m + 1) + 1
    <3> DEFINE fs == SubSeq(qs, 1, Len(qs) - 1)
    <3>1. Len(qs) > 0 /\ Len(qs) - 1 = m /\ j \in 1..(m + 1)
      BY <2>2
    <3>2. Row(fs) /\ ~Due(fs) /\ Len(fs) = m /\ \A k1 \in 1..m : fs[k1] = qs[k1]
      BY <3>1, RowFront
    <3> HIDE DEF fs
    <3>3. H(Before(fs, j)) = 0
      BY <1>3, <3>1, <3>2
    <3>4. j = 1 \/ j - 1 \in 1..m
      BY <3>1
    <3>5. Before(fs, j) = Before(qs, j)
      BY <3>2, <3>4 DEF Before
    <3> QED BY <3>3, <3>5
  <2> QED BY <2>1, <2>2
<1>4. Nat \subseteq S
  <2> HIDE DEF S
  <2> QED BY <1>2, <1>3, SetInduction
<1>5. Len(ps) \in Nat
  BY RowTypes
<1> QED BY <1>4, <1>5

\* At a peak the path ends: its sibling would be outside.
LEMMA PeaksHaveNoSibling ==
  ASSUME NEW ps, Row(ps), ~Due(ps), NEW k \in 1..Len(ps)
  PROVE  isibling(ps[k], H(ps[k])) > Nodes(ps) - 1
<1> DEFINE p == ps[k]
           h == H(p)
           N == Nodes(ps)
           R == Rest(ps, k + 1)
<1>1. /\ p \in Nat /\ h \in Nat /\ N \in Nat /\ R \in Nat
      /\ TreeSize(h) \in Nat /\ R <= TreeSize(h) /\ R # TreeSize(h)
  BY RowTypes, RestBounds
<1>2. Before(ps, k + 1) = p + 1
  <2>1. k + 1 # 1 /\ (k + 1) - 1 = k
    BY RowTypes
  <2> QED BY <2>1 DEF Before
<1>3. R = N - (p + 1)
  BY <1>2 DEF Rest
<1>4. H(p + 1) = 0
  <2>1. k + 1 \in 1..(Len(ps) + 1)
    BY RowTypes
  <2> QED BY <1>2, <2>1, MountainsBeginWithLeaves
<1>5. TreeSize(h) = 2 * Pow2[h] - 1 /\ Pow2[h] \in Nat
  BY <1>1, Pow2Doubles DEF TreeSize
<1> HIDE DEF p, h, N, R
<1>6. isibling(p, h) = p + 2 * Pow2[h] - 1
  BY <1>1, <1>4 DEF isibling, is_right, H
<1>7. p + 2 * Pow2[h] - 1 > N - 1
  <2> DEFINE pow == Pow2[h]
  <2>1. R = N - (p + 1) /\ R < 2 * pow - 1 /\ pow \in Nat
    BY <1>1, <1>3, <1>5
  <2> HIDE DEF pow
  <2>2. p + 2 * pow - 1 > N - 1
    BY <1>1, <2>1
  <2> QED BY <2>2 DEF pow
<1> QED BY <1>6, <1>7 DEF p, h, N

-----------------------------------------------------------------------------
(* PeaksIter and get_peak_map go through what the scan takes off.           *)

\* What has been put into the map when mountains of height k - 1 and lower are still to
\* be tried, and what they go on to yield; also where the scan of n does not start yet.
Mapped(n, k) == IF k <= BitLength(n) THEN PeakMaps(n)[k] ELSE 0
Yielded(n, k) ==
  IF k <= BitLength(n) THEN PeakYields(n)[k] ELSE PeakYields(n)[BitLength(n)]

\* What is yielded for the mountain of height k.
Yield(n, k) == IF k \in PeakHeights(n) THEN <<n - Left(n, k) - 1>> ELSE <<>>

\* Both functions take one step for every height, however high the scan starts.
LEMMA ScanSteps ==
  ASSUME NEW n \in Nat
  PROVE  /\ get_peak_map(n) = Mapped(n, 0)
         /\ Yielded(n, 0) = <<>>
         /\ \A k \in Nat : n < Pow2[k] => Mapped(n, k) = 0 /\ Yielded(n, k) = PeaksIter(n)
         /\ \A k \in Nat :
              /\ Mapped(n, k) \in Nat
              /\ Mapped(n, k) = 2 * Mapped(n, k + 1) + (IF k \in PeakHeights(n) THEN 1 ELSE 0)
              /\ Yielded(n, k + 1) = Yield(n, k) \o Yielded(n, k)
<1> DEFINE K == BitLength(n)
           map == PeakMaps(n)
           yields == PeakYields(n)
           Bit(k) == IF k \in PeakHeights(n) THEN 1 ELSE 0
<1>1. K \in Nat /\ n < Pow2[K]
  BY BitLengthBounds
<1>2. /\ get_peak_map(n) = map[0]
      /\ \A k \in 0..K : /\ map[k] \in Nat
                         /\ map[k] = IF k = K THEN 0 ELSE 2 * map[k + 1] + Bit(k)
  BY PeakMapsDefined
<1>3. /\ PeaksIter(n) = yields[K] /\ yields[K] \in Seq(0..(n - 1)) /\ yields[0] = <<>>
      /\ \A k \in 1..K :
           yields[k] = (IF (k - 1) \in PeakHeights(n) THEN <<n - Unscanned(n)[k - 1] - 1>>
                        ELSE <<>>) \o yields[k - 1]
  BY PeakYieldsDefined
<1>4. \A k \in Nat :
        /\ Mapped(n, k) = IF k <= K THEN map[k] ELSE 0
        /\ Yielded(n, k) = IF k <= K THEN yields[k] ELSE yields[K]
        /\ k <= K => Left(n, k) = Unscanned(n)[k]
  BY DEF Mapped, Yielded, Left
<1>5. PeakHeights(n) \subseteq 0..(K - 1)
  BY DEF PeakHeights
<1> HIDE DEF K, map, yields
<1>6. \A k \in Nat : n < Pow2[k] => k >= K
  <2> TAKE k \in Nat
  <2> HAVE n < Pow2[k]
  <2> SUFFICES ASSUME k < K PROVE FALSE
    BY <1>1
  <2>1. K - 1 \in Nat /\ K # 0 /\ k <= K - 1
    BY <1>1
  <2>2. n # 0
    <3>1. BitLength(0) = 0
      BY BitLengthBounds
    <3> QED BY <2>1, <3>1 DEF K
  <2>3. Pow2[K - 1] <= n
    BY <2>2, HeightSteps DEF K
  <2>4. Pow2[k] <= Pow2[K - 1]
    BY <2>1, Pow2Grows
  <2>5. Pow2[k] \in Nat /\ Pow2[K - 1] \in Nat
    BY <2>1, TreeSizes
  <2> QED BY <2>3, <2>4, <2>5
<1>7. ASSUME NEW k \in Nat, k >= K PROVE Mapped(n, k) = 0 /\ Yielded(n, k) = yields[K]
  <2>1. k = K \/ ~(k <= K)
    BY <1>1, <1>7
  <2>2. K \in 0..K
    BY <1>1
  <2>3. map[K] = 0
    BY <1>2, <2>2
  <2> QED BY <1>4, <2>1, <2>3
<1>8. ASSUME NEW k \in Nat
      PROVE  /\ Mapped(n, k) \in Nat
             /\ Mapped(n, k) = 2 * Mapped(n, k + 1) + Bit(k)
             /\ Yielded(n, k + 1) = Yield(n, k) \o Yielded(n, k)
  <2>1. CASE k < K
    <3>1. k \in 0..K /\ k # K /\ k <= K /\ k + 1 <= K /\ k + 1 \in 1..K /\ (k + 1) - 1 = k
          /\ k + 1 \in Nat
      BY <1>1, <2>1
    <3>2. Mapped(n, k) = map[k] /\ Mapped(n, k + 1) = map[k + 1]
          /\ Yielded(n, k) = yields[k] /\ Yielded(n, k + 1) = yields[k + 1]
      BY <1>4, <3>1
    <3>3. map[k] \in Nat /\ map[k] = 2 * map[k + 1] + Bit(k)
      BY <1>2, <3>1
    <3>4. Yield(n, k) = IF k \in PeakHeights(n) THEN <<n - Unscanned(n)[k] - 1>> ELSE <<>>
      <4>1. Left(n, k) = Unscanned(n)[k]
        BY <1>4, <3>1
      <4> QED BY <4>1 DEF Yield
    <3>5. yields[k + 1] = Yield(n, k) \o yields[k]
      <4>1. yields[k + 1] =
              (IF ((k + 1) - 1) \in PeakHeights(n)
               THEN <<n - Unscanned(n)[(k + 1) - 1] - 1>> ELSE <<>>) \o yields[(k + 1) - 1]
        BY <1>3, <3>1
      <4> QED BY <3>1, <3>4, <4>1
    <3> QED BY <3>2, <3>3, <3>5
  <2>2. CASE ~(k < K)
    <3>1. k >= K /\ k + 1 >= K /\ k + 1 \in Nat
      BY <1>1, <2>2
    <3>2. k \notin PeakHeights(n)
      BY <1>1, <1>5, <2>2
    <3>3. Bit(k) = 0 /\ Yield(n, k) = <<>>
      BY <3>2 DEF Yield
    <3>4. <<>> \o yields[K] = yields[K]
      BY <1>3
    <3>5. Mapped(n, k) = 0 /\ Mapped(n, k + 1) = 0
          /\ Yielded(n, k) = yields[K] /\ Yielded(n, k + 1) = yields[K]
      BY <1>7, <3>1
    <3> HIDE DEF Bit
    <3> QED BY <3>3, <3>4, <3>5
  <2> QED BY <2>1, <2>2
<1>9. 0 <= K /\ 0 \in Nat
  BY <1>1
<1> QED BY <1>2, <1>3, <1>4, <1>6, <1>7, <1>8, <1>9

\* One node more, which is not a leaf, is left over as well: nothing else changes.
LEMMA SameScan ==
  ASSUME NEW m \in Nat, H(m + 1) > 0
  PROVE  PeaksIter(m + 1) = PeaksIter(m) /\ get_peak_map(m + 1) = get_peak_map(m)
<1> DEFINE q == m + 1
<1>1. q \in Nat /\ q = m + 1
  OBVIOUS
<1>2. /\ Left(q, 0) > 0
      /\ \A k \in Nat : q < Pow2[k] => Left(q, k) = q
      /\ \A k \in Nat :
           /\ Left(q, k) \in 0..q
           /\ Left(q, k) = IF Left(q, k + 1) >= Pow2[k + 1] - 1
                           THEN Left(q, k + 1) - (Pow2[k + 1] - 1) ELSE Left(q, k + 1)
           /\ k \in PeakHeights(q) <=> Left(q, k) # Left(q, k + 1)
  <2>1. pos_height_in_tree(q) > 0
    BY <1>1, HeightsSame DEF H
  <2> HIDE DEF q
  <2> QED BY <1>1, <2>1, LeftSteps
<1>3. /\ \A k \in Nat : m < Pow2[k] => Left(m, k) = m
      /\ \A k \in Nat :
           /\ Left(m, k) \in 0..m
           /\ Left(m, k) = IF Left(m, k + 1) >= Pow2[k + 1] - 1
                           THEN Left(m, k + 1) - (Pow2[k + 1] - 1) ELSE Left(m, k + 1)
           /\ k \in PeakHeights(m) <=> Left(m, k) # Left(m, k + 1)
  BY LeftSteps
<1>4. \A k \in Nat : Pow2[k] \in Nat \ {0} /\ k + 1 \in Nat
  BY Pow2Doubles
<1>5. q < Pow2[q] /\ m < Pow2[q] /\ \A k \in Nat : k >= q => q < Pow2[k] /\ m < Pow2[k]
  <2>1. \A k \in Nat : k < Pow2[k] /\ Pow2[k] \in Nat
    BY <1>4, Pow2Grows
  <2> QED BY <1>1, <2>1
<1> HIDE DEF q
<1>6. \A k \in Nat : Left(q, k) \in Nat /\ Left(m, k) \in Nat
  BY <1>2, <1>3
<1>7. \A k \in Nat : Left(q, k) > 0
  <2> DEFINE S == {k \in Nat : Left(q, k) > 0}
  <2>1. 0 \in S
    BY <1>2
  <2>2. ASSUME NEW k \in Nat, k \in S PROVE k + 1 \in S
    <3> DEFINE a == Left(q, k)  b == Left(q, k + 1)  t == Pow2[k + 1]
    <3>1. a > 0 /\ a = (IF b >= t - 1 THEN b - (t - 1) ELSE b) /\ t \in Nat \ {0}
          /\ a \in Nat /\ b \in Nat
      BY <1>2, <1>4, <1>6, <2>2
    <3> HIDE DEF a, b, t
    <3>2. b > 0
      BY <3>1
    <3> QED BY <3>2, <1>4 DEF b
  <2>3. Nat \subseteq S
    <3> HIDE DEF S
    <3> QED BY <2>1, <2>2, SetInduction
  <2> QED BY <2>3
<1>8. ASSUME NEW k \in Nat, Left(q, k + 1) = Left(m, k + 1) + 1
      PROVE  /\ Left(q, k) = Left(m, k) + 1
             /\ k \in PeakHeights(q) <=> k \in PeakHeights(m)
  <2> DEFINE a == Left(q, k)  b == Left(q, k + 1)  t == Pow2[k + 1]
             c == Left(m, k)  d == Left(m, k + 1)
  <2>1. /\ a > 0 /\ a = (IF b >= t - 1 THEN b - (t - 1) ELSE b) /\ t \in Nat \ {0}
        /\ c = (IF d >= t - 1 THEN d - (t - 1) ELSE d)
        /\ a \in Nat /\ b \in Nat /\ c \in Nat /\ d \in Nat /\ b = d + 1
    BY <1>2, <1>3, <1>4, <1>7, <1>8, <1>6
  <2>2. (k \in PeakHeights(q) <=> a # b) /\ (k \in PeakHeights(m) <=> c # d)
    BY <1>2, <1>3
  <2> HIDE DEF a, b, c, d, t
  <2>3. a = c + 1 /\ (a # b <=> c # d)
    BY <2>1
  <2> QED BY <2>2, <2>3 DEF a, c
<1>9. \A k \in Nat : k >= q => Left(q, k) = Left(m, k) + 1
  <2> TAKE k \in Nat
  <2> HAVE k >= q
  <2>1. Left(q, k) = q /\ Left(m, k) = m
    BY <1>2, <1>3, <1>5
  <2> QED BY <1>1, <2>1
<1>10. \A k \in Nat :
        /\ Left(q, k) = Left(m, k) + 1
        /\ k \in PeakHeights(q) <=> k \in PeakHeights(m)
  <2> DEFINE S == {d \in Nat : \A k \in Nat : k + d >= q => Left(q, k) = Left(m, k) + 1}
  <2>1. 0 \in S
    BY <1>9
  <2>2. ASSUME NEW d \in Nat, d \in S PROVE d + 1 \in S
    <3> SUFFICES ASSUME NEW k \in Nat, k + (d + 1) >= q PROVE Left(q, k) = Left(m, k) + 1
      OBVIOUS
    <3>1. (k + 1) + d >= q /\ k + 1 \in Nat
      BY <1>1
    <3>2. Left(q, k + 1) = Left(m, k + 1) + 1
      BY <2>2, <3>1
    <3> QED BY <1>8, <3>2
  <2>3. Nat \subseteq S
    <3> HIDE DEF S
    <3> QED BY <2>1, <2>2, SetInduction
  <2>4. ASSUME NEW k \in Nat PROVE Left(q, k) = Left(m, k) + 1
    <3>1. q \in S /\ k + q >= q
      BY <1>1, <2>3
    <3> QED BY <3>1
  <2>5. ASSUME NEW k \in Nat PROVE k \in PeakHeights(q) <=> k \in PeakHeights(m)
    BY <1>4, <1>8, <2>4
  <2> QED BY <2>4, <2>5
<1>11. \A k \in Nat : Yield(q, k) = Yield(m, k)
  <2> TAKE k \in Nat
  <2>1. q - Left(q, k) - 1 = m - Left(m, k) - 1
    <3>1. Left(q, k) = Left(m, k) + 1 /\ Left(m, k) \in Nat
      BY <1>10, <1>6
    <3> QED BY <1>1, <3>1
  <2>2. k \in PeakHeights(q) <=> k \in PeakHeights(m)
    BY <1>10
  <2> QED BY <2>1, <2>2 DEF Yield
<1>12. \A k \in Nat : Yielded(q, k) = Yielded(m, k)
  <2> DEFINE S == {k \in Nat : Yielded(q, k) = Yielded(m, k)}
  <2>1. 0 \in S
    BY <1>1, ScanSteps
  <2>2. ASSUME NEW k \in Nat, k \in S PROVE k + 1 \in S
    <3>1. /\ Yielded(q, k + 1) = Yield(q, k) \o Yielded(q, k)
          /\ Yielded(m, k + 1) = Yield(m, k) \o Yielded(m, k)
      BY <1>1, ScanSteps
    <3>2. Yield(q, k) = Yield(m, k) /\ Yielded(q, k) = Yielded(m, k)
      BY <1>11, <2>2
    <3> QED BY <1>4, <3>1, <3>2
  <2>3. Nat \subseteq S
    <3> HIDE DEF S
    <3> QED BY <2>1, <2>2, SetInduction
  <2> QED BY <2>3
<1>13. \A k \in Nat : Mapped(q, k) = Mapped(m, k)
  <2> DEFINE S == {d \in Nat : \A k \in Nat : k + d >= q => Mapped(q, k) = Mapped(m, k)}
  <2>1. 0 \in S
    BY <1>1, <1>5, ScanSteps
  <2>2. ASSUME NEW d \in Nat, d \in S PROVE d + 1 \in S
    <3> SUFFICES ASSUME NEW k \in Nat, k + (d + 1) >= q PROVE Mapped(q, k) = Mapped(m, k)
      OBVIOUS
    <3>1. (k + 1) + d >= q /\ k + 1 \in Nat
      BY <1>1
    <3>2. Mapped(q, k + 1) = Mapped(m, k + 1)
      BY <2>2, <3>1
    <3>3. /\ Mapped(q, k) = 2 * Mapped(q, k + 1) + (IF k \in PeakHeights(q) THEN 1 ELSE 0)
          /\ Mapped(m, k) = 2 * Mapped(m, k + 1) + (IF k \in PeakHeights(m) THEN 1 ELSE 0)
      BY <1>1, ScanSteps
    <3>4. k \in PeakHeights(q) <=> k \in PeakHeights(m)
      BY <1>10
    <3> QED BY <3>2, <3>3, <3>4
  <2>3. Nat \subseteq S
    <3> HIDE DEF S
    <3> QED BY <2>1, <2>2, SetInduction
  <2> TAKE k \in Nat
  <2>4. q \in S /\ k + q >= q
    BY <1>1, <2>3
  <2> QED BY <2>4
<1>14. PeaksIter(q) = Yielded(q, q) /\ PeaksIter(m) = Yielded(m, q)
       /\ get_peak_map(q) = Mapped(q, 0) /\ get_peak_map(m) = Mapped(m, 0)
  BY <1>1, <1>5, ScanSteps
<1> QED BY <1>1, <1>12, <1>13, <1>14

\* A mountain is never as high as the row has nodes.
LEMMA PeaksAreLow ==
  ASSUME NEW ps, Row(ps), NEW j \in 1..Len(ps)
  PROVE  H(ps[j]) < Nodes(ps)
<1> DEFINE h == H(ps[j])
           N == Nodes(ps)
<1>1. h \in Nat /\ h + 1 \in Nat /\ Before(ps, j) \in Nat /\ ps[j] \in Nat /\ N \in Nat
  BY RowTypes
<1>2. h + 1 < Pow2[h + 1] /\ Pow2[h + 1] \in Nat
  BY <1>1, Pow2Grows, Pow2Doubles
<1>3. ps[j] + 1 = Before(ps, j) + (Pow2[h + 1] - 1)
  BY DEF Row, TreeSize
<1>4. ps[j] \in 0..(N - 1)
  BY PeaksInside
<1> HIDE DEF h, N
<1>5. h < N
  BY <1>1, <1>2, <1>3, <1>4
<1> QED BY <1>5 DEF h, N

\* The scan takes off the mountains of a row from the left, if no merge is due.
LEMMA RowScan ==
  ASSUME NEW ps, Row(ps), ~Due(ps)
  PROVE  PeaksIter(Nodes(ps)) = ps /\ 2 * get_peak_map(Nodes(ps)) = Nodes(ps) + Len(ps)
<1> DEFINE n == Len(ps)
           N == Nodes(ps)
           \* Mountains before the j-th are k high or higher, the others are lower.
           At(j, k) == /\ j \in 1..(n + 1)
                       /\ j > 1 => H(ps[j - 1]) >= k
                       /\ j <= n => H(ps[j]) < k
           Scanned(j, k) == /\ Left(N, k) = Rest(ps, j)
                            /\ Pow2[k + 1] * Mapped(N, k) = Before(ps, j) + (j - 1)
<1>1. /\ n \in Nat /\ N \in Nat /\ Rest(ps, 1) = N /\ Rest(ps, n + 1) = 0
      /\ Before(ps, 1) = 0 /\ ps \in Seq(Nat)
  BY RowTypes DEF Rest, Before, Nodes, Row
<1>2. \A j \in 1..n : /\ ps[j] \in Nat /\ H(ps[j]) \in Nat
                      /\ TreeSize(H(ps[j])) \in Nat \ {0}
                      /\ Before(ps, j) \in Nat
                      /\ Before(ps, j + 1) = Before(ps, j) + TreeSize(H(ps[j]))
  BY RowTypes
<1>3. \A j \in 1..n : /\ Rest(ps, j) = TreeSize(H(ps[j])) + Rest(ps, j + 1)
                      /\ Rest(ps, j + 1) \in Nat
                      /\ Rest(ps, j + 1) < TreeSize(H(ps[j]))
  <2> TAKE j \in 1..n
  <2>1. /\ Rest(ps, j) = TreeSize(H(ps[j])) + Rest(ps, j + 1)
        /\ Rest(ps, j + 1) \in Nat
        /\ Rest(ps, j + 1) <= TreeSize(H(ps[j]))
        /\ Rest(ps, j + 1) # TreeSize(H(ps[j]))
    BY RestBounds
  <2> QED BY <1>2, <2>1
<1>4. \A j \in 1..(n - 1) : H(ps[j + 1]) < H(ps[j])
  <2> TAKE j \in 1..(n - 1)
  <2>1. H(ps[j + 1]) <= H(ps[j]) /\ (j + 1 < n => H(ps[j + 1]) < H(ps[j]))
    BY DEF Row
  <2>2. CASE j + 1 < n
    BY <2>1, <2>2
  <2>3. CASE ~(j + 1 < n)
    <3>1. j + 1 = n /\ j = n - 1 /\ n > 1 /\ j \in 1..n /\ n \in 1..n
      BY <1>1, <2>3
    <3>2. H(ps[n]) # H(ps[n - 1])
      BY <3>1 DEF Due
    <3>3. H(ps[n]) \in Nat /\ H(ps[n - 1]) \in Nat
      BY <1>2, <3>1
    <3> QED BY <2>1, <3>1, <3>2, <3>3
  <2> QED BY <2>2, <2>3
<1>5. /\ get_peak_map(N) = Mapped(N, 0)
      /\ Yielded(N, 0) = <<>>
      /\ \A k \in Nat : N < Pow2[k] => Mapped(N, k) = 0 /\ Yielded(N, k) = PeaksIter(N)
      /\ \A k \in Nat :
           /\ Mapped(N, k) \in Nat
           /\ Mapped(N, k) = 2 * Mapped(N, k + 1) + (IF k \in PeakHeights(N) THEN 1 ELSE 0)
           /\ Yielded(N, k + 1) = Yield(N, k) \o Yielded(N, k)
  BY <1>1, ScanSteps
<1>6. /\ \A k \in Nat : N < Pow2[k] => Left(N, k) = N
      /\ \A k \in Nat :
           /\ Left(N, k) \in 0..N
           /\ Left(N, k) = IF Left(N, k + 1) >= Pow2[k + 1] - 1
                           THEN Left(N, k + 1) - (Pow2[k + 1] - 1)
                           ELSE Left(N, k + 1)
           /\ k \in PeakHeights(N) <=> Left(N, k) # Left(N, k + 1)
  BY <1>1, LeftSteps
<1>7. \A k \in Nat : Pow2[k] \in Nat \ {0} /\ Pow2[k + 1] = 2 * Pow2[k] /\ k + 1 \in Nat
  BY Pow2Doubles
<1>8. ASSUME NEW k \in Nat, k >= N
      PROVE  N < Pow2[k] /\ \A j : At(j, k) => j = 1
  <2>1. N < Pow2[k]
    <3>1. k < Pow2[k] /\ Pow2[k] \in Nat /\ N \in Nat /\ k >= N
      BY <1>1, <1>7, <1>8, Pow2Grows
    <3> HIDE DEF N
    <3> QED BY <3>1
  <2>2. ASSUME NEW j \in 1..n PROVE H(ps[j]) < k
    <3>1. H(ps[j]) < N /\ H(ps[j]) \in Nat /\ N \in Nat
      BY <1>1, <1>2, PeaksAreLow
    <3> HIDE DEF N
    <3> QED BY <1>8, <3>1
  <2>3. ASSUME NEW j, At(j, k) PROVE j = 1
    <3> SUFFICES ASSUME j # 1 PROVE FALSE
      OBVIOUS
    <3>1. j - 1 \in 1..n /\ j > 1
      BY <1>1, <2>3
    <3>2. H(ps[j - 1]) \in Nat /\ H(ps[j - 1]) < k /\ H(ps[j - 1]) >= k
      BY <1>2, <2>2, <2>3, <3>1
    <3> QED BY <3>2
  <2> QED BY <2>1, <2>3
\* The j-th mountain is taken off, or the scan tries one that is higher.
<1>9. ASSUME NEW k \in Nat, NEW j, At(j, k)
      PROVE  \/ j > 1 /\ H(ps[j - 1]) = k /\ At(j - 1, k + 1)
             \/ At(j, k + 1)
  <2>1. j \in 1..(n + 1) /\ (j > 1 => H(ps[j - 1]) >= k) /\ (j <= n => H(ps[j]) < k)
    BY <1>9
  <2>2. j <= n => H(ps[j]) < k + 1
    <3>1. j <= n => H(ps[j]) \in Nat
      BY <1>1, <1>2, <2>1
    <3> QED BY <2>1, <3>1
  <2>3. CASE j > 1 /\ H(ps[j - 1]) = k
    <3>1. j - 1 \in 1..(n + 1) /\ j - 1 <= n /\ H(ps[j - 1]) < k + 1
      BY <1>1, <2>1, <2>3
    <3>2. ASSUME j - 1 > 1 PROVE H(ps[(j - 1) - 1]) >= k + 1
      <4>1. /\ (j - 1) - 1 \in 1..(n - 1) /\ ((j - 1) - 1) + 1 = j - 1
            /\ (j - 1) - 1 \in 1..n
        BY <1>1, <2>1, <3>2
      <4>2. H(ps[j - 1]) < H(ps[(j - 1) - 1]) /\ H(ps[(j - 1) - 1]) \in Nat
        BY <1>2, <1>4, <4>1
      <4> QED BY <2>3, <4>2
    <3> QED BY <2>3, <3>1, <3>2
  <2>4. CASE ~(j > 1 /\ H(ps[j - 1]) = k)
    <3>1. j > 1 => H(ps[j - 1]) >= k + 1
      <4>1. j > 1 => H(ps[j - 1]) \in Nat
        BY <1>1, <1>2, <2>1
      <4> QED BY <2>1, <2>4, <4>1
    <3> QED BY <2>1, <2>2, <3>1
  <2> QED BY <2>3, <2>4
<1>10. ASSUME NEW k \in Nat, \A j : At(j, k + 1) => Scanned(j, k + 1), NEW j, At(j, k)
       PROVE  Scanned(j, k)
  <2> DEFINE x == Pow2[k + 1]  M == Mapped(N, k)  M1 == Mapped(N, k + 1)
             L == Left(N, k)  L1 == Left(N, k + 1)
  <2>1. /\ x \in Nat \ {0} /\ Pow2[(k + 1) + 1] = 2 * x
        /\ M \in Nat /\ M1 \in Nat /\ L \in 0..N /\ L1 \in 0..N
        /\ M = 2 * M1 + (IF k \in PeakHeights(N) THEN 1 ELSE 0)
        /\ L = (IF L1 >= x - 1 THEN L1 - (x - 1) ELSE L1)
        /\ k \in PeakHeights(N) <=> L # L1
    BY <1>5, <1>6, <1>7
  <2>2. j \in 1..(n + 1)
    BY <1>10
  <2>3. CASE j > 1 /\ H(ps[j - 1]) = k /\ At(j - 1, k + 1)
    <3>1. j - 1 \in 1..n /\ (j - 1) + 1 = j
      BY <1>1, <2>2, <2>3
    <3> DEFINE R == Rest(ps, j)  B == Before(ps, j)  B1 == Before(ps, j - 1)
    <3>2. L1 = Rest(ps, j - 1) /\ (2 * x) * M1 = B1 + ((j - 1) - 1)
      BY <1>10, <2>1, <2>3
    <3>3. Rest(ps, j - 1) = (x - 1) + R /\ R \in Nat /\ B = B1 + (x - 1) /\ B1 \in Nat
      BY <1>2, <1>3, <2>3, <3>1 DEF TreeSize
    <3>4. L = R /\ L # L1
      <4>1. x # 1
        <5>1. Pow2[k] \in Nat \ {0} /\ x = 2 * Pow2[k]
          BY <1>7
        <5> HIDE DEF x
        <5> QED BY <5>1
      <4> HIDE DEF x, L, L1, R
      <4> QED BY <2>1, <3>2, <3>3, <4>1
    <3>5. M = 2 * M1 + 1
      BY <2>1, <3>4
    <3> HIDE DEF x, M, M1, B, B1
    <3>6. x * M = (2 * x) * M1 + x
      BY <2>1, <3>5
    <3>7. x * M = B + (j - 1)
      BY <2>1, <2>2, <3>2, <3>3, <3>6
    <3> QED BY <3>4, <3>7 DEF x, M, L, R, B
  <2>4. CASE At(j, k + 1)
    <3> DEFINE R == Rest(ps, j)  B == Before(ps, j)
    <3>1. L1 = R /\ (2 * x) * M1 = B + (j - 1)
      BY <1>10, <2>1, <2>4
    <3>2. R < x - 1
      <4>1. CASE j = n + 1
        <5>1. Pow2[k] \in Nat \ {0} /\ x = 2 * Pow2[k]
          BY <1>7
        <5> QED BY <1>1, <4>1, <5>1
      <4>2. CASE j # n + 1
        <5>1. j \in 1..n
          BY <1>1, <2>2, <4>2
        <5> DEFINE h == H(ps[j])
        <5>2. h \in Nat /\ h < k /\ TreeSize(h) \in Nat /\ Rest(ps, j + 1) \in Nat
              /\ R = TreeSize(h) + Rest(ps, j + 1) /\ Rest(ps, j + 1) < TreeSize(h)
          BY <1>2, <1>3, <1>10, <5>1
        <5>3. 2 * TreeSize(h) < TreeSize(k)
          BY <5>2, TreeSizeGrows
        <5> HIDE DEF h
        <5>4. R < TreeSize(k)
          <6>1. TreeSize(k) \in Nat
            BY TreeSizeGrows
          <6> QED BY <5>2, <5>3, <6>1
        <5> QED BY <5>4 DEF TreeSize
      <4> QED BY <4>1, <4>2
    <3>3. L = L1
      <4>1. L1 \in Nat
        BY <2>1
      <4> HIDE DEF x, L, L1, R
      <4> QED BY <2>1, <3>1, <3>2, <4>1
    <3>4. M = 2 * M1
      BY <2>1, <3>3
    <3> HIDE DEF x, M, M1, B
    <3>5. x * M = (2 * x) * M1
      BY <2>1, <3>4
    <3> QED BY <3>1, <3>3, <3>5 DEF x, M, L, R, B
  <2> QED BY <1>9, <1>10, <2>3, <2>4
<1>11. \A k \in Nat : \A j : At(j, k) => Scanned(j, k)
  <2> DEFINE Q(k) == \A j : At(j, k) => Scanned(j, k)
             S == {d \in Nat : \A k \in Nat : k + d >= N => Q(k)}
  <2>1. ASSUME NEW k \in Nat, k >= N PROVE Q(k)
    <3> SUFFICES ASSUME NEW j, At(j, k) PROVE Scanned(j, k)
      OBVIOUS
    <3>1. j = 1 /\ N < Pow2[k]
      BY <1>8, <2>1
    <3>2. Left(N, k) = N /\ Mapped(N, k) = 0 /\ Pow2[k + 1] \in Nat
      BY <1>5, <1>6, <1>7, <3>1
    <3> QED BY <1>1, <3>1, <3>2
  <2>2. ASSUME NEW k \in Nat, Q(k + 1) PROVE Q(k)
    BY <1>10, <2>2
  <2> HIDE DEF Q
  <2>3. 0 \in S
    BY <2>1
  <2>4. ASSUME NEW d \in Nat, d \in S PROVE d + 1 \in S
    <3> SUFFICES ASSUME NEW k \in Nat, k + (d + 1) >= N PROVE Q(k)
      OBVIOUS
    <3>1. (k + 1) + d >= N /\ k + 1 \in Nat
      BY <1>1
    <3> QED BY <2>2, <2>4, <3>1
  <2>5. Nat \subseteq S
    <3> HIDE DEF S
    <3> QED BY <2>3, <2>4, SetInduction
  <2>6. ASSUME NEW k \in Nat PROVE Q(k)
    <3>1. N \in S /\ k + N >= N
      BY <1>1, <2>5
    <3> QED BY <3>1
  <2> QED BY <2>6 DEF Q
<1>12. ASSUME NEW k \in Nat, \A j : At(j, k) => Suffix(ps, j, Yielded(N, k)),
              NEW j, At(j, k + 1)
       PROVE  Suffix(ps, j, Yielded(N, k + 1))
  <2>1. Yielded(N, k + 1) = Yield(N, k) \o Yielded(N, k)
    BY <1>5
  <2>2. j \in 1..(n + 1) /\ (j > 1 => H(ps[j - 1]) >= k + 1) /\ (j <= n => H(ps[j]) < k + 1)
    BY <1>12
  <2>3. Left(N, k + 1) = Rest(ps, j)
    BY <1>11, <1>12
  <2>4. k \in PeakHeights(N) <=> Left(N, k) # Left(N, k + 1)
    BY <1>6
  <2>5. CASE j <= n /\ H(ps[j]) = k
    <3>1. j \in 1..n /\ (j + 1) - 1 = j /\ j + 1 \in 1..(n + 1)
      BY <1>1, <2>2, <2>5
    <3>2. At(j + 1, k)
      <4>1. j + 1 <= n => H(ps[j + 1]) < k
        <5> SUFFICES ASSUME j + 1 <= n PROVE H(ps[j + 1]) < k
          OBVIOUS
        <5>1. j \in 1..(n - 1)
          BY <1>1, <3>1
        <5> QED BY <1>4, <2>5, <5>1
      <4>2. k >= k
        OBVIOUS
      <4> QED BY <2>5, <3>1, <4>1, <4>2
    <3>3. Left(N, k) = Rest(ps, j + 1)
      BY <1>11, <3>2
    <3> DEFINE T == TreeSize(H(ps[j]))  R1 == Rest(ps, j + 1)  B == Before(ps, j)
    <3>4. /\ Rest(ps, j) = T + R1 /\ R1 \in Nat /\ T \in Nat \ {0} /\ B \in Nat
          /\ ps[j] + 1 = B + T /\ ps[j] \in Nat /\ Rest(ps, j) = N - B
      BY <1>2, <1>3, <3>1 DEF Row, Rest
    <3> HIDE DEF T, R1, B, N
    <3>5. Rest(ps, j) # R1 /\ N - R1 - 1 = ps[j]
      BY <1>1, <3>4
    <3>6. k \in PeakHeights(N) /\ N - Left(N, k) - 1 = ps[j]
      BY <2>3, <2>4, <3>3, <3>5 DEF R1
    <3>7. Yield(N, k) = <<ps[j]>>
      BY <3>6 DEF Yield
    <3>8. Suffix(ps, j + 1, Yielded(N, k))
      BY <1>12, <3>2
    <3>9. \A s : Suffix(ps, j + 1, s) => Suffix(ps, j, <<ps[j]>> \o s)
      BY <1>1, <3>1, SuffixGrows
    <3>10. Suffix(ps, j, <<ps[j]>> \o Yielded(N, k))
      BY <3>8, <3>9
    <3> QED BY <2>1, <3>7, <3>10
  <2>6. CASE ~(j <= n /\ H(ps[j]) = k)
    <3>1. At(j, k)
      <4>1. j > 1 => H(ps[j - 1]) >= k
        <5>1. j > 1 => H(ps[j - 1]) \in Nat
          BY <1>1, <1>2, <2>2
        <5> QED BY <2>2, <5>1
      <4>2. j <= n => H(ps[j]) < k
        <5>1. j <= n => H(ps[j]) \in Nat
          BY <1>1, <1>2, <2>2
        <5> QED BY <2>2, <2>6, <5>1
      <4> QED BY <2>2, <4>1, <4>2
    <3>2. Left(N, k) = Rest(ps, j)
      BY <1>11, <3>1
    <3>3. Yield(N, k) = <<>>
      BY <2>3, <2>4, <3>2 DEF Yield
    <3>4. Suffix(ps, j, Yielded(N, k))
      BY <1>12, <3>1
    <3>5. <<>> \o Yielded(N, k) = Yielded(N, k)
      BY <3>4 DEF Suffix
    <3> QED BY <2>1, <3>3, <3>4, <3>5
  <2> QED BY <2>5, <2>6
<1>13. \A k \in Nat : \A j : At(j, k) => Suffix(ps, j, Yielded(N, k))
  <2> DEFINE Q(k) == \A j : At(j, k) => Suffix(ps, j, Yielded(N, k))
             S == {k \in Nat : Q(k)}
  <2>1. 0 \in S
    <3> SUFFICES ASSUME NEW j, At(j, 0) PROVE Suffix(ps, j, Yielded(N, 0))
      OBVIOUS
    <3>1. j = n + 1
      <4> SUFFICES ASSUME j # n + 1 PROVE FALSE
        OBVIOUS
      <4>1. j \in 1..n /\ j <= n
        BY <1>1
      <4>2. H(ps[j]) \in Nat /\ H(ps[j]) < 0
        BY <1>2, <4>1
      <4> QED BY <4>2
    <3> QED BY <1>1, <1>5, <3>1, SuffixGrows
  <2>2. ASSUME NEW k \in Nat, k \in S PROVE k + 1 \in S
    <3>1. Q(k + 1)
      BY <1>12, <2>2
    <3> HIDE DEF Q
    <3> QED BY <1>7, <3>1
  <2>3. Nat \subseteq S
    <3> HIDE DEF S
    <3> QED BY <2>1, <2>2, SetInduction
  <2> HIDE DEF Q
  <2>4. \A k \in Nat : Q(k)
    BY <2>3
  <2> QED BY <2>4 DEF Q
<1>14. PeaksIter(N) = ps
  <2>1. N \in Nat /\ N >= N /\ N < Pow2[N]
    <3>1. N \in Nat /\ N >= N
      BY <1>1
    <3> QED BY <1>8, <3>1
  <2>2. At(1, N)
    <3>1. \A j \in 1..n : H(ps[j]) < N
      BY PeaksAreLow
    <3>2. 1 \in 1..(n + 1) /\ (1 <= n => 1 \in 1..n) /\ ~(1 > 1)
      BY <1>1
    <3> QED BY <3>1, <3>2
  <2>3. Suffix(ps, 1, Yielded(N, N))
    BY <1>1, <1>13, <2>2
  <2>4. Yielded(N, N) = PeaksIter(N)
    BY <1>5, <2>1
  <2> QED BY <1>1, <2>3, <2>4, SuffixGrows
<1>15. 2 * get_peak_map(N) = N + n
  <2>1. At(n + 1, 0)
    <3>1. n + 1 \in 1..(n + 1) /\ ~(n + 1 <= n) /\ (n + 1 > 1 => (n + 1) - 1 \in 1..n)
      BY <1>1
    <3>2. n + 1 > 1 => H(ps[(n + 1) - 1]) >= 0
      <4>1. n + 1 > 1 => H(ps[(n + 1) - 1]) \in Nat
        BY <1>2, <3>1
      <4> QED BY <4>1
    <3> QED BY <3>1, <3>2
  <2>2. Pow2[0 + 1] * Mapped(N, 0) = Before(ps, n + 1) + ((n + 1) - 1)
    BY <1>11, <2>1
  <2>3. Pow2[0 + 1] = 2 /\ (n + 1) - 1 = n
    BY <1>1, <1>7, Pow2Doubles
  <2> QED BY <1>5, <2>2, <2>3 DEF Nodes
<1> QED BY <1>14, <1>15

-----------------------------------------------------------------------------
(* Parents: every node has one, and in a finished range only the peaks have *)
(* theirs outside.                                                          *)

\* p is one of the peaks ps.
IsPeak(ps, p) == \E k \in 1..Len(ps) : ps[k] = p

\* p has a parent among the first n nodes, one level up.
Climbs(p, n) ==
  LET up == iparent(p, H(p))
  IN  p < up /\ up < n /\ H(up) = H(p) + 1

\* The first n nodes are a row of peaks, and the nodes that climb to one of them.
LEMMA PeakOrClimbs ==
  ASSUME NEW n \in Nat
  PROVE  \E ps : /\ Row(ps) /\ Nodes(ps) = n
                 /\ \A p \in 0..(n - 1) : IsPeak(ps, p) \/ Climbs(p, n)
<1> DEFINE Good(ps, m) == /\ Row(ps) /\ Nodes(ps) = m
                          /\ \A p \in 0..(m - 1) : IsPeak(ps, p) \/ Climbs(p, m)
           S == {m \in Nat : \E ps : Good(ps, m)}
<1>1. 0 \in S
  <2>1. Row(<<>>) /\ Nodes(<<>>) = 0
    BY DEF Row, Nodes, Before
  <2>2. Good(<<>>, 0)
    BY <2>1
  <2> QED BY <2>2
<1>2. ASSUME NEW m \in Nat, m \in S PROVE m + 1 \in S
  <2>1. PICK ps : Good(ps, m)
    BY <1>2
  <2>2. ASSUME NEW p, Climbs(p, m), p \in Nat PROVE Climbs(p, m + 1)
    <3> DEFINE up == iparent(p, H(p))
    <3>1. up \in Nat /\ up < m /\ p < up /\ H(up) = H(p) + 1
      BY <2>2, NodeHeight, SiblingBounds DEF Climbs, H
    <3> HIDE DEF up
    <3>2. up < m + 1
      BY <3>1
    <3> QED BY <3>1, <3>2 DEF Climbs, up
  <2>3. Len(ps) \in Nat /\ \A p \in 0..m : p = m \/ p \in 0..(m - 1)
    BY <2>1, RowTypes
  <2>4. CASE ~Due(ps)
    <3> DEFINE qs == Append(ps, m)
    <3>1. Row(qs) /\ Nodes(qs) = m + 1 /\ Len(qs) = Len(ps) + 1
      BY <2>1, <2>4, LeafAdded
    <3>2. qs[Len(ps) + 1] = m /\ \A k \in 1..Len(ps) : qs[k] = ps[k]
      BY <2>1 DEF Row
    <3>3. \A k \in 1..Len(ps) : k \in 1..(Len(ps) + 1)
      BY <2>3
    <3> HIDE DEF qs
    <3>4. ASSUME NEW p \in 0..(m - 1) PROVE IsPeak(qs, p) \/ Climbs(p, m + 1)
      BY <2>1, <2>2, <3>1, <3>2, <3>3 DEF IsPeak
    <3>5. Len(ps) + 1 \in 1..(Len(ps) + 1)
      BY <2>3
    <3>6. IsPeak(qs, m)
      BY <3>1, <3>2, <3>5 DEF IsPeak
    <3>7. Good(qs, m + 1)
      BY <2>3, <3>1, <3>4, <3>6
    <3> HIDE DEF Good
    <3> QED BY <3>7
  <2>5. CASE Due(ps)
    <3> DEFINE l == Len(ps)
               right == ps[l]
               left == ps[l - 1]
               qs == Append(SubSeq(ps, 1, l - 2), m)
    <3>1. /\ Row(qs) /\ Nodes(qs) = m + 1 /\ Len(qs) = l - 1
          /\ \A k \in 1..(l - 2) : qs[k] = ps[k]
          /\ qs[l - 1] = m
      BY <2>1, <2>5, ParentAdded
    <3>2. /\ l \in Nat /\ l > 1 /\ l \in 1..l /\ l - 1 \in 1..l /\ l - 1 \in 1..(l - 1)
          /\ H(left) = H(right)
      BY <2>3, <2>5 DEF Due
    <3>3. H(m) = H(right) + 1
      BY <2>1, <2>5, HeightAfterRow
    <3>4. /\ Relatives(left, H(left)).parent = m /\ Relatives(right, H(right)).parent = m
          /\ left \in 0..(m - 1) /\ right \in 0..(m - 1)
      <4>1. /\ Relatives(left, H(left)) = [sibling |-> right, parent |-> m]
            /\ Relatives(right, H(right)) = [sibling |-> left, parent |-> m]
            /\ left \in 0..(m - 1) /\ right \in 0..(m - 1)
        BY <2>1, <2>5, TwinsAreRelatives
      <4> HIDE DEF left, right
      <4> QED BY <4>1
    <3>5. ASSUME NEW p \in Nat PROVE Relatives(p, H(p)).parent = iparent(p, H(p))
      <4>1. H(p) \in Nat
        BY NodeHeight DEF H
      <4> QED BY <4>1 DEF Relatives, iparent, is_right, H, parent_offset
    <3> HIDE DEF l, left, right, qs
    <3>6. Climbs(left, m + 1) /\ Climbs(right, m + 1)
      <4>1. iparent(left, H(left)) = m /\ iparent(right, H(right)) = m
        BY <3>4, <3>5
      <4>2. left < m /\ right < m /\ m < m + 1
        BY <3>4
      <4> QED BY <3>2, <3>3, <4>1, <4>2 DEF Climbs
    <3>7. IsPeak(qs, m)
      BY <3>1, <3>2 DEF IsPeak
    <3>8. ASSUME NEW p \in 0..(m - 1) PROVE IsPeak(qs, p) \/ Climbs(p, m + 1)
      <4>1. CASE Climbs(p, m)
        BY <2>2, <4>1
      <4>2. ASSUME NEW k \in 1..l, ps[k] = p PROVE IsPeak(qs, p) \/ Climbs(p, m + 1)
        <5>1. CASE k = l \/ k = l - 1
          BY <3>6, <4>2, <5>1 DEF left, right
        <5>2. CASE k # l /\ k # l - 1
          <6>1. k \in 1..(l - 2) /\ k \in 1..(l - 1)
            BY <3>2, <5>2
          <6> QED BY <3>1, <4>2, <6>1 DEF IsPeak
        <5> QED BY <5>1, <5>2
      <4> QED BY <2>1, <4>1, <4>2 DEF IsPeak, l
    <3>9. Good(qs, m + 1)
      BY <2>3, <3>1, <3>7, <3>8
    <3> HIDE DEF Good
    <3> QED BY <3>9
  <2> QED BY <2>4, <2>5
<1>3. n \in S
  <2> HIDE DEF S
  <2>1. Nat \subseteq S
    BY <1>1, <1>2, SetInduction
  <2> QED BY <2>1
<1> QED BY <1>3

\* Every node has a parent one level up, and its sibling comes before that.  The
\* left one of the two is as far before the parent as the parent's tree is high.
LEMMA ParentIsHigher ==
  ASSUME NEW p \in Nat
  PROVE  LET h == H(p)
             up == iparent(p, h)
             sibling == isibling(p, h)
         IN  /\ h \in Nat /\ up \in Nat /\ sibling \in Nat
             /\ H(up) = h + 1 /\ p < up /\ sibling < up
             /\ Pow2[h + 1] \in Nat
             /\ IF is_right(p, h)
                THEN up = p + 1 /\ sibling = up - Pow2[h + 1]
                ELSE p = up - Pow2[h + 1] /\ sibling = up - 1
<1> DEFINE h == H(p)
           n == p + 2 + TreeSize(h)
           pow == Pow2[h]
<1>1. h \in Nat
  BY NodeHeight DEF H
<1>2. /\ TreeSize(h) \in Nat /\ pow \in Nat \ {0} /\ Pow2[h + 1] = 2 * pow
  BY <1>1, TreeSizeGrows, TreeSizes
<1>3. iparent(p, h) \in Nat /\ isibling(p, h) \in Nat
  BY <1>1, SiblingBounds
<1>4. n \in Nat /\ p \in 0..(n - 1)
  <2> HIDE DEF h
  <2> QED BY <1>2
<1> HIDE DEF n
<1>5. PICK ps : Row(ps) /\ Nodes(ps) = n /\ (IsPeak(ps, p) \/ Climbs(p, n))
  BY <1>4, PeakOrClimbs
<1>6. ~IsPeak(ps, p)
  <2> SUFFICES ASSUME NEW k \in 1..Len(ps), ps[k] = p PROVE FALSE
    BY DEF IsPeak
  <2>1. Rest(ps, k + 1) <= TreeSize(h) /\ Rest(ps, k + 1) \in Nat
    BY <1>5, RestBounds
  <2>2. Before(ps, k + 1) = p + 1
    <3>1. k + 1 # 1 /\ (k + 1) - 1 = k
      BY <1>5, RowTypes
    <3> QED BY <3>1 DEF Before
  <2>3. Rest(ps, k + 1) = n - (p + 1)
    BY <1>5, <2>2 DEF Rest
  <2> HIDE DEF h
  <2> QED BY <1>2, <2>1, <2>3 DEF n
<1>7. p < iparent(p, h) /\ H(iparent(p, h)) = h + 1
  BY <1>5, <1>6 DEF Climbs
<1>8. /\ isibling(p, h) = IF is_right(p, h) THEN p - 2 * pow + 1 ELSE p + 2 * pow - 1
      /\ iparent(p, h) = IF is_right(p, h) THEN p + 1 ELSE p + 2 * pow
  BY DEF isibling, iparent
<1> HIDE DEF h, pow
<1>9. CASE is_right(p, h)
  <2>1. isibling(p, h) = p - 2 * pow + 1 /\ iparent(p, h) = p + 1
    BY <1>8, <1>9
  <2>2. isibling(p, h) < iparent(p, h) /\ isibling(p, h) = iparent(p, h) - 2 * pow
    BY <1>2, <2>1
  <2>3. Pow2[h + 1] \in Nat
    BY <1>2
  <2> QED BY <1>1, <1>2, <1>3, <1>7, <1>9, <2>1, <2>2, <2>3 DEF h
<1>10. CASE ~is_right(p, h)
  <2>1. isibling(p, h) = p + 2 * pow - 1 /\ iparent(p, h) = p + 2 * pow
    BY <1>8, <1>10
  <2>2. /\ isibling(p, h) < iparent(p, h) /\ isibling(p, h) = iparent(p, h) - 1
        /\ p = iparent(p, h) - 2 * pow
    BY <1>2, <2>1
  <2>3. Pow2[h + 1] \in Nat
    BY <1>2
  <2> QED BY <1>1, <1>2, <1>3, <1>7, <1>10, <2>2, <2>3 DEF h
<1> QED BY <1>9, <1>10

-----------------------------------------------------------------------------
(* From a node up to its peak.                                             *)

\* The nodes above p, one for each level.
Ancestors(p) ==
  LET up[k \in Nat] == IF k = 0 THEN p ELSE iparent(up[k - 1], H(p) + (k - 1))
  IN  up

Ancestor(p, k) == Ancestors(p)[k]

SiblingAt(p, k) == isibling(Ancestor(p, k), H(p) + k)

\* The equations of Ancestors hold: there is such a function.
LEMMA AncestorsDefined ==
  ASSUME NEW p \in Nat
  PROVE  \A k \in Nat : /\ Ancestor(p, k) \in Nat
                        /\ Ancestor(p, k) = IF k = 0 THEN p
                                            ELSE iparent(Ancestor(p, k - 1), H(p) + (k - 1))
<1> DEFINE h == H(p)
           stop == {0}
           next == [k \in Nat |-> IF k = 0 THEN 0 ELSE k - 1]
           exit == [k \in Nat |-> p]
           join == [call \in Nat \X Nat |->
                      IF call[1] = 0 THEN 0 ELSE iparent(call[2], h + (call[1] - 1))]
           rank == [k \in Nat |-> k]
<1>1. h \in Nat
  BY NodeHeight DEF H
<1> HIDE DEF h
<1>2. IsLoop(Nat, Nat, stop, next, exit, join, rank)
  <2>1. next \in [Nat -> Nat] /\ exit \in [Nat -> Nat] /\ rank \in [Nat -> Nat]
    OBVIOUS
  <2>2. join \in [Nat \X Nat -> Nat]
    <3>1. ASSUME NEW k \in Nat, NEW u \in Nat, k # 0 PROVE iparent(u, h + (k - 1)) \in Nat
      <4>1. h + (k - 1) \in Nat
        BY <1>1, <3>1
      <4> QED BY <4>1, SiblingBounds
    <3> QED BY <3>1
  <2>3. \A k \in Nat \ stop : rank[next[k]] < rank[k]
    OBVIOUS
  <2> HIDE DEF stop, next, exit, join, rank
  <2> QED BY <2>1, <2>2, <2>3 DEF IsLoop
<1>3. PICK f \in [Nat -> Nat] : Loop(f, Nat, stop, next, exit, join)
  <2> HIDE DEF stop, next, exit, join, rank
  <2> QED BY <1>2, LoopHasResult
<1>4. \A k \in Nat : f[k] = IF k = 0 THEN p ELSE iparent(f[k - 1], h + (k - 1))
  <2> TAKE k \in Nat
  <2>1. f[k] = IF k \in stop THEN exit[k] ELSE join[<<k, f[next[k]]>>]
    <3> HIDE DEF stop, next, exit, join, rank
    <3> QED BY <1>3 DEF Loop
  <2>2. CASE k = 0
    BY <2>1, <2>2
  <2>3. CASE k # 0
    <3>1. <<k, f[next[k]]>> \in Nat \X Nat
      BY <2>3
    <3>2. next[k] = k - 1
      BY <2>3
    <3>3. join[<<k, f[next[k]]>>] = iparent(f[k - 1], h + (k - 1))
      <4> HIDE DEF next
      <4> QED BY <2>3, <3>1, <3>2
    <3>4. k \notin stop
      BY <2>3
    <3> HIDE DEF join, next, stop
    <3> QED BY <2>1, <2>3, <3>3, <3>4
  <2> QED BY <2>2, <2>3
<1>5. f = [k \in Nat |-> IF k = 0 THEN p ELSE iparent(f[k - 1], H(p) + (k - 1))]
  BY <1>4 DEF h
<1>6. Ancestors(p) = [k \in Nat |-> IF k = 0 THEN p
                                    ELSE iparent(Ancestors(p)[k - 1], H(p) + (k - 1))]
  BY <1>5 DEF Ancestors
<1>7. \A k \in Nat : Ancestor(p, k) = IF k = 0 THEN p
                                      ELSE iparent(Ancestor(p, k - 1), H(p) + (k - 1))
  BY <1>6 DEF Ancestor
<1> DEFINE S == {k \in Nat : Ancestor(p, k) \in Nat}
<1>8. 0 \in S
  BY <1>7
<1>9. ASSUME NEW k \in Nat, k \in S PROVE k + 1 \in S
  <2>1. k + 1 # 0 /\ k + 1 \in Nat /\ (k + 1) - 1 = k
    OBVIOUS
  <2>2. Ancestor(p, k + 1) = iparent(Ancestor(p, k), H(p) + k)
    BY <1>7, <2>1
  <2>3. H(p) + k \in Nat
    BY <1>1 DEF h
  <2>4. Ancestor(p, k) \in Nat
    BY <1>9
  <2>5. iparent(Ancestor(p, k), H(p) + k) \in Nat
    BY <2>3, <2>4, SiblingBounds
  <2> QED BY <2>1, <2>2, <2>5
<1>10. Nat \subseteq S
  <2> HIDE DEF S
  <2> QED BY <1>8, <1>9, SetInduction
<1> QED BY <1>7, <1>10

\* Each is one level above the one before, and comes after it and its sibling.
LEMMA AncestorsClimb ==
  ASSUME NEW p \in Nat, NEW k \in Nat
  PROVE  /\ Ancestor(p, 0) = p /\ H(p) \in Nat
         /\ Ancestor(p, k) \in Nat /\ H(Ancestor(p, k)) = H(p) + k
         /\ Ancestor(p, k + 1) \in Nat /\ H(Ancestor(p, k + 1)) = H(p) + k + 1
         /\ Ancestor(p, k + 1) = iparent(Ancestor(p, k), H(p) + k)
         /\ Ancestor(p, k) < Ancestor(p, k + 1)
         /\ SiblingAt(p, k) \in Nat /\ SiblingAt(p, k) < Ancestor(p, k + 1)
         /\ k <= SiblingAt(p, k)
<1> DEFINE A(j) == Ancestor(p, j)
           S == {j \in Nat : H(A(j)) = H(p) + j}
<1>1. H(p) \in Nat
  BY NodeHeight DEF H
<1>2. A(0) = p /\ \A j \in Nat : A(j) \in Nat /\ A(j + 1) = iparent(A(j), H(p) + j)
  <2>1. A(0) = p
    BY AncestorsDefined
  <2>2. ASSUME NEW j \in Nat PROVE A(j) \in Nat /\ A(j + 1) = iparent(A(j), H(p) + j)
    <3>1. j + 1 # 0 /\ j + 1 \in Nat /\ (j + 1) - 1 = j
      OBVIOUS
    <3> QED BY <3>1, AncestorsDefined
  <2> QED BY <2>1, <2>2
<1> HIDE DEF A
<1>3. 0 \in S
  BY <1>1, <1>2
<1>4. ASSUME NEW j \in Nat, j \in S PROVE j + 1 \in S
  <2>1. H(A(j)) = H(p) + j /\ A(j) \in Nat
    BY <1>2, <1>4
  <2>2. H(iparent(A(j), H(A(j)))) = H(A(j)) + 1
    BY <2>1, ParentIsHigher
  <2>3. H(A(j + 1)) = H(p) + (j + 1)
    BY <1>1, <1>2, <2>1, <2>2
  <2> QED BY <2>3
<1>5. k \in S /\ k + 1 \in S
  <2>1. Nat \subseteq S
    <3> HIDE DEF S
    <3> QED BY <1>3, <1>4, SetInduction
  <2> QED BY <2>1
<1>6. A(k) \in Nat /\ H(A(k)) = H(p) + k /\ A(k + 1) = iparent(A(k), H(p) + k)
      /\ A(k + 1) \in Nat /\ H(A(k + 1)) = H(p) + k + 1
  <2>1. k + 1 \in Nat
    OBVIOUS
  <2> QED BY <1>1, <1>2, <1>5, <2>1
<1>7. /\ A(k) < A(k + 1) /\ isibling(A(k), H(p) + k) \in Nat
      /\ isibling(A(k), H(p) + k) < A(k + 1)
  BY <1>6, ParentIsHigher
<1>8. k <= isibling(A(k), H(p) + k)
  <2>1. H(p) + k \in Nat
    BY <1>1
  <2>2. H(p) + k <= isibling(A(k), H(p) + k)
    BY <1>6, <2>1, SiblingBounds
  <2> QED BY <1>1, <1>7, <2>2
<1> QED BY <1>1, <1>2, <1>6, <1>7, <1>8 DEF A, SiblingAt

\* The nth ancestor of p is the first one whose sibling comes after position c.
ClimbEnds(p, n, c) ==
  /\ n \in Nat
  /\ \A k \in 0..(n - 1) : SiblingAt(p, k) <= c
  /\ SiblingAt(p, n) > c

\* There is such an ancestor.
LEMMA ClimbHasEnd ==
  ASSUME NEW p \in Nat, NEW c \in Nat
  PROVE  \E n \in Nat : ClimbEnds(p, n, c)
<1> DEFINE S == {k \in Nat : SiblingAt(p, k) > c}
<1>1. \A k \in Nat : SiblingAt(p, k) \in Nat /\ k <= SiblingAt(p, k)
  BY AncestorsClimb
<1>2. c + 1 \in S
  BY <1>1
<1>3. PICK n \in S : \A k \in S : n <= k
  <2>1. S \in SUBSET Nat /\ S # {}
    BY <1>2
  <2> HIDE DEF S
  <2> QED BY <2>1, LeastNat
<1>4. \A k \in 0..(n - 1) : SiblingAt(p, k) <= c
  <2> TAKE k \in 0..(n - 1)
  <2>1. k \in Nat /\ k \notin S
    BY <1>3
  <2> QED BY <1>1, <2>1
<1> QED BY <1>3, <1>4 DEF ClimbEnds

\* inclusion_proof_path lists the siblings of p and of its ancestors up to that one.
LEMMA PathListsSiblings ==
  ASSUME NEW p \in Nat, NEW c \in Nat, NEW n, ClimbEnds(p, n, c)
  PROVE  inclusion_proof_path(p, c) = [k \in 1..n |-> SiblingAt(p, k - 1)]
<1> DEFINE From(k) == [j \in 1..(n - k) |-> SiblingAt(p, k + j - 1)]
           At(k) == [i |-> Ancestor(p, k), g |-> H(p) + k]
           Same(k) == Paths(c)[At(k)] = From(k)
           S == {d \in Nat : d <= n => Same(n - d)}
<1>1. n \in Nat /\ H(p) \in Nat /\ \A k \in Nat : SiblingAt(p, k) \in Nat
  BY AncestorsClimb DEF ClimbEnds
<1>2. \A k \in Nat :
        Paths(c)[At(k)] = IF SiblingAt(p, k) > c THEN <<>>
                          ELSE <<SiblingAt(p, k)>> \o Paths(c)[At(k + 1)]
  <2> TAKE k \in Nat
  <2>1. Ancestor(p, k) \in Nat /\ H(p) + k \in Nat
        /\ Ancestor(p, k + 1) = iparent(Ancestor(p, k), H(p) + k)
    <3>1. H(p) + k \in Nat
      BY <1>1
    <3>2. Ancestor(p, k) \in Nat /\ Ancestor(p, k + 1) = iparent(Ancestor(p, k), H(p) + k)
      BY AncestorsClimb
    <3> QED BY <3>1, <3>2
  <2>2. At(k) \in [i : Nat, g : Nat] /\ At(k).i = Ancestor(p, k) /\ At(k).g = H(p) + k
    BY <2>1
  <2>3. At(k + 1) = [i |-> iparent(At(k).i, At(k).g), g |-> At(k).g + 1]
    BY <1>1, <2>1, <2>2
  <2> HIDE DEF At
  <2>4. Paths(c)[At(k)] =
          IF isibling(At(k).i, At(k).g) > c THEN <<>>
          ELSE <<isibling(At(k).i, At(k).g)>>
                 \o Paths(c)[[i |-> iparent(At(k).i, At(k).g), g |-> At(k).g + 1]]
    BY <2>2, PathsDefined
  <2> QED BY <2>2, <2>3, <2>4 DEF SiblingAt
<1> HIDE DEF At
<1>3. 0 \in S
  <2>1. Paths(c)[At(n)] = <<>>
    BY <1>1, <1>2 DEF ClimbEnds
  <2>2. From(n) = <<>>
    BY <1>1
  <2>3. Same(n)
    <3> HIDE DEF From
    <3> QED BY <2>1, <2>2
  <2>4. n - 0 = n
    BY <1>1
  <2> HIDE DEF Same
  <2> QED BY <2>3, <2>4
<1>4. ASSUME NEW d \in Nat, d \in S, d + 1 <= n PROVE Same(n - (d + 1))
  <2> DEFINE k == n - (d + 1)
  <2>1. k \in Nat /\ k \in 0..(n - 1) /\ k + 1 = n - d /\ d <= n
    BY <1>1, <1>4
  <2>2. Same(k + 1)
    BY <1>4, <2>1
  <2> HIDE DEF k
  <2>3. Paths(c)[At(k)] = <<SiblingAt(p, k)>> \o From(k + 1)
    <3>1. ~(SiblingAt(p, k) > c)
      BY <1>1, <2>1 DEF ClimbEnds
    <3> HIDE DEF From
    <3> QED BY <1>2, <2>1, <2>2, <3>1
  <2>4. <<SiblingAt(p, k)>> \o From(k + 1) = From(k)
    <3> DEFINE s == SiblingAt(p, k)
               t == From(k + 1)
               m == n - (k + 1)
    <3>1. t \in Seq(Nat) /\ Len(t) = m /\ m \in Nat
      <4>1. m \in Nat
        BY <1>1, <2>1
      <4>2. \A j \in 1..m : SiblingAt(p, (k + 1) + j - 1) \in Nat
        <5> TAKE j \in 1..m
        <5>1. (k + 1) + j - 1 \in Nat
          BY <2>1, <4>1
        <5> QED BY <1>1, <5>1
      <4>3. t = [j \in 1..m |-> SiblingAt(p, (k + 1) + j - 1)]
        OBVIOUS
      <4> HIDE DEF t, m
      <4> QED BY <4>1, <4>2, <4>3
    <3>2. \A j \in 1..m : t[j] = SiblingAt(p, (k + 1) + j - 1)
      OBVIOUS
    <3>3. n - k = m + 1
      BY <1>1, <2>1
    <3>4. s \in Nat
      BY <1>1, <2>1
    <3> HIDE DEF t, m
    <3>5. <<s>> \o t = [j \in 1..(m + 1) |-> IF j = 1 THEN s ELSE t[j - 1]]
      <4> HIDE DEF s
      <4> QED BY <3>1, <3>4
    <3>6. \A j \in 1..(m + 1) :
            (IF j = 1 THEN s ELSE t[j - 1]) = SiblingAt(p, k + j - 1)
      <4> TAKE j \in 1..(m + 1)
      <4>1. CASE j = 1
        <5>1. k + j - 1 = k
          BY <2>1, <4>1
        <5> QED BY <4>1, <5>1
      <4>2. CASE j # 1
        <5>1. j - 1 \in 1..m /\ (k + 1) + (j - 1) - 1 = k + j - 1
          BY <2>1, <3>1, <4>2
        <5> QED BY <3>2, <4>2, <5>1
      <4> QED BY <4>1, <4>2
    <3>7. From(k) = [j \in 1..(m + 1) |-> SiblingAt(p, k + j - 1)]
      BY <3>3
    <3> HIDE DEF From, s
    <3>8. <<s>> \o t = From(k)
      BY <3>5, <3>6, <3>7
    <3> QED BY <3>8 DEF s, t
  <2>5. Same(k)
    BY <2>3, <2>4
  <2> QED BY <2>5 DEF k
<1>5. Same(0)
  <2>1. \A d \in Nat : d \in S => d + 1 \in S
    BY <1>4
  <2>2. Nat \subseteq S
    <3> HIDE DEF S
    <3> QED BY <1>3, <2>1, SetInduction
  <2>3. n \in Nat /\ n <= n /\ n - n = 0
    BY <1>1
  <2> HIDE DEF Same
  <2> QED BY <2>2, <2>3
<1>6. inclusion_proof_path(p, c) = Paths(c)[At(0)]
  <2>1. At(0) = [i |-> p, g |-> index_height_mmriver(p)]
    <3>1. Ancestor(p, 0) = p /\ H(p) + 0 = H(p)
      BY <1>1, AncestorsClimb
    <3> QED BY <3>1 DEF At, H
  <2> QED BY <2>1, PathsDefined
<1>7. From(0) = [k \in 1..n |-> SiblingAt(p, k - 1)]
  <2>1. n - 0 = n /\ \A k \in 1..n : 0 + k - 1 = k - 1
    BY <1>1
  <2> QED BY <2>1
<1> HIDE DEF From
<1> QED BY <1>5, <1>6, <1>7

\* In a finished range every node climbs to a peak, and is never outside.
LEMMA NodeClimbs ==
  ASSUME NEW n \in Nat, H(n) = 0, NEW p \in 0..(n - 1), NEW l, ClimbEnds(p, l, n - 1)
  PROVE  /\ \A k \in 0..l : Ancestor(p, k) \in 0..(n - 1)
         /\ \E j \in DOMAIN PeaksMMRIVERIter(n - 1) :
              PeaksMMRIVERIter(n - 1)[j] = Ancestor(p, l)
<1> DEFINE A(k) == Ancestor(p, k)
           S == {k \in Nat : k <= l => A(k) \in 0..(n - 1)}
<1>1. p \in Nat /\ l \in Nat
  BY DEF ClimbEnds
<1>2. \A k \in Nat : /\ A(0) = p /\ A(k) \in Nat /\ A(k + 1) \in Nat
                     /\ H(p) \in Nat /\ H(A(k)) = H(p) + k
                     /\ H(A(k + 1)) = H(p) + k + 1
                     /\ A(k + 1) = iparent(A(k), H(A(k)))
                     /\ SiblingAt(p, k) = isibling(A(k), H(A(k)))
  <2> TAKE k \in Nat
  <2>1. /\ A(0) = p /\ A(k) \in Nat /\ A(k + 1) \in Nat
        /\ H(p) \in Nat /\ H(A(k)) = H(p) + k /\ H(A(k + 1)) = H(p) + k + 1
        /\ A(k + 1) = iparent(A(k), H(p) + k)
    BY <1>1, AncestorsClimb
  <2>2. SiblingAt(p, k) = isibling(A(k), H(p) + k)
    BY DEF SiblingAt
  <2> HIDE DEF A
  <2> QED BY <2>1, <2>2
<1> HIDE DEF A
<1>3. 0 \in S
  BY <1>2
<1>4. ASSUME NEW k \in Nat, k \in S PROVE k + 1 \in S
  <2> SUFFICES ASSUME k + 1 <= l PROVE A(k + 1) \in 0..(n - 1)
    OBVIOUS
  <2>1. A(k) \in 0..(n - 1) /\ k \in 0..(l - 1)
    BY <1>1, <1>4
  <2>2. SiblingAt(p, k) <= n - 1
    BY <2>1 DEF ClimbEnds
  <2>3. A(k + 1) = A(k) + 1 \/ SiblingAt(p, k) = A(k + 1) - 1
    BY <1>2, ParentIsHigher
  <2>4. A(k + 1) # n
    BY <1>2
  <2>5. A(k) \in Nat /\ A(k + 1) \in Nat
    BY <1>2
  <2> QED BY <2>1, <2>2, <2>3, <2>4, <2>5
<1>5. Nat \subseteq S
  <2> HIDE DEF S
  <2> QED BY <1>3, <1>4, SetInduction
<1>6. \A k \in 0..l : A(k) \in 0..(n - 1)
  BY <1>1, <1>5
<1>7. PICK ps : /\ Row(ps) /\ Nodes(ps) = n
                /\ \A q \in 0..(n - 1) : IsPeak(ps, q) \/ Climbs(q, n)
  BY PeakOrClimbs
<1>8. A(l) \in 0..(n - 1)
  BY <1>1, <1>6
<1>9. ~Climbs(A(l), n)
  <2>1. SiblingAt(p, l) > n - 1 /\ SiblingAt(p, l) < A(l + 1) /\ SiblingAt(p, l) \in Nat
    BY <1>1, AncestorsClimb DEF ClimbEnds, A
  <2>2. ~(A(l + 1) < n)
    BY <1>1, <1>2, <2>1
  <2> QED BY <1>1, <1>2, <2>2 DEF Climbs
<1>10. PICK j \in 1..Len(ps) : ps[j] = A(l)
  BY <1>7, <1>8, <1>9 DEF IsPeak
<1>11. PeaksMMRIVERIter(n - 1) = ps /\ DOMAIN ps = 1..Len(ps)
  <2>1. Len(ps) \in Nat /\ Len(ps) > 0
    BY <1>7, <1>10, RowTypes
  <2> QED BY <1>7, <2>1, RiverPeaksOfRow, RowTypes
<1> QED BY <1>6, <1>10, <1>11 DEF A

\* The peaks of a finished range are a row, and those of no nodes are none.
LEMMA PeaksAreRow ==
  ASSUME NEW n \in Nat \ {0}
  PROVE  LET ps == PeaksMMRIVERIter(n - 1)
         IN  /\ Row(ps) /\ Nodes(ps) = n /\ Len(ps) \in Nat \ {0} /\ DOMAIN ps = 1..Len(ps)
             /\ H(n) = 0 <=> ~Due(ps)
             /\ \A k \in 1..Len(ps) : ps[k] \in 0..(n - 1)
<1>1. PICK ps : Row(ps) /\ Nodes(ps) = n
  BY PeakOrClimbs
<1>2. Len(ps) \in Nat /\ DOMAIN ps = 1..Len(ps)
  BY <1>1, RowTypes
<1>3. Len(ps) > 0
  <2> SUFFICES ASSUME Len(ps) = 0 PROVE FALSE
    BY <1>2
  <2>1. Nodes(ps) = 0
    BY DEF Nodes, Before
  <2> QED BY <1>1, <2>1
<1>4. PeaksMMRIVERIter(n - 1) = ps
  BY <1>1, <1>3, RiverPeaksOfRow
<1>5. H(n) = 0 <=> ~Due(ps)
  <2>1. Due(ps) => H(ps[Len(ps)]) \in Nat
    <3>1. Len(ps) \in 1..Len(ps)
      BY <1>2, <1>3
    <3> QED BY <1>1, <3>1, RowTypes
  <2> QED BY <1>1, <2>1, HeightAfterRow
<1>6. \A k \in 1..Len(ps) : ps[k] \in 0..(n - 1)
  BY <1>1, PeaksInside
<1> QED BY <1>1, <1>2, <1>3, <1>4, <1>5, <1>6

\* A node below a peak climbs to it.
LEMMA ClimbToPeak ==
  ASSUME NEW n \in Nat \ {0}, H(n) = 0, NEW p \in Nat, NEW l \in Nat,
         NEW j \in DOMAIN PeaksMMRIVERIter(n - 1),
         PeaksMMRIVERIter(n - 1)[j] = Ancestor(p, l)
  PROVE  /\ ClimbEnds(p, l, n - 1)
         /\ \A k \in 0..l : Ancestor(p, k) \in 0..(n - 1)
<1> DEFINE A(k) == Ancestor(p, k)
           ps == PeaksMMRIVERIter(n - 1)
           S == {d \in Nat : d <= l => A(l - d) <= n - 1}
<1>1. \A k \in Nat : /\ A(k) \in Nat /\ A(k + 1) \in Nat /\ A(k) < A(k + 1)
                     /\ SiblingAt(p, k) \in Nat /\ SiblingAt(p, k) < A(k + 1)
                     /\ SiblingAt(p, k) = isibling(A(k), H(A(k)))
  BY AncestorsClimb DEF SiblingAt
<1>2. /\ Row(ps) /\ Nodes(ps) = n /\ ~Due(ps) /\ j \in 1..Len(ps)
      /\ ps[j] \in 0..(n - 1) /\ ps[j] = A(l)
  BY PeaksAreRow
<1> HIDE DEF A, ps
<1>3. A(l) \in 0..(n - 1) /\ SiblingAt(p, l) > n - 1
  <2>1. isibling(ps[j], H(ps[j])) > Nodes(ps) - 1
    BY <1>2, PeaksHaveNoSibling
  <2> QED BY <1>1, <1>2, <2>1
<1>4. 0 \in S
  BY <1>3
<1>5. ASSUME NEW d \in Nat, d \in S PROVE d + 1 \in S
  <2> SUFFICES ASSUME d + 1 <= l PROVE A(l - (d + 1)) <= n - 1
    OBVIOUS
  <2> DEFINE k == l - (d + 1)
  <2>1. k \in Nat /\ k + 1 = l - d /\ d <= l
    OBVIOUS
  <2>2. A(k + 1) <= n - 1
    BY <1>5, <2>1
  <2> HIDE DEF k
  <2>3. A(k) \in Nat /\ A(k) < A(k + 1) /\ A(k + 1) \in Nat
    BY <1>1, <2>1
  <2>4. A(k) <= n - 1
    BY <2>2, <2>3
  <2> QED BY <2>4 DEF k
<1>6. \A k \in 0..l : A(k) \in 0..(n - 1)
  <2> TAKE k \in 0..l
  <2>1. Nat \subseteq S
    <3> HIDE DEF S
    <3> QED BY <1>4, <1>5, SetInduction
  <2>2. l - k \in Nat /\ l - k <= l /\ l - (l - k) = k
    OBVIOUS
  <2>3. A(k) <= n - 1
    BY <2>1, <2>2
  <2> QED BY <1>1, <2>3
<1>7. \A k \in 0..(l - 1) : SiblingAt(p, k) <= n - 1
  <2> TAKE k \in 0..(l - 1)
  <2>1. A(k + 1) \in 0..(n - 1) /\ k \in Nat
    BY <1>6
  <2>2. SiblingAt(p, k) \in Nat /\ SiblingAt(p, k) < A(k + 1)
    BY <1>1, <2>1
  <2> QED BY <2>1, <2>2
<1> QED BY <1>3, <1>6, <1>7 DEF ClimbEnds, A

=============================================================================
