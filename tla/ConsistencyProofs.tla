-------------------------- MODULE ConsistencyProofs --------------------------
(***************************************************************************)
(* Theorems about the consistency proofs of MMRIVER: in every state of     *)
(* RiverSpec, for every Data and every MaxSize, those that are generated   *)
(* are accepted, and bind the sizes they are between.                      *)
(***************************************************************************)
EXTENDS RiverProofs

-----------------------------------------------------------------------------
(* From an older row of mountains to a newer one.                          *)

\* The first node of the tree below p.
First(p) == p + 1 - TreeSize(H(p))

\* The tree below a node is inside those of its ancestors.
LEMMA TreeInAncestors ==
  ASSUME NEW p \in Nat
  PROVE  \A k \in Nat : /\ First(Ancestor(p, k)) <= First(p) /\ p <= Ancestor(p, k)
                        /\ First(p) <= p /\ First(p) \in Int
<1> DEFINE S == {k \in Nat : First(Ancestor(p, k)) <= First(p) /\ p <= Ancestor(p, k)}
<1>1. H(p) \in Nat /\ \A h \in Nat : TreeSize(h) \in Nat \ {0}
  BY AncestorsClimb, TreeSizeGrows
<1>2. First(p) \in Int /\ First(p) <= p
  <2> DEFINE t == TreeSize(H(p))
  <2>1. t \in Nat \ {0} /\ First(p) = p + 1 - t
    BY <1>1 DEF First
  <2> HIDE DEF t
  <2> QED BY <2>1
<1>3. 0 \in S
  <2>1. Ancestor(p, 0) = p
    BY AncestorsClimb
  <2> QED BY <1>2, <2>1
<1>4. ASSUME NEW k \in Nat, k \in S PROVE k + 1 \in S
  <2> DEFINE q == Ancestor(p, k)
             up == Ancestor(p, k + 1)
             h == H(p) + k
             t == TreeSize(h)
             s == TreeSize(h + 1)
             b == Pow2[h + 1]
  <2>1. q \in Nat /\ up \in Nat /\ h \in Nat /\ H(q) = h /\ H(up) = h + 1 /\ up = iparent(q, h)
    <3>1. /\ Ancestor(p, k) \in Nat /\ Ancestor(p, k + 1) \in Nat
          /\ H(Ancestor(p, k)) = H(p) + k /\ H(Ancestor(p, k + 1)) = H(p) + k + 1
          /\ Ancestor(p, k + 1) = iparent(Ancestor(p, k), H(p) + k)
      BY AncestorsClimb
    <3>2. h \in Nat
      BY <1>1
    <3> QED BY <3>1, <3>2
  <2>2. b \in Nat /\ t = b - 1 /\ s = 2 * b - 1 /\ b >= 1
    <3>1. Pow2[h + 1] \in Nat \ {0} /\ Pow2[(h + 1) + 1] = 2 * Pow2[h + 1]
      BY <2>1, Pow2Doubles
    <3> HIDE DEF h
    <3> QED BY <3>1 DEF TreeSize
  <2>3. up = q + 1 \/ q = up - b
    <3> HIDE DEF q, h
    <3> QED BY <2>1, ParentIsHigher
  <2>4. First(up) = up + 1 - s /\ First(q) = q + 1 - t
    BY <2>1 DEF First
  <2>5. First(q) <= First(p) /\ p <= q
    BY <1>4
  <2> HIDE DEF q, up, h, t, s, b
  <2>6. First(up) <= First(q) /\ q <= up
    BY <2>1, <2>2, <2>3, <2>4
  <2>7. First(up) <= First(p) /\ p <= up
    <3>1. First(up) \in Int /\ First(q) \in Int
      BY <2>1, <2>2, <2>4
    <3> HIDE DEF First
    <3> QED BY <1>2, <2>1, <2>5, <2>6, <3>1
  <2> QED BY <2>7 DEF up
<1>5. Nat \subseteq S
  <2> HIDE DEF S
  <2> QED BY <1>3, <1>4, SetInduction
<1> QED BY <1>2, <1>5

\* The mountains of a row come one after the other.
LEMMA MountainsInOrder ==
  ASSUME NEW ps, Row(ps)
  PROVE  /\ \A k \in 1..Len(ps) : First(ps[k]) = Before(ps, k) /\ Before(ps, k) <= ps[k]
         /\ \A j, k \in 1..Len(ps) : j < k => ps[j] < Before(ps, k)
<1> DEFINE n == Len(ps)
<1>1. /\ n \in Nat
      /\ \A k \in 1..n : /\ ps[k] \in Nat /\ Before(ps, k) \in Nat
                         /\ TreeSize(H(ps[k])) \in Nat \ {0}
                         /\ ps[k] + 1 = Before(ps, k) + TreeSize(H(ps[k]))
  BY RowTypes DEF Row
<1>2. ASSUME NEW k \in 1..n PROVE First(ps[k]) = Before(ps, k) /\ Before(ps, k) <= ps[k]
  <2> DEFINE t == TreeSize(H(ps[k]))
             p == ps[k]
             b == Before(ps, k)
  <2>1. p \in Nat /\ b \in Nat /\ t \in Nat \ {0} /\ p + 1 = b + t /\ First(p) = p + 1 - t
    BY <1>1 DEF First
  <2> HIDE DEF t, p, b
  <2>2. First(p) = b /\ b <= p
    BY <2>1
  <2> QED BY <2>2 DEF p, b
<1> DEFINE S == {k \in Nat : k <= n => \A j \in 1..n : j < k => ps[j] < Before(ps, k)}
<1>3. 0 \in S
  OBVIOUS
<1>4. ASSUME NEW k \in Nat, k \in S PROVE k + 1 \in S
  <2> SUFFICES ASSUME k + 1 <= n, NEW j \in 1..n, j < k + 1 PROVE ps[j] < Before(ps, k + 1)
    OBVIOUS
  <2>1. k \in 1..n /\ k <= n /\ k + 1 # 1 /\ (k + 1) - 1 = k
    BY <1>1
  <2>2. Before(ps, k + 1) = ps[k] + 1
    BY <2>1 DEF Before
  <2>3. ps[j] \in Nat /\ ps[k] \in Nat /\ Before(ps, k) \in Nat /\ Before(ps, k) <= ps[k]
    BY <1>1, <1>2, <2>1
  <2>4. CASE j = k
    BY <2>2, <2>3, <2>4
  <2>5. CASE j < k
    <3>1. ps[j] < Before(ps, k)
      BY <1>4, <2>1, <2>5
    <3> QED BY <2>2, <2>3, <3>1
  <2> QED BY <2>1, <2>4, <2>5
<1>5. Nat \subseteq S
  <2> HIDE DEF S
  <2> QED BY <1>3, <1>4, SetInduction
<1> QED BY <1>1, <1>2, <1>5

\* No node is in two of them, and the next node is in the same one or the next one.
LEMMA MountainsApart ==
  ASSUME NEW ps, Row(ps), NEW j \in 1..Len(ps), NEW k \in 1..Len(ps), NEW m \in Nat,
         Before(ps, j) <= m, m <= ps[j], Before(ps, k) <= m + 1, m + 1 <= ps[k]
  PROVE  k = j \/ k = j + 1
<1>1. /\ Len(ps) \in Nat
      /\ \A l \in 1..Len(ps) : ps[l] \in Nat /\ Before(ps, l) \in Nat
  BY RowTypes
<1>2. \A a, b \in 1..Len(ps) : a < b => ps[a] < Before(ps, b)
  BY MountainsInOrder
<1>3. ~(k < j)
  <2> SUFFICES ASSUME k < j PROVE FALSE
    OBVIOUS
  <2>1. ps[k] < Before(ps, j)
    BY <1>2
  <2> QED BY <1>1, <2>1
<1>4. ~(j + 1 < k)
  <2> SUFFICES ASSUME j + 1 < k PROVE FALSE
    OBVIOUS
  <2>1. j + 1 \in 1..Len(ps) /\ j < j + 1
    BY <1>1
  <2>2. ps[j + 1] < Before(ps, k) /\ ps[j] < Before(ps, j + 1) /\ Before(ps, j + 1) <= ps[j + 1]
    BY <1>2, <2>1, MountainsInOrder
  <2> QED BY <1>1, <2>1, <2>2
<1> QED BY <1>1, <1>3, <1>4

\* How the peaks of a finished MMR of m nodes climb when there are n: the kth one in
\* l[k] steps to the peak up[k].
PeaksClimb(m, n, l, up) ==
  LET os == PeaksMMRIVERIter(m - 1)
      ps == PeaksMMRIVERIter(n - 1)
  IN  /\ \A k \in 1..Len(os) : /\ up[k] \in 1..Len(ps)
                               /\ ClimbEnds(os[k], l[k], n - 1)
                               /\ ps[up[k]] = Ancestor(os[k], l[k])
      /\ up[1] = 1
      /\ \A k \in 1..(Len(os) - 1) : up[k + 1] \in {up[k], up[k] + 1}

\* They do, the first one to the first and each to the same as the one before or the
\* next.
LEMMA OldPeaksClimb ==
  ASSUME NEW m \in Nat \ {0}, NEW n \in Nat \ {0}, m <= n, H(m) = 0, H(n) = 0
  PROVE  \E l, up : PeaksClimb(m, n, l, up)
<1> DEFINE os == PeaksMMRIVERIter(m - 1)
           ps == PeaksMMRIVERIter(n - 1)
<1>1. /\ Row(os) /\ Len(os) \in Nat \ {0} /\ \A k \in 1..Len(os) : os[k] \in 0..(m - 1)
      /\ Row(ps) /\ Len(ps) \in Nat \ {0} /\ DOMAIN ps = 1..Len(ps)
  BY PeaksAreRow
<1>2. ASSUME NEW k \in 1..Len(os)
      PROVE  \E end : ClimbEnds(os[k], end, n - 1)
                      /\ \E j \in 1..Len(ps) : ps[j] = Ancestor(os[k], end)
  <2>1. os[k] \in Nat /\ n - 1 \in Nat /\ os[k] \in 0..(n - 1)
    BY <1>1
  <2>2. PICK end : ClimbEnds(os[k], end, n - 1)
    BY <2>1, ClimbHasEnd
  <2>3. \E j \in DOMAIN ps : ps[j] = Ancestor(os[k], end)
    BY <2>1, <2>2, NodeClimbs
  <2> QED BY <1>1, <2>2, <2>3
<1> DEFINE l == [k \in 1..Len(os) |->
                   CHOOSE end : ClimbEnds(os[k], end, n - 1)
                                /\ \E j \in 1..Len(ps) : ps[j] = Ancestor(os[k], end)]
           up == [k \in 1..Len(os) |-> CHOOSE j \in 1..Len(ps) : ps[j] = Ancestor(os[k], l[k])]
<1>3. ASSUME NEW k \in 1..Len(os)
      PROVE  /\ ClimbEnds(os[k], l[k], n - 1) /\ up[k] \in 1..Len(ps)
             /\ ps[up[k]] = Ancestor(os[k], l[k])
  <2>1. l[k] = CHOOSE end : ClimbEnds(os[k], end, n - 1)
                            /\ \E j \in 1..Len(ps) : ps[j] = Ancestor(os[k], end)
    OBVIOUS
  <2>2. up[k] = CHOOSE j \in 1..Len(ps) : ps[j] = Ancestor(os[k], l[k])
    OBVIOUS
  <2> HIDE DEF l, up, os, ps
  <2>3. ClimbEnds(os[k], l[k], n - 1) /\ \E j \in 1..Len(ps) : ps[j] = Ancestor(os[k], l[k])
    BY <1>2, <2>1
  <2> QED BY <2>2, <2>3
<1> HIDE DEF l, up, os, ps
<1>4. ASSUME NEW k \in 1..Len(os)
      PROVE  /\ os[k] \in Nat /\ Before(os, k) \in Nat /\ Before(os, k) <= os[k]
             /\ Before(ps, up[k]) \in Nat
             /\ Before(ps, up[k]) <= Before(os, k) /\ os[k] <= ps[up[k]]
             /\ ps[up[k]] \in Nat
  <2>1. /\ os[k] \in Nat /\ Before(os, k) \in Nat /\ First(os[k]) = Before(os, k)
        /\ Before(os, k) <= os[k]
    BY <1>1, RowTypes, MountainsInOrder
  <2>2. /\ ps[up[k]] \in Nat /\ Before(ps, up[k]) \in Nat
        /\ First(ps[up[k]]) = Before(ps, up[k])
    BY <1>1, <1>3, RowTypes, MountainsInOrder
  <2>3. l[k] \in Nat
    BY <1>3 DEF ClimbEnds
  <2>4. First(ps[up[k]]) <= First(os[k]) /\ os[k] <= ps[up[k]]
    BY <1>3, <2>1, <2>3, TreeInAncestors
  <2> QED BY <2>1, <2>2, <2>4
<1>5. up[1] = 1
  <2>1. 1 \in 1..Len(os) /\ Before(os, 1) = 0
    BY <1>1 DEF Before
  <2>2. up[1] \in 1..Len(ps) /\ Before(ps, up[1]) = 0
    BY <1>3, <1>4, <2>1
  <2>3. 1 \in 1..Len(ps) /\ ps[1] \in Nat
    BY <1>1, RowTypes
  <2>4. ~(1 < up[1])
    <3>1. 1 < up[1] => ps[1] < Before(ps, up[1])
      BY <1>1, <2>2, <2>3, MountainsInOrder
    <3> QED BY <2>2, <2>3, <3>1
  <2> QED BY <1>1, <2>2, <2>4
<1>6. ASSUME NEW k \in 1..(Len(os) - 1) PROVE up[k + 1] \in {up[k], up[k] + 1}
  <2>1. k \in 1..Len(os) /\ k + 1 \in 1..Len(os) /\ k + 1 # 1 /\ (k + 1) - 1 = k
    BY <1>1
  <2>2. Before(os, k + 1) = os[k] + 1
    BY <2>1 DEF Before
  <2>3. /\ os[k] \in Nat /\ os[k + 1] \in Nat /\ up[k] \in 1..Len(ps) /\ up[k + 1] \in 1..Len(ps)
        /\ Before(ps, up[k]) <= os[k] /\ os[k] <= ps[up[k]]
        /\ Before(ps, up[k + 1]) <= os[k] + 1 /\ os[k] + 1 <= ps[up[k + 1]]
    <3>1. /\ os[k] \in Nat /\ Before(os, k) \in Nat /\ Before(os, k) <= os[k]
          /\ Before(ps, up[k]) \in Nat /\ ps[up[k]] \in Nat
          /\ Before(ps, up[k]) <= Before(os, k) /\ os[k] <= ps[up[k]]
      BY <1>4, <2>1
    <3>2. /\ os[k + 1] \in Nat /\ Before(os, k + 1) <= os[k + 1]
          /\ Before(ps, up[k + 1]) \in Nat /\ ps[up[k + 1]] \in Nat
          /\ Before(ps, up[k + 1]) <= Before(os, k + 1) /\ os[k + 1] <= ps[up[k + 1]]
      BY <1>4, <2>1
    <3>3. up[k] \in 1..Len(ps) /\ up[k + 1] \in 1..Len(ps)
      BY <1>3, <2>1
    <3>4. \A a, b, c \in Nat : a <= b /\ b <= c => a <= c
      OBVIOUS
    <3>5. Before(ps, up[k]) <= os[k]
      BY ONLY <3>1, <3>4
    <3>6. os[k] + 1 \in Nat
      BY <3>1
    <3>7. os[k] + 1 <= os[k + 1] /\ Before(ps, up[k + 1]) <= os[k] + 1
      BY <2>2, <3>2
    <3>8. os[k] + 1 <= ps[up[k + 1]]
      BY ONLY <3>2, <3>4, <3>6, <3>7
    <3> QED BY <3>1, <3>2, <3>3, <3>5, <3>7, <3>8
  <2>4. up[k + 1] = up[k] \/ up[k + 1] = up[k] + 1
    <3> DEFINE from == up[k]
               to == up[k + 1]
               last == os[k]
    <3>1. /\ last \in Nat /\ from \in 1..Len(ps) /\ to \in 1..Len(ps)
          /\ Before(ps, from) <= last /\ last <= ps[from]
          /\ Before(ps, to) <= last + 1 /\ last + 1 <= ps[to]
      BY <2>3
    <3> HIDE DEF from, to, last
    <3>2. to = from \/ to = from + 1
      BY <1>1, <3>1, MountainsApart
    <3> QED BY <3>2 DEF from, to
  <2> QED BY <2>4
<1>7. PeaksClimb(m, n, l, up)
  BY <1>3, <1>5, <1>6 DEF PeaksClimb, os, ps
<1> QED BY <1>7

-----------------------------------------------------------------------------
(* Paths read as one list, and cut again.                                  *)

\* f[k] is the first k sequences of seqs, joined.
JoinsTo(f, seqs, T) ==
  /\ f \in [0..Len(seqs) -> Seq(T)] /\ f[0] = <<>>
  /\ \A k \in 1..Len(seqs) : f[k] = f[k - 1] \o seqs[k]

\* There is such a function.
LEMMA JoinsExist ==
  ASSUME NEW T, NEW seqs \in Seq(Seq(T))
  PROVE  \E f : JoinsTo(f, seqs, T)
<1> DEFINE Q == Seq(T)
           n == Len(seqs)
           D == 0..n
           stop == {0}
           next == [k \in D |-> IF k = 0 THEN 0 ELSE k - 1]
           exit == [k \in D |-> <<>>]
           join == [call \in D \X Q |-> IF call[1] = 0 THEN <<>> ELSE call[2] \o seqs[call[1]]]
           rank == [k \in D |-> k]
<1>1. n \in Nat /\ (\A k \in 1..n : seqs[k] \in Q) /\ <<>> \in Q
  <2>1. <<>> \in Q
    OBVIOUS
  <2> HIDE DEF Q
  <2>2. n \in Nat /\ \A k \in 1..n : seqs[k] \in Q
    <3>1. seqs \in Seq(Q)
      BY DEF Q
    <3> QED BY <3>1
  <2> QED BY <2>1, <2>2
<1>2. \A s, t \in Q : s \o t \in Q
  OBVIOUS
<1> HIDE DEF Q
<1>3. IsLoop(D, Q, stop, next, exit, join, rank)
  <2>1. next \in [D -> D] /\ rank \in [D -> Nat] /\ exit \in [D -> Q]
    BY <1>1
  <2>2. join \in [D \X Q -> Q]
    <3>1. ASSUME NEW call \in D \X Q
          PROVE  (IF call[1] = 0 THEN <<>> ELSE call[2] \o seqs[call[1]]) \in Q
      <4>1. call[1] \in D /\ call[2] \in Q /\ (call[1] = 0 \/ call[1] \in 1..n)
        BY <1>1
      <4> HIDE DEF D, n
      <4> QED BY <1>1, <1>2, <4>1
    <3> HIDE DEF D
    <3> QED BY <3>1
  <2>3. \A k \in D \ stop : rank[next[k]] < rank[k]
    BY <1>1
  <2> HIDE DEF D, stop, next, exit, join, rank
  <2> QED BY <2>1, <2>2, <2>3 DEF IsLoop
<1>4. PICK f \in [D -> Q] : Loop(f, D, stop, next, exit, join)
  <2> HIDE DEF D, stop, next, exit, join, rank
  <2> QED BY <1>3, LoopHasResult
<1>5. f[0] = <<>>
  <2>1. 0 \in D /\ 0 \in stop /\ exit[0] = <<>>
    BY <1>1
  <2> HIDE DEF D, stop, next, exit, join
  <2> QED BY <1>4, <2>1 DEF Loop
<1>6. ASSUME NEW k \in 1..n PROVE f[k] = f[k - 1] \o seqs[k]
  <2>1. k \in D /\ k \notin stop /\ next[k] = k - 1 /\ k - 1 \in D /\ k # 0
    BY <1>1
  <2>2. f[k] = join[<<k, f[next[k]]>>]
    <3> HIDE DEF D, stop, next, exit, join
    <3> QED BY <1>4, <2>1 DEF Loop
  <2>3. <<k, f[k - 1]>> \in D \X Q
    <3> HIDE DEF D
    <3> QED BY <1>4, <2>1
  <2> HIDE DEF D, next, stop
  <2>4. join[<<k, f[k - 1]>>] = f[k - 1] \o seqs[k]
    BY <2>1, <2>3
  <2> HIDE DEF join
  <2> QED BY <2>1, <2>2, <2>4
<1> QED BY <1>4, <1>5, <1>6 DEF JoinsTo, Q

\* FlattenSeq is the last of its values.
LEMMA FlattenIs ==
  ASSUME NEW T, NEW seqs \in Seq(Seq(T)), NEW f, JoinsTo(f, seqs, T)
  PROVE  FlattenSeq(seqs) = f[Len(seqs)]
<1> DEFINE n == Len(seqs)
<1>1. /\ n \in Nat /\ f \in [0..n -> Seq(T)] /\ f[0] = <<>>
      /\ \A k \in 1..n : f[k] = f[k - 1] \o seqs[k] /\ seqs[k] \in Seq(T)
  <2> DEFINE Q == Seq(T)
  <2>1. seqs \in Seq(Q)
    OBVIOUS
  <2> HIDE DEF Q
  <2>2. \A k \in 1..n : seqs[k] \in Q
    BY <2>1
  <2> QED BY <2>1, <2>2 DEF JoinsTo, Q
<1>2. CASE n = 0
  <2>1. seqs = <<>>
    BY <1>2
  <2> QED BY <1>1, <1>2, <2>1 DEF FlattenSeq
<1>3. CASE n # 0
  <2> DEFINE flatten[k \in 1..n] == IF k = 1 THEN seqs[k] ELSE flatten[k - 1] \o seqs[k]
             h == [k \in 1..n |-> f[k]]
  <2>1. FlattenSeq(seqs) = flatten[n]
    BY <1>3 DEF FlattenSeq
  <2>2. \A k \in 1..n : h[k] = IF k = 1 THEN seqs[k] ELSE h[k - 1] \o seqs[k]
    <3> TAKE k \in 1..n
    <3>1. k \in 0..n /\ k - 1 \in 0..n /\ (k # 1 => k - 1 \in 1..n)
      BY <1>1
    <3>2. h[k] = f[k - 1] \o seqs[k] /\ (k # 1 => h[k - 1] = f[k - 1])
      BY <1>1, <3>1
    <3>3. <<>> \o seqs[k] = seqs[k]
      <4>1. seqs[k] \in Seq(T)
        BY <1>1
      <4> QED BY <4>1
    <3>4. k = 1 => f[k - 1] = <<>>
      BY <1>1
    <3> HIDE DEF h, n
    <3> QED BY <3>2, <3>3, <3>4
  <2>3. h = [k \in 1..n |-> IF k = 1 THEN seqs[k] ELSE h[k - 1] \o seqs[k]]
    <3> HIDE DEF n
    <3> QED BY <2>2
  <2>4. flatten = [k \in 1..n |-> IF k = 1 THEN seqs[k] ELSE flatten[k - 1] \o seqs[k]]
    <3> HIDE DEF h, n
    <3> QED BY <2>3
  <2> HIDE DEF flatten
  <2> DEFINE S == {k \in Nat : k \in 1..n => flatten[k] = f[k]}
  <2>5. 0 \in S
    OBVIOUS
  <2>6. ASSUME NEW k \in Nat, k \in S PROVE k + 1 \in S
    <3> SUFFICES ASSUME k + 1 \in 1..n PROVE flatten[k + 1] = f[k + 1]
      OBVIOUS
    <3> DEFINE next == k + 1
    <3>1. flatten[next] = IF next = 1 THEN seqs[next] ELSE flatten[next - 1] \o seqs[next]
      <4>1. next \in 1..n
        OBVIOUS
      <4> HIDE DEF n, next, h
      <4> QED BY ONLY <2>4, <4>1
    <3>2. f[next] = IF next = 1 THEN seqs[next] ELSE h[next - 1] \o seqs[next]
      <4>1. next \in 1..n /\ h[next] = f[next]
        OBVIOUS
      <4> HIDE DEF n, next, h
      <4> QED BY ONLY <2>2, <4>1
    <3>3. next # 1 => next - 1 = k /\ k \in 1..n /\ h[k] = f[k] /\ flatten[k] = f[k]
      BY <1>1, <2>6
    <3>4. flatten[next] = f[next]
      <4> HIDE DEF n, h, next
      <4> QED BY ONLY <3>1, <3>2, <3>3
    <3> QED BY <3>4
  <2>7. n \in S
    <3>1. Nat \subseteq S
      <4> HIDE DEF S
      <4> QED BY <2>5, <2>6, SetInduction
    <3> QED BY <1>1, <3>1
  <2>8. n \in 1..n
    BY <1>1, <1>3
  <2> QED BY <2>1, <2>7, <2>8
<1> QED BY <1>2, <1>3

\* The first k - 1 sequences, joined, are as long as the offset of the kth.
LEMMA OffsetIs ==
  ASSUME NEW T, NEW seqs \in Seq(Seq(T)), NEW f, JoinsTo(f, seqs, T),
         NEW k \in 1..Len(seqs)
  PROVE  FlattenSeq(SubSeq(seqs, 1, k - 1)) = f[k - 1]
<1> DEFINE Q == Seq(T)
           n == Len(seqs)
           m == k - 1
           part == SubSeq(seqs, 1, m)
           h == [l \in 0..m |-> f[l]]
<1>1. /\ n \in Nat /\ f \in [0..n -> Q] /\ f[0] = <<>>
      /\ \A l \in 1..n : f[l] = f[l - 1] \o seqs[l]
      /\ m \in Nat /\ m <= n
  <2>1. seqs \in Seq(Q)
    OBVIOUS
  <2>2. f \in [0..n -> Q] /\ f[0] = <<>> /\ \A l \in 1..n : f[l] = f[l - 1] \o seqs[l]
    BY DEF JoinsTo
  <2> HIDE DEF Q
  <2>3. n \in Nat
    BY <2>1
  <2>4. m \in Nat /\ m <= n
    BY <2>3
  <2> HIDE DEF n, m
  <2> QED BY <2>2, <2>3, <2>4
<1>2. part \in Seq(Q) /\ Len(part) = m /\ \A l \in 1..m : part[l] = seqs[l]
  <2>1. seqs \in Seq(Q)
    OBVIOUS
  <2> HIDE DEF Q, m, n
  <2>2. Len(seqs) = n
    BY DEF n
  <2> QED BY <1>1, <2>1, <2>2
<1> HIDE DEF Q, n, m, part
<1>3. JoinsTo(h, part, T)
  <2>1. h \in [0..m -> Q] /\ h[0] = <<>>
    BY <1>1
  <2>2. \A l \in 1..m : h[l] = h[l - 1] \o part[l]
    <3> TAKE l \in 1..m
    <3>1. l \in 1..n /\ l \in 0..m /\ l - 1 \in 0..m
      BY <1>1
    <3> QED BY <1>1, <1>2, <3>1
  <2> HIDE DEF h
  <2> QED BY <1>2, <2>1, <2>2 DEF JoinsTo, Q
<1> HIDE DEF h
<1>4. FlattenSeq(part) = h[m]
  <2>1. part \in Seq(Seq(T))
    BY <1>2 DEF Q
  <2> QED BY <1>2, <1>3, <2>1, FlattenIs
<1>5. h[m] = f[m]
  BY <1>1 DEF h
<1> QED BY <1>4, <1>5 DEF part, m

\* s is in all, after the first offset elements.
Follows(s, all, offset) ==
  /\ offset \in Nat /\ Len(s) \in Nat /\ offset + Len(s) <= Len(all)
  /\ \A j \in 1..Len(s) : all[offset + j] = s[j]

\* Where the kth sequence is among all of them.
LEMMA PartIsThere ==
  ASSUME NEW T, NEW seqs \in Seq(Seq(T)), NEW f, JoinsTo(f, seqs, T),
         NEW k \in 1..Len(seqs)
  PROVE  f[Len(seqs)] \in Seq(T) /\ Follows(seqs[k], f[Len(seqs)], Len(f[k - 1]))
<1> DEFINE Q == Seq(T)
           n == Len(seqs)
           offset == Len(f[k - 1])
           s == seqs[k]
           Has(r) == /\ offset + Len(s) <= Len(r)
                     /\ \A j \in 1..Len(s) : r[offset + j] = s[j]
           S == {m \in Nat : k + m <= n => Has(f[k + m])}
<1>1. /\ n \in Nat /\ f \in [0..n -> Q]
      /\ \A l \in 1..n : f[l] = f[l - 1] \o seqs[l] /\ seqs[l] \in Q
  <2>1. seqs \in Seq(Q)
    OBVIOUS
  <2>2. f \in [0..n -> Q] /\ \A l \in 1..n : f[l] = f[l - 1] \o seqs[l]
    BY DEF JoinsTo
  <2> HIDE DEF Q
  <2>3. n \in Nat /\ \A l \in 1..n : seqs[l] \in Q
    BY <2>1
  <2> QED BY <2>2, <2>3
<1>2. \A t, u \in Q : /\ Len(t) \in Nat /\ Len(u) \in Nat /\ Len(t \o u) = Len(t) + Len(u)
                      /\ \A j \in 1..Len(t) : (t \o u)[j] = t[j]
                      /\ \A j \in 1..Len(u) : (t \o u)[Len(t) + j] = u[j]
  OBVIOUS
<1>3. k \in 1..n /\ k - 1 \in 0..n /\ f[k - 1] \in Q /\ s \in Q /\ k \in Nat
  <2>1. k \in 1..n /\ k \in Nat /\ k - 1 \in 0..n
    BY <1>1
  <2> HIDE DEF n, Q
  <2>2. f[k - 1] \in Q /\ s \in Q
    BY <1>1, <2>1
  <2> QED BY <2>1, <2>2
<1> HIDE DEF Q, n
<1>4. offset \in Nat /\ Len(s) \in Nat
  <2>1. \A t \in Q : Len(t) \in Nat
    BY <1>2
  <2> HIDE DEF s
  <2> QED BY <1>3, <2>1
<1> HIDE DEF s, offset
<1>5. 0 \in S
  <2> SUFFICES Has(f[k])
    <3> HIDE DEF Has
    <3>1. k + 0 = k
      BY <1>3
    <3> QED BY <3>1
  <2>1. f[k] = f[k - 1] \o s
    BY <1>1, <1>3 DEF s
  <2>2. Len(f[k]) = offset + Len(s) /\ \A j \in 1..Len(s) : f[k][offset + j] = s[j]
    BY <1>2, <1>3, <2>1 DEF offset
  <2> QED BY <1>3, <1>4, <2>2
<1>6. ASSUME NEW m \in Nat, m \in S PROVE m + 1 \in S
  <2> SUFFICES ASSUME k + (m + 1) <= n PROVE Has(f[k + (m + 1)])
    BY DEF S
  <2> DEFINE l == k + (m + 1)
             r == f[k + m]
             t == seqs[l]
  <2>1. l \in 1..n /\ k + m \in 0..n /\ l - 1 = k + m /\ k + m <= n
    BY <1>1, <1>3
  <2>2. f[l] = r \o t /\ r \in Q /\ t \in Q
    BY <1>1, <2>1
  <2>3. Has(r)
    <3> HIDE DEF Has
    <3> QED BY <1>6, <2>1
  <2> HIDE DEF r, t, l
  <2>4. Len(f[l]) = Len(r) + Len(t) /\ Len(r) \in Nat /\ Len(t) \in Nat
        /\ \A j \in 1..Len(r) : f[l][j] = r[j]
    BY <1>2, <2>2
  <2>5. \A j \in 1..Len(s) : offset + j \in 1..Len(r)
    BY <1>4, <2>3, <2>4
  <2>6. Has(f[l])
    <3>1. offset + Len(s) <= Len(f[l])
      BY <1>4, <2>3, <2>4
    <3>2. \A j \in 1..Len(s) : f[l][offset + j] = s[j]
      BY <2>3, <2>4, <2>5
    <3> QED BY <3>1, <3>2
  <2> QED BY <2>6 DEF l
<1>7. Has(f[n]) /\ f[n] \in Q
  <2>1. Nat \subseteq S
    <3> HIDE DEF S
    <3> QED BY <1>5, <1>6, SetInduction
  <2>2. n - k \in Nat /\ k + (n - k) = n /\ n <= n /\ n \in 0..n
    BY <1>1, <1>3
  <2> HIDE DEF Has
  <2>3. Has(f[k + (n - k)])
    BY <2>1, <2>2
  <2> QED BY <1>1, <2>2, <2>3
<1>8. Follows(s, f[n], offset)
  BY <1>4, <1>7 DEF Follows
<1> QED BY <1>7, <1>8 DEF s, offset, n, Q

\* all is what is read at the positions.
ReadAt(all, positions, read) == all = [m \in DOMAIN positions |-> read[positions[m]]]

\* Reading all paths as one list and slicing it gives what is read along each path.
LEMMA PathsCutAgain ==
  ASSUME NEW T, NEW U, NEW paths \in Seq(Seq(T)), NEW read \in [T -> U],
         NEW all, ReadAt(all, FlattenSeq(paths), read), NEW k \in 1..Len(paths)
  PROVE  /\ FlattenSeq(paths) \in Seq(T)
         /\ ReadAt(Slice(all, paths, k), paths[k], read)
<1> DEFINE positions == FlattenSeq(paths)
           n == Len(paths)
<1>1. PICK f : JoinsTo(f, paths, T)
  BY JoinsExist
<1>2. positions = f[n]
  BY <1>1, FlattenIs
<1>3. positions \in Seq(T)
  <2>1. n \in Nat
    <3> DEFINE Q == Seq(T)
    <3>1. paths \in Seq(Q)
      OBVIOUS
    <3> HIDE DEF Q
    <3> QED BY <3>1
  <2>2. f \in [0..n -> Seq(T)] /\ n \in 0..n
    BY <1>1, <2>1 DEF JoinsTo
  <2> HIDE DEF positions, n
  <2> QED BY <1>2, <2>2
<1> HIDE DEF positions
<1>4. all \in Seq(U) /\ Len(all) = Len(positions)
      /\ \A m \in 1..Len(positions) : all[m] = read[positions[m]]
  <2>1. \A m \in 1..Len(positions) : positions[m] \in T
    BY <1>3
  <2>2. DOMAIN positions = 1..Len(positions) /\ Len(positions) \in Nat
    BY <1>3
  <2>3. all = [m \in DOMAIN positions |-> read[positions[m]]]
    BY DEF ReadAt, positions
  <2> QED BY <2>1, <2>2, <2>3
<1>5. Slice(all, paths, k) = [j \in 1..Len(paths[k]) |-> read[paths[k][j]]]
  <2> DEFINE offset == Len(f[k - 1])
             l == Len(paths[k])
  <2>1. /\ offset \in Nat /\ l \in Nat /\ offset + l <= Len(positions)
        /\ \A j \in 1..l : positions[offset + j] = paths[k][j]
    <3>1. Follows(paths[k], f[Len(paths)], Len(f[k - 1]))
      BY <1>1, PartIsThere
    <3> QED BY <1>2, <3>1 DEF Follows
  <2>2. FlattenSeq(SubSeq(paths, 1, k - 1)) = f[k - 1]
    BY <1>1, OffsetIs
  <2>3. Slice(all, paths, k) = SubSeq(all, offset + 1, offset + l)
    BY <2>2 DEF Slice
  <2> HIDE DEF offset, l
  <2>4. Len(positions) \in Nat /\ \A j \in 1..l : offset + j \in 1..Len(positions)
    BY <1>3, <2>1
  <2>5. SubSeq(all, offset + 1, offset + l) = [j \in 1..l |-> all[offset + j]]
    <3> DEFINE part == SubSeq(all, offset + 1, offset + l)
    <3>1. Len(part) = l /\ part \in Seq(U) /\ \A j \in 1..l : part[j] = all[offset + j]
      BY <1>4, <2>1, <2>4
    <3>2. part = [j \in 1..Len(part) |-> part[j]]
      <4> HIDE DEF part
      <4> QED BY <3>1
    <3> HIDE DEF part
    <3>3. part = [j \in 1..l |-> all[offset + j]]
      BY <3>1, <3>2
    <3> QED BY <3>3 DEF part
  <2>6. \A j \in 1..l : all[offset + j] = read[paths[k][j]]
    BY <1>4, <2>1, <2>4
  <2> QED BY <2>3, <2>5, <2>6 DEF l
<1>6. DOMAIN paths[k] = 1..Len(paths[k])
  <2> DEFINE Q == Seq(T)
  <2>1. paths \in Seq(Q)
    OBVIOUS
  <2> HIDE DEF Q
  <2>2. paths[k] \in Q
    BY <2>1
  <2>3. \A s \in Q : DOMAIN s = 1..Len(s)
    BY DEF Q
  <2> QED BY <2>2, <2>3
<1> QED BY <1>3, <1>5, <1>6 DEF positions, ReadAt

-----------------------------------------------------------------------------
(* Every generated consistency proof is accepted.                          *)

\* Two nodes with the same item are leaves.
LEMMA SameItemsAreLeaves ==
  ASSUME NEW c, NEW n, Finished(c, n), NEW p \in 0..(n - 1), NEW q \in 0..(n - 1),
         c[p + 1] = c[q + 1], H(p) # 0
  PROVE  p = q
<1> DEFINE a == c[p - Pow2[H(p)] + 1]
           b == c[p]
<1>1. /\ n \in Nat /\ p \in Nat /\ q \in Nat
      /\ IsNode(c, p, p + 1) /\ IsNode(c, q, q + 1)
  BY DEF Finished
<1>2. \A m \in 0..(n - 1) : c[m + 1] \in Term
  BY ContentIsTerms
<1>3. ASSUME NEW m \in 0..(n - 1), H(m) # 0
      PROVE  /\ c[m + 1] = merge_pos(m + 1, c[m - Pow2[H(m)] + 1], c[m])
             /\ c[m - Pow2[H(m)] + 1] \in Term /\ c[m] \in Term
  <2>1. m \in Nat /\ IsNode(c, m, m + 1)
    BY <1>1 DEF Finished
  <2>2. H(m) \in Nat /\ m - Pow2[H(m)] \in Nat /\ m - 1 \in Nat
    BY <1>3, <2>1, NodeHeight, ChildrenHeights DEF H
  <2>3. Pow2[H(m)] \in Nat
    BY <2>2, Pow2Doubles
  <2>4. c[m + 1] = merge_pos(m + 1, c[m - Pow2[H(m)] + 1], c[m])
    BY <1>3, <2>1 DEF IsNode, H
  <2> DEFINE left == m - Pow2[H(m)]
             right == m - 1
  <2>5. left \in 0..(n - 1) /\ right \in 0..(n - 1) /\ right + 1 = m
    BY <1>1, <2>1, <2>2, <2>3
  <2> HIDE DEF left, right
  <2>6. c[left + 1] \in Term /\ c[right + 1] \in Term
    BY <1>2, <2>5
  <2> QED BY <2>4, <2>5, <2>6 DEF left
<1>4. c[p + 1] = merge_pos(p + 1, a, b) /\ a \in Term /\ b \in Term
  BY <1>3
<1>5. CASE H(q) = 0
  <2>1. PICK d \in Data : c[q + 1] = leaf_hash(d)
    BY <1>1, <1>5 DEF IsNode, H
  <2>2. p + 1 \in Nat /\ a \in Item /\ b \in Item
    BY <1>1, <1>4, TermsAreItems
  <2> HIDE DEF a, b
  <2> QED BY <1>4, <2>1, <2>2, LeafIsNoMerge
<1>6. CASE H(q) # 0
  <2> DEFINE e == c[q - Pow2[H(q)] + 1]
             f == c[q]
  <2>1. c[q + 1] = merge_pos(q + 1, e, f) /\ e \in Term /\ f \in Term
    BY <1>3, <1>6
  <2>2. p + 1 \in Nat /\ q + 1 \in Nat
    BY <1>1
  <2> HIDE DEF a, b, e, f
  <2> DEFINE x == p + 1
             y == q + 1
  <2>3. x \in Nat /\ y \in Nat /\ merge_pos(x, a, b) = merge_pos(y, e, f)
    BY <1>4, <2>1, <2>2
  <2> HIDE DEF x, y
  <2>4. x = y
    BY <1>4, <2>1, <2>3, MergeIsInjective
  <2> QED BY <1>1, <2>4 DEF x, y
<1> QED BY <1>5, <1>6

\* A peak's item is not that of the next.
LEMMA PeaksDiffer ==
  ASSUME NEW c, NEW n, Finished(c, n), n # 0
  PROVE  LET ps == PeaksMMRIVERIter(n - 1)
         IN  \A j \in 1..(Len(ps) - 1) : c[ps[j] + 1] # c[ps[j + 1] + 1]
<1> DEFINE ps == PeaksMMRIVERIter(n - 1)
<1>1. /\ n \in Nat \ {0} /\ H(n) = 0
      /\ Row(ps) /\ ~Due(ps) /\ Len(ps) \in Nat \ {0}
      /\ \A k \in 1..Len(ps) : ps[k] \in 0..(n - 1)
  <2>1. n \in Nat \ {0} /\ H(n) = 0
    BY DEF Finished
  <2> QED BY <2>1, PeaksAreRow
<1> HIDE DEF ps
<1>2. ASSUME NEW j \in 1..(Len(ps) - 1), c[ps[j] + 1] = c[ps[j + 1] + 1] PROVE FALSE
  <2>1. j \in 1..Len(ps) /\ j + 1 \in 1..Len(ps)
    BY <1>1
  <2>2. H(ps[j]) \in Nat /\ H(ps[j + 1]) \in Nat
    BY <1>1, <2>1, RowTypes
  <2>3. H(ps[j + 1]) < H(ps[j])
    <3>1. H(ps[j + 1]) <= H(ps[j]) /\ (j + 1 < Len(ps) => H(ps[j + 1]) < H(ps[j]))
      BY <1>1 DEF Row
    <3>2. j + 1 = Len(ps) => H(ps[j + 1]) # H(ps[j])
      <4> SUFFICES ASSUME j + 1 = Len(ps), H(ps[j + 1]) = H(ps[j]) PROVE FALSE
        OBVIOUS
      <4>1. Len(ps) > 1 /\ Len(ps) - 1 = j
        BY <1>1
      <4> QED BY <1>1, <4>1 DEF Due
    <3> QED BY <1>1, <2>1, <2>2, <3>1, <3>2
  <2>4. H(ps[j]) # 0
    BY <2>2, <2>3
  <2>5. ps[j] \in 0..(n - 1) /\ ps[j + 1] \in 0..(n - 1)
    BY <1>1, <2>1
  <2>6. ps[j] = ps[j + 1]
    <3> DEFINE p == ps[j]
               q == ps[j + 1]
    <3>1. p \in 0..(n - 1) /\ q \in 0..(n - 1) /\ c[p + 1] = c[q + 1] /\ H(p) # 0
      BY <1>2, <2>4, <2>5
    <3> HIDE DEF p, q
    <3>2. p = q
      BY <3>1, SameItemsAreLeaves
    <3> QED BY <3>2 DEF p, q
  <2> QED BY <2>2, <2>3, <2>6
<1> QED BY <1>2 DEF ps

\* The climb from an old peak along its siblings ends at the item of its new peak.
LEMMA OldPeakLeads ==
  ASSUME NEW c, NEW n, Finished(c, n), NEW p \in 0..(n - 1), NEW l, ClimbEnds(p, l, n - 1)
  PROVE  included_root(p, c[p + 1], SiblingItems(c, p, l)) = c[Ancestor(p, l) + 1]
<1> DEFINE path == SiblingItems(c, p, l)
<1>1. n \in Nat /\ p \in Nat /\ c \in Seq(Item) /\ p + 1 \in 1..Len(c)
  BY DEF Finished
<1>2. l \in Nat /\ path \in Seq(Item) /\ Len(path) = l
  BY SiblingsAreItems
<1>3. c[p + 1] \in Item
  BY <1>1
<1>4. PICK r : ClimbsBy(r, p, c[p + 1], path) /\ included_root(p, c[p + 1], path) = r[Len(path)]
  <2> HIDE DEF path
  <2> QED BY <1>1, <1>2, <1>3, IncludedRootClimbs
<1>5. \A k \in 0..l : r[k] = c[Ancestor(p, k) + 1]
  BY <1>4, ClimbPassesItems
<1>6. l \in 0..l
  BY <1>2
<1> QED BY <1>2, <1>4, <1>5, <1>6

\* There are no peaks in the empty MMR, whose size wraps around.
LEMMA NoPeaks == PeaksMMRIVERIter(0 - 1) = <<>>
<1> DEFINE Later(yielded, remaining) ==
             LET highest_size == Pow2[BitLength(remaining + 1) - 1] - 1
                 peak_size == ((0 - 1) + 1 - remaining) + highest_size
             IN  <<peak_size - 1>> \o yielded[remaining - highest_size]
           yielded[remaining \in 0..((0 - 1) + 1)] ==
             IF remaining = 0 THEN <<>> ELSE Later(yielded, remaining)
           f == [remaining \in 0..((0 - 1) + 1) |-> <<>>]
<1>1. PeaksMMRIVERIter(0 - 1) = yielded[(0 - 1) + 1]
  BY DEF PeaksMMRIVERIter
<1> HIDE DEF Later
<1>2. \A remaining \in 0..((0 - 1) + 1) : remaining = 0
  OBVIOUS
<1>3. f = [remaining \in 0..((0 - 1) + 1) |->
             IF remaining = 0 THEN <<>> ELSE Later(f, remaining)]
  BY <1>2
<1>4. yielded = [remaining \in 0..((0 - 1) + 1) |->
                   IF remaining = 0 THEN <<>> ELSE Later(yielded, remaining)]
  <2> HIDE DEF f
  <2> QED BY <1>3
<1> HIDE DEF yielded
<1>5. (0 - 1) + 1 = 0 /\ 0 \in 0..((0 - 1) + 1)
  OBVIOUS
<1>6. yielded[0] = <<>>
  BY <1>4, <1>5
<1> QED BY <1>1, <1>5, <1>6

\* The size on record of an MMR is that of a finished one.
LEMMA SizesFinished ==
  ASSUME NEW size \in FinishedSizes
  PROVE  size \in Nat /\ H(size) = 0
<1>1. CASE size = 0
  BY <1>1, FirstIsLeaf DEF H
<1>2. CASE size # 0
  <2>1. PICK index \in 0..MaxSize : size = leaf_index_to_mmr_size(index)
    BY <1>2 DEF FinishedSizes
  <2>2. index \in Nat
    BY MaxSizeAssumption
  <2>3. index_height_mmriver(size) = 0
    BY <2>1, <2>2, LeafIndexHeight
  <2>4. size \in Nat
    <3>1. size = SizeOf(index + 1) /\ index + 1 \in Nat
      BY <2>1, <2>2 DEF leaf_index_to_mmr_size, SizeOf
    <3> QED BY <3>1, FinishedHeight
  <2> QED BY <2>3, <2>4 DEF H
<1> QED BY <1>1, <1>2

\* What gen_consistency_proof answers.
LEMMA ConsistencyGenerated ==
  ASSUME Invariants, Answering, NEW m \in 1..mmr_size, NEW l, NEW up,
         PeaksClimb(m, mmr_size, l, up)
  PROVE  LET os == PeaksMMRIVERIter(m - 1)
         IN  gen_consistency_proof(m)
               = [k \in 1..Len(os) |-> SiblingItems(content, os[k], l[k])]
<1> DEFINE n == mmr_size
           os == PeaksMMRIVERIter(m - 1)
           paths == consistency_paths(m, n)
           positions == FlattenSeq(paths)
           all == [j \in DOMAIN positions |-> get_elems(positions[j])]
           T == 0..(n - 1)
           read == [p \in T |-> content[p + 1]]
           again == [j \in DOMAIN positions |-> read[positions[j]]]
<1>1. /\ Finished(content, n) /\ n \in Nat \ {0} /\ m \in Nat \ {0} /\ m <= n
      /\ content \in Seq(Item) /\ Len(content) = n
      /\ \A p \in T : get_elems(p) = content[p + 1]
  BY AnswersContent DEF Finished
<1>2. /\ Len(os) \in Nat \ {0} /\ DOMAIN os = 1..Len(os)
      /\ \A k \in 1..Len(os) : os[k] \in 0..(m - 1)
  BY <1>1, PeaksAreRow
<1> HIDE DEF os
<1>3. ASSUME NEW k \in 1..Len(os)
      PROVE  /\ os[k] \in T /\ ClimbEnds(os[k], l[k], n - 1) /\ l[k] \in Nat
             /\ \A j \in 1..l[k] : SiblingAt(os[k], j - 1) \in T
             /\ inclusion_proof_path(os[k], n - 1)
                  = [j \in 1..l[k] |-> SiblingAt(os[k], j - 1)]
  <2> DEFINE p == os[k]
             end == l[k]
  <2>1. p \in T /\ p \in Nat /\ n - 1 \in Nat
    BY <1>1, <1>2
  <2>2. ClimbEnds(p, end, n - 1)
    BY DEF PeaksClimb, os
  <2> HIDE DEF p, end
  <2>3. end \in Nat /\ \A j \in 1..end : SiblingAt(p, j - 1) \in T
    BY <1>1, <2>1, <2>2, SiblingsAreItems
  <2>4. inclusion_proof_path(p, n - 1) = [j \in 1..end |-> SiblingAt(p, j - 1)]
    BY <2>1, <2>2, PathListsSiblings
  <2> QED BY <2>1, <2>2, <2>3, <2>4 DEF p, end
<1>4. paths = [k \in 1..Len(os) |-> inclusion_proof_path(os[k], n - 1)]
  BY <1>2 DEF consistency_paths, os
<1> HIDE DEF paths, T
<1>5. ASSUME NEW k \in 1..Len(os)
      PROVE  /\ paths[k] \in Seq(T) /\ Len(paths[k]) = l[k]
             /\ \A j \in 1..l[k] : /\ paths[k][j] = SiblingAt(os[k], j - 1)
                                   /\ SiblingAt(os[k], j - 1) \in T
  <2> DEFINE path == paths[k]
             end == l[k]
             p == os[k]
  <2>1. /\ end \in Nat /\ \A j \in 1..end : SiblingAt(p, j - 1) \in T
        /\ path = [j \in 1..end |-> SiblingAt(p, j - 1)]
    BY <1>3, <1>4
  <2> HIDE DEF path, end, p
  <2>2. /\ path \in Seq(T) /\ Len(path) = end
        /\ \A j \in 1..end : path[j] = SiblingAt(p, j - 1)
    BY <2>1
  <2> QED BY <2>1, <2>2 DEF path, end, p
<1>6. paths \in Seq(Seq(T)) /\ Len(paths) = Len(os) /\ DOMAIN paths = 1..Len(os)
  <2> DEFINE Q == Seq(T)
             o == Len(os)
             path(k) == inclusion_proof_path(os[k], n - 1)
  <2>1. \A k \in 1..o : path(k) \in Q
    BY <1>4, <1>5
  <2>2. o \in Nat /\ paths = [k \in 1..o |-> path(k)]
    BY <1>2, <1>4
  <2> HIDE DEF Q, o, path
  <2>3. paths \in Seq(Q) /\ Len(paths) = o /\ DOMAIN paths = 1..o
    BY <2>1, <2>2
  <2> QED BY <2>3 DEF Q, o
<1>7. \A p \in T : content[p + 1] \in Item
  <2>1. \A p \in T : p + 1 \in 1..Len(content)
    BY <1>1 DEF T
  <2> QED BY <1>1, <2>1
<1>8. read \in [T -> Item]
  <2> HIDE DEF T
  <2> QED BY <1>7
<1>9. /\ positions \in Seq(T)
      /\ \A k \in 1..Len(paths) : ReadAt(Slice(again, paths, k), paths[k], read)
  <2> DEFINE I == Item
  <2>1. read \in [T -> I]
    BY <1>8
  <2>2. ReadAt(again, FlattenSeq(paths), read)
    BY DEF ReadAt
  <2> HIDE DEF read, again, I
  <2>3. ASSUME NEW k \in 1..Len(paths)
        PROVE  FlattenSeq(paths) \in Seq(T) /\ ReadAt(Slice(again, paths, k), paths[k], read)
    BY <1>6, <2>1, <2>2, PathsCutAgain
  <2>4. 1 \in 1..Len(paths)
    BY <1>2, <1>6
  <2> QED BY <2>3, <2>4
<1>10. \A j \in DOMAIN positions : positions[j] \in T
  <2> HIDE DEF positions
  <2> QED BY <1>9
<1>11. all = again /\ \A j \in DOMAIN all : all[j] # None
  <2>1. \A p \in T : get_elems(p) = read[p] /\ read[p] # None
    BY <1>1, <1>7, NoneAssumption
  <2> HIDE DEF positions, read
  <2> QED BY <1>10, <2>1
<1>12. gen_consistency_proof(m) = [k \in DOMAIN paths |-> Slice(all, paths, k)]
  <2>1. gen_consistency_proof(m) =
          IF m \notin 1..mmr_size \/ \E j \in DOMAIN all : all[j] = None
          THEN None ELSE [k \in DOMAIN paths |-> Slice(all, paths, k)]
    BY DEF gen_consistency_proof, paths
  <2> HIDE DEF all
  <2> QED BY <1>11, <2>1
<1> HIDE DEF all, again
<1>13. ASSUME NEW k \in 1..Len(os)
       PROVE  Slice(all, paths, k) = SiblingItems(content, os[k], l[k])
  <2>1. Slice(all, paths, k) = [j \in 1..l[k] |-> read[paths[k][j]]]
    <3>1. ReadAt(Slice(all, paths, k), paths[k], read)
      BY <1>6, <1>9, <1>11
    <3>2. DOMAIN paths[k] = 1..l[k]
      BY <1>5
    <3> HIDE DEF read
    <3> QED BY <3>1, <3>2 DEF ReadAt
  <2>2. \A j \in 1..l[k] : read[paths[k][j]] = content[SiblingAt(os[k], j - 1) + 1]
    BY <1>5
  <2> HIDE DEF read
  <2> QED BY <2>1, <2>2 DEF SiblingItems
<1> QED BY <1>6, <1>12, <1>13 DEF os

\* The first u elements of a.
Beginning(a, u) == [j \in 1..u |-> a[j]]

\* One more element makes the next beginning.
LEMMA BeginningGrows ==
  ASSUME NEW T, NEW a \in Seq(T), NEW u \in Nat, u <= Len(a)
  PROVE  /\ Beginning(a, u) \in Seq(T) /\ Len(Beginning(a, u)) = u
         /\ u = 0 => Beginning(a, u) = <<>>
         /\ u < Len(a) => Beginning(a, u + 1) = Append(Beginning(a, u), a[u + 1])
<1>1. \A v \in Nat : v <= Len(a) => /\ Beginning(a, v) \in Seq(T) /\ Len(Beginning(a, v)) = v
                                    /\ \A j \in 1..v : Beginning(a, v)[j] = a[j]
  BY DEF Beginning
<1>2. u = 0 => Beginning(a, u) = <<>>
  <2> SUFFICES ASSUME u = 0 PROVE Beginning(a, 0) = <<>>
    OBVIOUS
  <2> DEFINE b == Beginning(a, 0)
  <2>1. b \in Seq(T) /\ Len(b) = 0
    BY <1>1
  <2> HIDE DEF b
  <2>2. b = <<>>
    BY <2>1
  <2> QED BY <2>2 DEF b
<1>3. ASSUME u < Len(a) PROVE Beginning(a, u + 1) = Append(Beginning(a, u), a[u + 1])
  <2> DEFINE b == Beginning(a, u)
             b1 == Beginning(a, u + 1)
             x == a[u + 1]
  <2>1. u + 1 \in Nat /\ u + 1 <= Len(a) /\ u + 1 \in 1..Len(a) /\ x \in T
    BY <1>3
  <2>2. /\ b \in Seq(T) /\ Len(b) = u /\ \A j \in 1..u : b[j] = a[j]
        /\ b1 \in Seq(T) /\ Len(b1) = u + 1 /\ \A j \in 1..(u + 1) : b1[j] = a[j]
    <3>1. b \in Seq(T) /\ Len(b) = u /\ \A j \in 1..u : b[j] = a[j]
      BY <1>1
    <3> DEFINE v == u + 1
    <3>2. v \in Nat /\ v <= Len(a)
      BY <2>1
    <3> HIDE DEF v
    <3>3. /\ Beginning(a, v) \in Seq(T) /\ Len(Beginning(a, v)) = v
          /\ \A j \in 1..v : Beginning(a, v)[j] = a[j]
      BY <1>1, <3>2
    <3> QED BY <3>1, <3>3 DEF v
  <2> HIDE DEF b, b1
  <2> DEFINE e == Append(b, x)
  <2>3. /\ e \in Seq(T) /\ Len(e) = u + 1 /\ \A j \in 1..(u + 1) : e[j] = b1[j]
    <3>1. e \in Seq(T) /\ Len(e) = u + 1 /\ (\A j \in 1..u : e[j] = b[j]) /\ e[u + 1] = x
      BY <2>1, <2>2
    <3>2. \A j \in 1..(u + 1) : j \in 1..u \/ j = u + 1
      OBVIOUS
    <3> HIDE DEF e
    <3> QED BY <2>2, <3>1, <3>2
  <2> HIDE DEF e
  <2>4. e = b1
    BY <2>2, <2>3
  <2> QED BY <2>4 DEF e, b, b1
<1> QED BY <1>1, <1>2, <1>3

\* A beginning of an accumulator is in order in it.
LEMMA BeginningInOrder ==
  ASSUME NEW T, NEW a \in Seq(T), NEW u \in 1..Len(a),
         \A j \in 1..(Len(a) - 1) : a[j] # a[j + 1]
  PROVE  InOrder(Beginning(a, u), a)
<1> DEFINE roots == Beginning(a, u)
           Next1(at, k) ==
             CASE at > Len(a) -> at
               [] a[at] = roots[k] -> at
               [] at < Len(a) /\ a[at + 1] = roots[k] -> at + 1
               [] OTHER -> Len(a) + 1
           idx[k \in 0..Len(roots)] == IF k = 0 THEN 1 ELSE Next1(idx[k - 1], k)
           h == [k \in 0..Len(roots) |-> IF k = 0 THEN 1 ELSE k]
<1>1. /\ Len(a) \in Nat /\ u \in Nat /\ Len(roots) = u
      /\ \A j \in 1..u : roots[j] = a[j]
  <2>1. Len(a) \in Nat /\ u \in Nat /\ u <= Len(a)
    OBVIOUS
  <2>2. Len(roots) = u
    BY <2>1, BeginningGrows
  <2> QED BY <2>1, <2>2 DEF Beginning
<1>2. InOrder(roots, a) <=> roots = <<>> \/ idx[Len(roots)] <= Len(a)
  BY DEF InOrder
<1> HIDE DEF roots
<1>3. ASSUME NEW k \in 1..u
      PROVE  /\ k = 1 => Next1(1, k) = k
             /\ k > 1 => Next1(k - 1, k) = k
  <2>1. k = 1 => Next1(1, k) = k
    BY <1>1
  <2>2. ASSUME k > 1 PROVE Next1(k - 1, k) = k
    <3> DEFINE at == k - 1
    <3>1. at \in 1..(Len(a) - 1) /\ at + 1 = k /\ roots[k] = a[k] /\ ~(at > Len(a)) /\ at < Len(a)
      BY <1>1, <2>2
    <3>2. a[at] # a[at + 1]
      <4> HIDE DEF at
      <4> QED BY <3>1
    <3> HIDE DEF at
    <3>3. Next1(at, k) = at + 1
      BY <3>1, <3>2
    <3> QED BY <3>1, <3>3 DEF at
  <2> QED BY <2>1, <2>2
<1> HIDE DEF Next1
<1>4. h = [k \in 0..Len(roots) |-> IF k = 0 THEN 1 ELSE Next1(h[k - 1], k)]
  <2> SUFFICES ASSUME NEW k \in 0..u PROVE h[k] = IF k = 0 THEN 1 ELSE Next1(h[k - 1], k)
    BY <1>1
  <2>1. CASE k = 0
    BY <1>1, <2>1
  <2>2. CASE k = 1
    <3>1. h[1] = 1 /\ h[0] = 1 /\ k - 1 = 0 /\ k \in 1..u
      BY <1>1, <2>2
    <3> QED BY <1>3, <2>2, <3>1
  <2>3. CASE k > 1
    <3>1. k \in 1..u /\ h[k] = k /\ h[k - 1] = k - 1
      BY <1>1, <2>3
    <3> HIDE DEF h
    <3> QED BY <1>3, <2>3, <3>1
  <2> QED BY <2>1, <2>2, <2>3
<1>5. idx = [k \in 0..Len(roots) |-> IF k = 0 THEN 1 ELSE Next1(idx[k - 1], k)]
  <2> HIDE DEF h
  <2> QED BY <1>4
<1> HIDE DEF idx
<1> DEFINE S == {k \in Nat : k <= u => idx[k] = IF k = 0 THEN 1 ELSE k}
<1>6. 0 \in S
  <2>1. 0 \in 0..Len(roots)
    BY <1>1
  <2>2. idx[0] = 1
    BY <1>5, <2>1
  <2> QED BY <2>2
<1>7. ASSUME NEW k \in Nat, k \in S PROVE k + 1 \in S
  <2> SUFFICES ASSUME k + 1 <= u PROVE idx[k + 1] = k + 1
    OBVIOUS
  <2> DEFINE l == k + 1
  <2>1. l \in 0..Len(roots) /\ l # 0 /\ l \in 1..u /\ l - 1 = k /\ k <= u
    BY <1>1
  <2>2. idx[k] = IF k = 0 THEN 1 ELSE k
    BY <1>7, <2>1
  <2>3. (k = 0 => l = 1) /\ (k # 0 => l > 1)
    OBVIOUS
  <2> HIDE DEF l
  <2>4. idx[l] = Next1(idx[l - 1], l)
    BY <1>5, <2>1
  <2>5. idx[l] = l
    BY <1>3, <2>1, <2>2, <2>3, <2>4
  <2> QED BY <2>5 DEF l
<1>8. idx[u] = u
  <2>1. Nat \subseteq S
    <3> HIDE DEF S
    <3> QED BY <1>6, <1>7, SetInduction
  <2> QED BY <1>1, <2>1
<1> QED BY <1>1, <1>2, <1>8 DEF roots

\* The accumulator of the first m of the items c.
Peaks(c, m) ==
  [k \in 1..Len(PeaksMMRIVERIter(m - 1)) |-> c[PeaksMMRIVERIter(m - 1)[k] + 1]]

\* They are items, and each but the last differs from the next.
LEMMA PeaksAreItems ==
  ASSUME NEW c, NEW n, Finished(c, n), NEW m \in 1..n, H(m) = 0
  PROVE  /\ Finished(c, m) /\ Peaks(c, m) \in Seq(Item)
         /\ Len(Peaks(c, m)) = Len(PeaksMMRIVERIter(m - 1))
         /\ Len(Peaks(c, m)) \in Nat \ {0}
         /\ \A k \in 1..Len(Peaks(c, m)) :
              /\ Peaks(c, m)[k] = c[PeaksMMRIVERIter(m - 1)[k] + 1]
              /\ PeaksMMRIVERIter(m - 1)[k] \in 0..(m - 1)
         /\ \A k \in 1..(Len(Peaks(c, m)) - 1) : Peaks(c, m)[k] # Peaks(c, m)[k + 1]
<1> DEFINE ps == PeaksMMRIVERIter(m - 1)
           a == Peaks(c, m)
           I == Item
<1>1. n \in Nat /\ c \in Seq(Item) /\ Len(c) >= n /\ m \in Nat \ {0} /\ m <= n
  BY DEF Finished
<1>2. Finished(c, m)
  <2>1. Len(c) >= m
    <3>1. Len(c) \in Nat
      BY <1>1
    <3> QED BY <1>1, <3>1
  <2>2. \A p \in 0..(m - 1) : IsNode(c, p, p + 1)
    <3>1. \A p \in 0..(m - 1) : p \in 0..(n - 1)
      BY <1>1
    <3> QED BY <3>1 DEF Finished
  <2> QED BY <1>1, <2>1, <2>2 DEF Finished
<1>3. Len(ps) \in Nat \ {0} /\ \A k \in 1..Len(ps) : ps[k] \in 0..(m - 1)
  BY <1>1, PeaksAreRow
<1>4. \A k \in 1..(Len(ps) - 1) : c[ps[k] + 1] # c[ps[k + 1] + 1]
  BY <1>1, <1>2, PeaksDiffer
<1>5. \A k \in 1..Len(ps) : c[ps[k] + 1] \in Item
  <2>1. Len(c) \in Nat
    BY <1>1
  <2> HIDE DEF ps
  <2>2. \A k \in 1..Len(ps) : ps[k] + 1 \in 1..Len(c)
    BY <1>1, <1>3, <2>1
  <2> QED BY <1>1, <2>2
<1>6. a = [k \in 1..Len(ps) |-> c[ps[k] + 1]]
  BY DEF Peaks
<1> HIDE DEF a, ps
<1>7. /\ a \in Seq(I) /\ Len(a) = Len(ps)
      /\ \A k \in 1..Len(ps) : a[k] = c[ps[k] + 1]
  <2>1. \A k \in 1..Len(ps) : c[ps[k] + 1] \in I
    BY <1>5
  <2> HIDE DEF I
  <2> QED BY <1>3, <1>6, <2>1
<1>8. \A k \in 1..(Len(ps) - 1) : a[k] # a[k + 1]
  <2>1. \A k \in 1..(Len(ps) - 1) : k \in 1..Len(ps) /\ k + 1 \in 1..Len(ps)
    BY <1>3
  <2> QED BY <1>4, <1>7, <2>1
<1> QED BY <1>2, <1>3, <1>7, <1>8 DEF a, ps

\* The proof from size m: the siblings along the climb of every old peak.
Climbing(c, m, l) ==
  [k \in 1..Len(PeaksMMRIVERIter(m - 1)) |-> SiblingItems(c, PeaksMMRIVERIter(m - 1)[k], l[k])]

\* With it the old peaks lead to a beginning of the new ones.
LEMMA OldPeaksLead ==
  ASSUME NEW c, NEW n, Finished(c, n), NEW m \in 1..n, H(m) = 0,
         NEW l, NEW up, PeaksClimb(m, n, l, up)
  PROVE  \E u \in 1..Len(Peaks(c, n)) :
           consistent_roots(m, Climbing(c, m, l), Peaks(c, m)) = Beginning(Peaks(c, n), u)
<1> DEFINE os == PeaksMMRIVERIter(m - 1)
           ps == PeaksMMRIVERIter(n - 1)
           o == Len(os)
           a == Peaks(c, n)
           old == Peaks(c, m)
           paths == Climbing(c, m, l)
           Root(k) == included_root(os[k], old[k], paths[k])
           Taken(roots, k) == IF k > 1 /\ Root(k) = Root(k - 1) THEN roots[k - 1]
                              ELSE Append(roots[k - 1], Root(k))
           roots[k \in 0..o] == IF k = 0 THEN <<>> ELSE Taken(roots, k)
           h == [k \in 0..o |-> IF k = 0 THEN <<>> ELSE Beginning(a, up[k])]
<1>1. /\ n \in Nat \ {0} /\ m \in Nat /\ m <= n /\ H(n) = 0
      /\ c \in Seq(Item) /\ Len(c) >= n
  BY DEF Finished
<1>2. /\ a \in Seq(Item) /\ Len(a) = Len(ps) /\ Len(a) \in Nat \ {0}
      /\ \A k \in 1..Len(a) : a[k] = c[ps[k] + 1]
      /\ \A k \in 1..(Len(a) - 1) : a[k] # a[k + 1]
  <2>1. n \in 1..n
    BY <1>1
  <2> QED BY <1>1, <2>1, PeaksAreItems
<1>3. /\ Len(old) = o /\ o \in Nat \ {0}
      /\ \A k \in 1..o : old[k] = c[os[k] + 1] /\ os[k] \in 0..(m - 1)
  BY PeaksAreItems
<1>4. /\ \A k \in 1..o : /\ up[k] \in 1..Len(a) /\ ClimbEnds(os[k], l[k], n - 1)
                         /\ ps[up[k]] = Ancestor(os[k], l[k])
      /\ up[1] = 1
      /\ \A k \in 1..(o - 1) : up[k + 1] \in {up[k], up[k] + 1}
  BY <1>2 DEF PeaksClimb
<1>5. paths = [k \in 1..o |-> SiblingItems(c, os[k], l[k])]
  BY DEF Climbing
<1> HIDE DEF a, old, paths, ps
<1>6. Len(paths) = o
  <2>1. ASSUME NEW k \in 1..o PROVE SiblingItems(c, os[k], l[k]) \in Seq(Item)
    <3> DEFINE p == os[k]
               end == l[k]
    <3>1. p \in 0..(n - 1) /\ ClimbEnds(p, end, n - 1)
      BY <1>1, <1>3, <1>4
    <3> HIDE DEF p, end
    <3>2. SiblingItems(c, p, end) \in Seq(Item)
      BY <3>1, SiblingsAreItems
    <3> QED BY <3>2 DEF p, end
  <2> DEFINE Q == Seq(Item)
             item(k) == SiblingItems(c, os[k], l[k])
  <2>2. \A k \in 1..o : item(k) \in Q
    BY <2>1
  <2>3. paths = [k \in 1..o |-> item(k)]
    BY <1>5
  <2> HIDE DEF Q, item, o
  <2> QED BY <1>3, <2>2, <2>3
<1>7. ASSUME NEW k \in 1..o PROVE Root(k) = a[up[k]]
  <2> DEFINE p == os[k]
             end == l[k]
  <2>1. p \in 0..(n - 1) /\ ClimbEnds(p, end, n - 1) /\ up[k] \in 1..Len(a)
        /\ ps[up[k]] = Ancestor(p, end)
    BY <1>1, <1>3, <1>4
  <2>2. Root(k) = included_root(p, c[p + 1], SiblingItems(c, p, end))
    BY <1>3, <1>5
  <2> HIDE DEF p, end, Root
  <2>3. Root(k) = c[Ancestor(p, end) + 1]
    BY <2>1, <2>2, OldPeakLeads
  <2> QED BY <1>2, <2>1, <2>3
<1>8. consistent_roots(m, paths, old) = roots[o]
  <2>1. m # 0
    OBVIOUS
  <2> QED BY <1>3, <1>6, <2>1 DEF consistent_roots
<1> HIDE DEF Root, os, o
<1>9. ASSUME NEW k \in 1..o PROVE h[k] = Taken(h, k)
  <2>1. k \in 0..o /\ k - 1 \in 0..o /\ h[k] = Beginning(a, up[k])
    BY <1>3
  <2>2. CASE k = 1
    <3>1. h[k - 1] = <<>> /\ Root(k) = a[1] /\ h[k] = Beginning(a, 0 + 1)
      BY <1>3, <1>4, <1>7, <2>1, <2>2
    <3>2. Beginning(a, 0) = <<>> /\ Beginning(a, 0 + 1) = Append(Beginning(a, 0), a[0 + 1])
      <4> DEFINE z == 0
                 I == Item
      <4>1. a \in Seq(I) /\ z \in Nat /\ z <= Len(a) /\ z < Len(a) /\ z = 0
        BY <1>2
      <4> HIDE DEF z, I
      <4>2. Beginning(a, z) = <<>> /\ Beginning(a, z + 1) = Append(Beginning(a, z), a[z + 1])
        BY <4>1, BeginningGrows
      <4> QED BY <4>2 DEF z
    <3>3. Taken(h, k) = Append(h[k - 1], Root(k))
      BY <2>2
    <3>4. 0 + 1 = 1
      OBVIOUS
    <3>5. Beginning(a, 0 + 1) = Append(<<>>, a[1])
      BY <3>2, <3>4
    <3> HIDE DEF h, Taken
    <3> QED BY <3>1, <3>3, <3>5
  <2>3. CASE k # 1
    <3> DEFINE u == up[k - 1]
               before == k - 1
    <3>1. before \in 1..o /\ before \in 1..(o - 1) /\ before + 1 = k /\ k > 1 /\ before # 0
      BY <1>3, <2>3
    <3>2. /\ h[before] = Beginning(a, u) /\ u \in 1..Len(a) /\ Root(before) = a[u]
          /\ up[k] \in 1..Len(a) /\ Root(k) = a[up[k]]
          /\ up[k] = u \/ up[k] = u + 1
      <4>1. up[before + 1] \in {up[before], up[before] + 1}
        BY <1>4, <3>1
      <4>2. before \in 0..o /\ h[before] = Beginning(a, up[before])
        BY <3>1
      <4> HIDE DEF h
      <4> QED BY <1>4, <1>7, <3>1, <4>1, <4>2
    <3>3. Taken(h, k) = IF Root(k) = Root(before) THEN h[before] ELSE Append(h[before], Root(k))
      BY <3>1
    <3> HIDE DEF h, u, before, Taken
    <3>4. CASE up[k] = u
      BY <2>1, <3>2, <3>3, <3>4
    <3>5. CASE up[k] = u + 1
      <4>1. u \in Nat /\ u < Len(a) /\ u <= Len(a) /\ u \in 1..(Len(a) - 1)
        BY <1>2, <3>2, <3>5
      <4>2. a[u + 1] # a[u]
        BY <1>2, <4>1
      <4>3. Beginning(a, u + 1) = Append(Beginning(a, u), a[u + 1])
        BY <1>2, <4>1, BeginningGrows
      <4> QED BY <2>1, <3>2, <3>3, <3>5, <4>2, <4>3
    <3> QED BY <3>2, <3>4, <3>5
  <2> QED BY <2>2, <2>3
<1>10. h = [k \in 0..o |-> IF k = 0 THEN <<>> ELSE Taken(h, k)]
  <2> SUFFICES ASSUME NEW k \in 0..o PROVE h[k] = IF k = 0 THEN <<>> ELSE Taken(h, k)
    OBVIOUS
  <2>1. k = 0 \/ k \in 1..o
    BY <1>3
  <2>2. k = 0 => h[k] = <<>>
    BY <1>3
  <2> HIDE DEF h, Taken
  <2> QED BY <1>9, <2>1, <2>2
<1>11. roots = [k \in 0..o |-> IF k = 0 THEN <<>> ELSE Taken(roots, k)]
  <2> HIDE DEF h
  <2> QED BY <1>10
<1> HIDE DEF roots
<1> DEFINE S == {k \in Nat : k <= o => roots[k] = h[k]}
<1>12. 0 \in S
  <2>1. 0 \in 0..o /\ h[0] = <<>>
    BY <1>3
  <2>2. roots[0] = <<>>
    BY <1>11, <2>1
  <2> QED BY <2>1, <2>2
<1>13. ASSUME NEW k \in Nat, k \in S PROVE k + 1 \in S
  <2> SUFFICES ASSUME k + 1 <= o PROVE roots[k + 1] = h[k + 1]
    OBVIOUS
  <2> DEFINE next == k + 1
  <2>1. next \in 0..o /\ next # 0 /\ next \in 1..o /\ next - 1 = k /\ k <= o
    BY <1>3
  <2>2. roots[k] = h[k]
    BY <1>13, <2>1
  <2> HIDE DEF next, h
  <2>3. roots[next] = Taken(roots, next)
    <3> HIDE DEF Taken
    <3> QED BY <1>11, <2>1
  <2>4. Taken(roots, next) = Taken(h, next)
    BY <2>1, <2>2
  <2>5. roots[next] = h[next]
    <3> HIDE DEF Taken
    <3> QED BY <1>9, <2>1, <2>3, <2>4
  <2> QED BY <2>5 DEF next
<1>14. roots[o] = Beginning(a, up[o]) /\ up[o] \in 1..Len(a)
  <2>1. Nat \subseteq S
    <3> HIDE DEF S
    <3> QED BY <1>12, <1>13, SetInduction
  <2>2. o \in 0..o /\ o # 0 /\ o \in 1..o
    BY <1>3
  <2>3. h[o] = Beginning(a, up[o])
    BY <2>2
  <2>4. roots[o] = h[o]
    <3>1. o \in S /\ o <= o
      BY <1>3, <2>1
    <3> HIDE DEF h
    <3> QED BY <3>1
  <2> QED BY <1>4, <2>2, <2>3, <2>4
<1> QED BY <1>8, <1>14 DEF a, old, paths

\* The accumulators in terms of the content.
LEMMA AccumulatorsAre ==
  ASSUME Invariants, Answering, mmr_size # 0
  PROVE  /\ \A m \in 1..mmr_size : AccumulatorAt(m) = Peaks(content, m)
         /\ get_accumulator = Peaks(content, mmr_size)
<1>1. mmr_size \in Nat \ {0}
  BY AnswersContent DEF Finished
<1>2. ASSUME NEW m \in 1..mmr_size PROVE AccumulatorAt(m) = Peaks(content, m)
  <2>1. m \in Nat \ {0}
    BY <1>1
  <2>2. DOMAIN PeaksMMRIVERIter(m - 1) = 1..Len(PeaksMMRIVERIter(m - 1))
    BY <2>1, PeaksAreRow
  <2> QED BY <2>2 DEF AccumulatorAt, Peaks
<1>3. get_accumulator = AccumulatorAt(mmr_size)
  BY AccumulatorAnswered
<1>4. mmr_size \in 1..mmr_size
  BY <1>1
<1> QED BY <1>2, <1>3, <1>4

\* The empty MMR had no accumulator.
LEMMA EmptyAccumulator == AccumulatorAt(0) = <<>>
<1>1. AccumulatorAt(0) = [k \in DOMAIN <<>> |-> content[<<>>[k] + 1]]
  BY NoPeaks DEF AccumulatorAt
<1>2. DOMAIN <<>> = {}
  OBVIOUS
<1> QED BY <1>1, <1>2

\* If the size wraps around, the proof from size zero leads nowhere.
LEMMA NothingFromEmpty ==
  ASSUME ~OverflowChecks
  PROVE  consistent_roots(0, <<>>, <<>>) = <<>>
<1>1. PeaksMMRIVERIter(0 - 1) = <<>>
  BY NoPeaks
<1> DEFINE peaks == PeaksMMRIVERIter(0 - 1)
           Root(k) == included_root(peaks[k], <<>>[k], <<>>[k])
           Taken(roots, k) == IF k > 1 /\ Root(k) = Root(k - 1) THEN roots[k - 1]
                              ELSE Append(roots[k - 1], Root(k))
           roots[k \in 0..Len(peaks)] == IF k = 0 THEN <<>> ELSE Taken(roots, k)
           h == [k \in 0..Len(peaks) |-> <<>>]
<1>3. consistent_roots(0, <<>>, <<>>) = roots[Len(peaks)]
  <2>1. Len(peaks) = Len(<<>>)
    BY <1>1
  <2> QED BY <2>1 DEF consistent_roots
<1>4. Len(peaks) = 0
  BY <1>1
<1> HIDE DEF Taken, peaks
<1>5. h = [k \in 0..Len(peaks) |-> IF k = 0 THEN <<>> ELSE Taken(h, k)]
  BY <1>4
<1>6. roots = [k \in 0..Len(peaks) |-> IF k = 0 THEN <<>> ELSE Taken(roots, k)]
  <2> HIDE DEF h
  <2> QED BY <1>5
<1> HIDE DEF roots
<1>7. roots[0] = <<>>
  <2>1. 0 \in 0..Len(peaks)
    BY <1>4
  <2> QED BY <1>6, <2>1
<1> QED BY <1>3, <1>4, <1>7

\* In every state: the proof from every earlier size is accepted for the accumulator
\* of that size and the present one, from size zero if that wraps around.  Every old peak climbs to its
\* new peak, and as the old ones are in order, so are those.
THEOREM ConsistenciesVerify == RiverSpec => []ConsistencyVerifies
<1>1. ASSUME Invariants PROVE ConsistencyVerifies
  <2> SUFFICES ASSUME Answering, mmr_size > 0, NEW from \in FinishedSizes \cap 0..mmr_size,
                      from > 0 \/ ~OverflowChecks
               PROVE  consistency_verify(from, ProofFrom(from), AccumulatorAt(from),
                                         get_accumulator) = TRUE
    BY DEF ConsistencyVerifies
  <2> DEFINE a == get_accumulator
             proven == consistent_roots(from, ProofFrom(from), AccumulatorAt(from))
  <2>1. /\ Finished(content, mmr_size) /\ mmr_size \in Nat \ {0} /\ H(mmr_size) = 0
        /\ from \in Nat /\ H(from) = 0 /\ from <= mmr_size
    BY <1>1, AnswersContent, SizesFinished DEF Finished
  <2>2. proven \in Seq(Item) /\ InOrder(proven, a)
    <3>1. CASE from = 0
      <4>1. ProofFrom(from) = <<>>
        BY <3>1 DEF ProofFrom
      <4>2. proven = <<>>
        BY <3>1, <4>1, EmptyAccumulator, NothingFromEmpty
      <4>3. <<>> \in Seq(Item)
        OBVIOUS
      <4> HIDE DEF proven, a
      <4> QED BY <4>2, <4>3 DEF InOrder
    <3>2. CASE from # 0
      <4>1. from \in 1..mmr_size /\ mmr_size \in 1..mmr_size
        BY <2>1, <3>2
      <4>2. PICK l, up : PeaksClimb(from, mmr_size, l, up)
        BY <2>1, <4>1, OldPeaksClimb
      <4>3. ProofFrom(from) = Climbing(content, from, l)
        BY <1>1, <3>2, <4>1, <4>2, ConsistencyGenerated DEF ProofFrom, Climbing
      <4>4. AccumulatorAt(from) = Peaks(content, from) /\ a = Peaks(content, mmr_size)
        BY <1>1, <2>1, <4>1, AccumulatorsAre
      <4> HIDE DEF a
      <4>5. PICK u \in 1..Len(a) : proven = Beginning(a, u)
        BY <2>1, <4>1, <4>2, <4>3, <4>4, OldPeaksLead
      <4>6. a \in Seq(Item) /\ \A j \in 1..(Len(a) - 1) : a[j] # a[j + 1]
        BY <2>1, <4>1, <4>4, PeaksAreItems
      <4> HIDE DEF proven
      <4> DEFINE I == Item
      <4>7. a \in Seq(I) /\ u \in Nat /\ u <= Len(a)
        BY <4>6
      <4> HIDE DEF I
      <4>8. InOrder(Beginning(a, u), a)
        BY <4>6, <4>7, BeginningInOrder
      <4>9. Beginning(a, u) \in Seq(I)
        BY <4>7, BeginningGrows
      <4> QED BY <4>5, <4>8, <4>9 DEF I
    <3> QED BY <3>1, <3>2
  <2>3. proven # None /\ proven # Panic
    BY <2>2, NoneIsNoVec, PanicIsNoResult
  <2>4. InOrder(proven, a) = TRUE
    <3> HIDE DEF proven, a
    <3> QED BY <2>2
  <2> HIDE DEF proven, a
  <2> QED BY <2>3, <2>4 DEF consistency_verify, proven, a
<1> QED BY <1>1, InvariantsHold, PTL

-----------------------------------------------------------------------------
(* An accumulator of another size is refused.                              *)

\* If roots are in order in a, all of them are there.
LEMMA InOrderAreAmong ==
  ASSUME NEW T, NEW a \in Seq(T), NEW roots \in Seq(T), InOrder(roots, a)
  PROVE  \A k \in 1..Len(roots) : \E j \in 1..Len(a) : a[j] = roots[k]
<1> DEFINE m == Len(roots)
           L == Len(a)
           D == 0..m
           N == Nat \ {0}
           Next1(at, k) ==
             CASE at > Len(a) -> at
               [] a[at] = roots[k] -> at
               [] at < Len(a) /\ a[at + 1] = roots[k] -> at + 1
               [] OTHER -> Len(a) + 1
           stop == {0}
           next == [k \in D |-> IF k = 0 THEN 0 ELSE k - 1]
           exit == [k \in D |-> 1]
           join == [call \in D \X N |-> Next1(call[2], call[1])]
           rank == [k \in D |-> k]
           idx[k \in 0..Len(roots)] == IF k = 0 THEN 1 ELSE Next1(idx[k - 1], k)
<1>1. m \in Nat /\ L \in Nat
  OBVIOUS
<1>2. ASSUME NEW k, NEW at \in N
      PROVE  /\ Next1(at, k) \in N
             /\ Next1(at, k) <= L => at <= L /\ a[Next1(at, k)] = roots[k]
  <2>1. CASE at > L
    BY <1>1, <2>1
  <2>2. CASE ~(at > L)
    BY <1>1, <2>2
  <2> QED BY <2>1, <2>2
<1>3. roots = <<>> \/ idx[m] <= L
  BY DEF InOrder
<1> HIDE DEF Next1, m, L
<1>4. IsLoop(D, N, stop, next, exit, join, rank)
  <2>1. next \in [D -> D] /\ rank \in [D -> Nat] /\ exit \in [D -> N]
    BY <1>1
  <2>2. join \in [D \X N -> N]
    <3>1. \A call \in D \X N : Next1(call[2], call[1]) \in N
      <4> HIDE DEF D, N
      <4> QED BY <1>2
    <3> HIDE DEF D, N
    <3> QED BY <3>1
  <2>3. \A k \in D \ stop : rank[next[k]] < rank[k]
    BY <1>1
  <2> HIDE DEF D, N, stop, next, exit, join, rank
  <2> QED BY <2>1, <2>2, <2>3 DEF IsLoop
<1>5. PICK f \in [D -> N] : Loop(f, D, stop, next, exit, join)
  <2> HIDE DEF D, N, stop, next, exit, join, rank
  <2> QED BY <1>4, LoopHasResult
<1>6. f = [k \in 0..m |-> IF k = 0 THEN 1 ELSE Next1(f[k - 1], k)]
  <2> SUFFICES ASSUME NEW k \in D PROVE f[k] = IF k = 0 THEN 1 ELSE Next1(f[k - 1], k)
    <3> HIDE DEF N
    <3> QED BY <1>5
  <2>1. f[k] = IF k \in stop THEN exit[k] ELSE join[<<k, f[next[k]]>>]
    <3> HIDE DEF D, N, stop, next, exit, join
    <3> QED BY <1>5 DEF Loop
  <2>2. CASE k = 0
    BY <2>1, <2>2
  <2>3. CASE k # 0
    <3>1. next[k] = k - 1 /\ k - 1 \in D /\ k \notin stop
      BY <1>1, <2>3
    <3>2. f[k - 1] \in N
      <4> HIDE DEF D, N
      <4> QED BY <1>5, <3>1
    <3> HIDE DEF D, N, next, stop
    <3>3. join[<<k, f[k - 1]>>] = Next1(f[k - 1], k)
      BY <3>2
    <3> HIDE DEF join
    <3> QED BY <2>1, <2>3, <3>1, <3>3
  <2> QED BY <2>2, <2>3
<1>7. idx = [k \in 0..m |-> IF k = 0 THEN 1 ELSE Next1(idx[k - 1], k)]
  <2>1. f = [k \in 0..Len(roots) |-> IF k = 0 THEN 1 ELSE Next1(f[k - 1], k)]
    BY <1>6 DEF m
  <2> QED BY <2>1 DEF m
<1> HIDE DEF idx
<1> DEFINE S == {k \in Nat : k <= m => idx[k] \in N}
<1>8. 0 \in S
  <2>1. 0 \in 0..m
    BY <1>1
  <2>2. idx[0] = 1
    BY <1>7, <2>1
  <2> QED BY <2>2
<1>9. ASSUME NEW k \in Nat, k \in S PROVE k + 1 \in S
  <2> SUFFICES ASSUME k + 1 <= m PROVE idx[k + 1] \in N
    OBVIOUS
  <2> DEFINE l == k + 1
  <2>1. l \in 0..m /\ l # 0 /\ l - 1 = k /\ k <= m
    BY <1>1
  <2>2. idx[k] \in N
    BY <1>9, <2>1
  <2> HIDE DEF l, N
  <2>3. idx[l] = Next1(idx[k], l)
    BY <1>7, <2>1
  <2> QED BY <1>2, <2>2, <2>3 DEF l
<1>10. \A k \in 0..m : idx[k] \in N
  <2>1. Nat \subseteq S
    <3> HIDE DEF S
    <3> QED BY <1>8, <1>9, SetInduction
  <2> HIDE DEF N
  <2> QED BY <1>1, <2>1
<1>11. ASSUME NEW k \in 1..m
       PROVE  idx[k] <= L => idx[k - 1] <= L /\ a[idx[k]] = roots[k]
  <2>1. k \in 0..m /\ k # 0 /\ k - 1 \in 0..m
    BY <1>1
  <2> HIDE DEF N
  <2>2. idx[k] = Next1(idx[k - 1], k) /\ idx[k - 1] \in N
    BY <1>7, <1>10, <2>1
  <2> QED BY <1>2, <2>2
<1> DEFINE R == {d \in Nat : d <= m => idx[m - d] <= L}
<1>12. CASE m = 0
  BY <1>12 DEF m
<1>13. CASE m # 0
  <2>1. 0 \in R
    <3>1. roots # <<>> /\ m - 0 = m
      BY <1>1, <1>13 DEF m
    <3> QED BY <1>3, <3>1
  <2>2. ASSUME NEW d \in Nat, d \in R PROVE d + 1 \in R
    <3> SUFFICES ASSUME d + 1 <= m PROVE idx[m - (d + 1)] <= L
      OBVIOUS
    <3> DEFINE k == m - d
    <3>1. k \in 1..m /\ k - 1 = m - (d + 1) /\ d <= m
      BY <1>1
    <3>2. idx[k] <= L
      BY <2>2, <3>1
    <3> HIDE DEF k
    <3> QED BY <1>11, <3>1, <3>2
  <2>3. Nat \subseteq R
    <3> HIDE DEF R
    <3> QED BY <2>1, <2>2, SetInduction
  <2>4. ASSUME NEW k \in 1..m PROVE \E j \in 1..L : a[j] = roots[k]
    <3>1. m - k \in Nat /\ m - k <= m /\ m - (m - k) = k /\ k \in 0..m
      BY <1>1
    <3>2. idx[k] <= L
      BY <2>3, <3>1
    <3>3. idx[k] \in 1..L
      BY <1>1, <1>10, <3>1, <3>2
    <3> QED BY <1>11, <3>2, <3>3
  <2> QED BY <2>4 DEF m, L
<1> QED BY <1>12, <1>13

\* The root of the kth old peak, with the kth path.
RootOf(m, old, paths, k) == included_root(PeaksMMRIVERIter(m - 1)[k], old[k], paths[k])

\* It is an item.
LEMMA RootsAreItems ==
  ASSUME NEW m \in Nat \ {0}, NEW old \in Seq(Item), NEW paths \in Seq(Seq(Item)),
         Len(PeaksMMRIVERIter(m - 1)) = Len(old), Len(PeaksMMRIVERIter(m - 1)) = Len(paths)
  PROVE  \A k \in 1..Len(paths) : RootOf(m, old, paths, k) \in Item
<1> DEFINE os == PeaksMMRIVERIter(m - 1)
<1>1. Len(os) \in Nat /\ \A k \in 1..Len(os) : os[k] \in 0..(m - 1)
  BY PeaksAreRow
<1>2. ASSUME NEW k \in 1..Len(paths) PROVE RootOf(m, old, paths, k) \in Item
  <2> DEFINE p == os[k]
             x == old[k]
             path == paths[k]
             I == Item
             Q == Seq(I)
  <2>1. p \in Nat
    BY <1>1
  <2>2. x \in I
    <3>1. old \in Seq(I) /\ k \in 1..Len(old)
      OBVIOUS
    <3> HIDE DEF I
    <3> QED BY <3>1
  <2>3. path \in Q
    <3>1. paths \in Seq(Q)
      OBVIOUS
    <3> HIDE DEF Q
    <3> QED BY <3>1
  <2>4. RootOf(m, old, paths, k) = included_root(p, x, path)
    BY DEF RootOf
  <2> HIDE DEF p, x, path
  <2>5. PICK r : ClimbsBy(r, p, x, path) /\ included_root(p, x, path) = r[Len(path)]
    BY <2>1, <2>2, <2>3, IncludedRootClimbs
  <2>6. Len(path) \in Nat
    BY <2>3
  <2>7. r \in [0..Len(path) -> Item] /\ Len(path) \in 0..Len(path)
    BY <2>5, <2>6 DEF ClimbsBy
  <2> QED BY <2>4, <2>5, <2>7
<1> QED BY <1>2

\* All of them are among what consistent_roots returns.
LEMMA RootsKept ==
  ASSUME NEW m \in Nat \ {0}, NEW old \in Seq(Item), NEW paths \in Seq(Seq(Item)),
         Len(PeaksMMRIVERIter(m - 1)) = Len(old), Len(PeaksMMRIVERIter(m - 1)) = Len(paths)
  PROVE  LET kept == consistent_roots(m, paths, old)
         IN  /\ kept \in Seq(Item)
             /\ \A k \in 1..Len(paths) :
                  \E j \in 1..Len(kept) : kept[j] = RootOf(m, old, paths, k)
<1> DEFINE os == PeaksMMRIVERIter(m - 1)
           o == Len(os)
           Root(k) == RootOf(m, old, paths, k)
           Q == Seq(Item)
           D == 0..o
           Taken(below, k) == IF k > 1 /\ Root(k) = Root(k - 1) THEN below
                              ELSE Append(below, Root(k))
           stop == {0}
           next == [k \in D |-> IF k = 0 THEN 0 ELSE k - 1]
           exit == [k \in D |-> <<>>]
           join == [call \in D \X Q |-> IF call[1] = 0 THEN <<>> ELSE Taken(call[2], call[1])]
           rank == [k \in D |-> k]
           roots[k \in 0..o] == IF k = 0 THEN <<>> ELSE Taken(roots[k - 1], k)
           Among(x, kept) == \E j \in 1..Len(kept) : kept[j] = x
<1>1. o \in Nat /\ \A k \in 1..o : Root(k) \in Item
  <2>1. o \in Nat
    BY PeaksAreRow
  <2> QED BY <2>1, RootsAreItems
<1>2. consistent_roots(m, paths, old) = roots[o]
  <2>1. m # 0
    OBVIOUS
  <2> QED BY <2>1 DEF consistent_roots, RootOf
<1> HIDE DEF Root, o
<1>3. ASSUME NEW k \in 1..o, NEW below \in Q
      PROVE  /\ Taken(below, k) \in Q
             /\ \A x : Among(x, below) => Among(x, Taken(below, k))
             /\ Taken(below, k) = below => k > 1 /\ Root(k) = Root(k - 1)
             /\ Taken(below, k) # below => Among(Root(k), Taken(below, k))
  <2> DEFINE x == Root(k)
             I == Item
             more == Append(below, x)
  <2>1. x \in I /\ below \in Seq(I)
    BY <1>1
  <2> HIDE DEF x, I
  <2>2. /\ more \in Seq(I) /\ Len(below) \in Nat /\ Len(more) = Len(below) + 1
        /\ more[Len(more)] = x /\ \A j \in 1..Len(below) : more[j] = below[j]
    BY <2>1
  <2> HIDE DEF more
  <2>3. Len(more) \in 1..Len(more) /\ \A j \in 1..Len(below) : j \in 1..Len(more)
    BY <2>2
  <2>4. Among(x, more) /\ (\A y : Among(y, below) => Among(y, more)) /\ more # below
    <3>1. Among(x, more)
      BY <2>2, <2>3
    <3>2. ASSUME NEW y, Among(y, below) PROVE Among(y, more)
      <4>1. PICK j \in 1..Len(below) : below[j] = y
        BY <3>2
      <4>2. j \in 1..Len(more) /\ more[j] = y
        BY <2>2, <2>3, <4>1
      <4> QED BY <4>2
    <3>3. more # below
      <4>1. Len(below) # Len(more)
        BY <2>2
      <4> QED BY <4>1
    <3> HIDE DEF Among
    <3> QED BY <3>1, <3>2, <3>3
  <2>5. Taken(below, k) = IF k > 1 /\ Root(k) = Root(k - 1) THEN below ELSE more
    BY DEF more, x
  <2> HIDE DEF Among, Taken
  <2> QED BY <2>1, <2>2, <2>4, <2>5 DEF x, I
<1>4. <<>> \in Q
  OBVIOUS
<1> HIDE DEF Taken, Q
<1>5. IsLoop(D, Q, stop, next, exit, join, rank)
  <2>1. next \in [D -> D] /\ rank \in [D -> Nat] /\ exit \in [D -> Q]
    BY <1>1, <1>4
  <2>2. join \in [D \X Q -> Q]
    <3>1. ASSUME NEW call \in D \X Q
          PROVE  (IF call[1] = 0 THEN <<>> ELSE Taken(call[2], call[1])) \in Q
      <4>1. call[1] \in D /\ call[2] \in Q /\ (call[1] = 0 \/ call[1] \in 1..o)
        BY <1>1
      <4> HIDE DEF D
      <4> QED BY <1>3, <1>4, <4>1
    <3> HIDE DEF D
    <3> QED BY <3>1
  <2>3. \A k \in D \ stop : rank[next[k]] < rank[k]
    BY <1>1
  <2> HIDE DEF D, stop, next, exit, join, rank
  <2> QED BY <2>1, <2>2, <2>3 DEF IsLoop
<1>6. PICK f \in [D -> Q] : Loop(f, D, stop, next, exit, join)
  <2> HIDE DEF D, stop, next, exit, join, rank
  <2> QED BY <1>5, LoopHasResult
<1>7. f = [k \in 0..o |-> IF k = 0 THEN <<>> ELSE Taken(f[k - 1], k)]
  <2> SUFFICES ASSUME NEW k \in D PROVE f[k] = IF k = 0 THEN <<>> ELSE Taken(f[k - 1], k)
    BY <1>6
  <2>1. f[k] = IF k \in stop THEN exit[k] ELSE join[<<k, f[next[k]]>>]
    <3> HIDE DEF D, stop, next, exit, join
    <3> QED BY <1>6 DEF Loop
  <2>2. CASE k = 0
    BY <2>1, <2>2
  <2>3. CASE k # 0
    <3>1. next[k] = k - 1 /\ k - 1 \in D /\ k \notin stop
      BY <1>1, <2>3
    <3>2. f[k - 1] \in Q
      <4> HIDE DEF D
      <4> QED BY <1>6, <3>1
    <3> HIDE DEF D, next, stop
    <3>3. join[<<k, f[k - 1]>>] = Taken(f[k - 1], k)
      BY <2>3, <3>2
    <3> HIDE DEF join
    <3> QED BY <2>1, <2>3, <3>1, <3>3
  <2> QED BY <2>2, <2>3
<1>8. roots = [k \in 0..o |-> IF k = 0 THEN <<>> ELSE Taken(roots[k - 1], k)]
  BY <1>7
<1> HIDE DEF roots, Among
<1> DEFINE S == {k \in Nat : k <= o =>
                   roots[k] \in Q /\ \A l \in 1..k : Among(Root(l), roots[k])}
<1>9. 0 \in S
  <2>1. 0 \in 0..o
    BY <1>1
  <2>2. roots[0] = <<>>
    BY <1>8, <2>1
  <2>3. \A l \in 1..0 : FALSE
    OBVIOUS
  <2> QED BY <1>4, <2>2, <2>3
<1>10. ASSUME NEW k \in Nat, k \in S PROVE k + 1 \in S
  <2> DEFINE n == k + 1
  <2> SUFFICES ASSUME n <= o
               PROVE  roots[n] \in Q /\ \A l \in 1..n : Among(Root(l), roots[n])
    OBVIOUS
  <2>1. n \in 0..o /\ n # 0 /\ n \in 1..o /\ n - 1 = k /\ k <= o
    BY <1>1
  <2>2. roots[k] \in Q /\ \A l \in 1..k : Among(Root(l), roots[k])
    BY <1>10, <2>1
  <2>3. \A l \in 1..n : l \in 1..k \/ l = n
    OBVIOUS
  <2>4. n > 1 => k \in 1..k
    OBVIOUS
  <2> HIDE DEF n
  <2>5. roots[n] = Taken(roots[k], n)
    BY <1>8, <2>1
  <2>6. roots[n] \in Q /\ \A l \in 1..k : Among(Root(l), roots[n])
    BY <1>3, <2>1, <2>2, <2>5
  <2>7. Among(Root(n), roots[n])
    <3>1. CASE roots[n] = roots[k]
      <4>1. n > 1 /\ Root(n) = Root(k)
        BY <1>3, <2>1, <2>2, <2>5, <3>1
      <4> QED BY <2>4, <2>6, <4>1
    <3>2. CASE roots[n] # roots[k]
      BY <1>3, <2>1, <2>2, <2>5, <3>2
    <3> QED BY <3>1, <3>2
  <2> QED BY <2>3, <2>6, <2>7
<1>11. roots[o] \in Q /\ \A l \in 1..o : Among(Root(l), roots[o])
  <2>1. Nat \subseteq S
    <3> HIDE DEF S
    <3> QED BY <1>9, <1>10, SetInduction
  <2> QED BY <1>1, <2>1
<1> QED BY <1>2, <1>11 DEF Q, Among, Root, o

\* If a proof is accepted, every old peak leads to one of the new ones.
LEMMA AcceptedLeads ==
  ASSUME NEW m \in Nat \ {0}, NEW old \in Seq(Item), NEW paths \in Seq(Seq(Item)),
         NEW a \in Seq(Item), consistency_verify(m, paths, old, a) = TRUE
  PROVE  /\ Len(PeaksMMRIVERIter(m - 1)) = Len(old)
         /\ Len(PeaksMMRIVERIter(m - 1)) = Len(paths)
         /\ \A k \in 1..Len(paths) :
              \E j \in 1..Len(a) : a[j] = RootOf(m, old, paths, k)
<1> DEFINE kept == consistent_roots(m, paths, old)
           I == Item
<1>1. kept # None /\ InOrder(kept, a)
  <2>1. consistency_verify(m, paths, old, a)
          = IF kept \in {None, Panic} THEN kept ELSE InOrder(kept, a)
    BY DEF consistency_verify
  <2> HIDE DEF kept
  <2>2. kept # None /\ kept # Panic
    BY <2>1, NoneIsNoBool, PanicIsNoResult
  <2> QED BY <2>1, <2>2
<1>2. Len(PeaksMMRIVERIter(m - 1)) = Len(old) /\ Len(PeaksMMRIVERIter(m - 1)) = Len(paths)
  <2>1. m # 0
    OBVIOUS
  <2> QED BY <1>1, <2>1 DEF consistent_roots
<1>3. /\ kept \in Seq(Item)
      /\ \A k \in 1..Len(paths) :
           \E j \in 1..Len(kept) : kept[j] = RootOf(m, old, paths, k)
  BY <1>2, RootsKept
<1> HIDE DEF kept
<1>4. \A k \in 1..Len(kept) : \E j \in 1..Len(a) : a[j] = kept[k]
  <2>1. a \in Seq(I) /\ kept \in Seq(I)
    BY <1>3
  <2> HIDE DEF I
  <2> QED BY <1>1, <2>1, InOrderAreAmong
<1> QED BY <1>2, <1>3, <1>4

\* The paths of the proof, and where they lead.
LEMMA ClimbingPaths ==
  ASSUME NEW c, NEW n, Finished(c, n), NEW m \in 1..n, H(m) = 0,
         NEW l, NEW up, PeaksClimb(m, n, l, up)
  PROVE  /\ Climbing(c, m, l) \in Seq(Seq(Item))
         /\ Len(Climbing(c, m, l)) = Len(PeaksMMRIVERIter(m - 1))
         /\ \A k \in 1..Len(PeaksMMRIVERIter(m - 1)) :
              LET p == PeaksMMRIVERIter(m - 1)[k]
              IN  /\ p \in 0..(n - 1) /\ p \in 0..(m - 1) /\ ClimbEnds(p, l[k], n - 1)
                  /\ Climbing(c, m, l)[k] = SiblingItems(c, p, l[k])
<1> DEFINE os == PeaksMMRIVERIter(m - 1)
           o == Len(os)
           paths == Climbing(c, m, l)
<1>1. n \in Nat \ {0} /\ m \in Nat \ {0} /\ m <= n
  BY DEF Finished
<1>2. o \in Nat \ {0} /\ \A k \in 1..o : os[k] \in 0..(m - 1)
  BY <1>1, PeaksAreRow
<1>3. ASSUME NEW k \in 1..o
      PROVE  /\ os[k] \in 0..(n - 1) /\ os[k] \in 0..(m - 1) /\ ClimbEnds(os[k], l[k], n - 1)
             /\ SiblingItems(c, os[k], l[k]) \in Seq(Item)
  <2> DEFINE p == os[k]
             end == l[k]
  <2>1. p \in 0..(n - 1) /\ p \in 0..(m - 1) /\ ClimbEnds(p, end, n - 1)
    BY <1>1, <1>2 DEF PeaksClimb
  <2> HIDE DEF p, end
  <2>2. SiblingItems(c, p, end) \in Seq(Item)
    BY <2>1, SiblingsAreItems
  <2> QED BY <2>1, <2>2 DEF p, end
<1>4. paths = [k \in 1..o |-> SiblingItems(c, os[k], l[k])]
  BY DEF Climbing
<1> HIDE DEF paths
<1>5. paths \in Seq(Seq(Item)) /\ Len(paths) = o
  <2> DEFINE Q == Seq(Item)
             item(k) == SiblingItems(c, os[k], l[k])
  <2>1. \A k \in 1..o : item(k) \in Q
    BY <1>3
  <2>2. paths = [k \in 1..o |-> item(k)]
    BY <1>4
  <2> HIDE DEF Q, item, o
  <2>3. paths \in Seq(Q) /\ Len(paths) = o
    BY <1>2, <2>1, <2>2
  <2> QED BY <2>3 DEF Q
<1>6. \A k \in 1..o : paths[k] = SiblingItems(c, os[k], l[k])
  BY <1>4
<1> QED BY <1>3, <1>5, <1>6 DEF paths

\* A path without items leads nowhere.
LEMMA NoClimb ==
  ASSUME NEW p \in Nat, NEW x \in Item
  PROVE  included_root(p, x, <<>>) = x
<1>1. <<>> \in Seq(Item) /\ Len(<<>>) = 0
  OBVIOUS
<1>2. PICK r : ClimbsBy(r, p, x, <<>>) /\ included_root(p, x, <<>>) = r[Len(<<>>)]
  BY <1>1, IncludedRootClimbs
<1> QED BY <1>1, <1>2 DEF ClimbsBy

\* An item that an old peak's path leads to the accumulator is the old peak's own, or
\* the old peak is a peak still, and the item that of some peak.
LEMMA OldPeakBinds ==
  ASSUME Invariants, Answering, mmr_size # 0, AllDifferent,
         NEW p \in 0..(mmr_size - 1), NEW l, ClimbEnds(p, l, mmr_size - 1),
         NEW q \in 0..(mmr_size - 1), NEW j \in DOMAIN get_accumulator,
         included_root(p, content[q + 1], SiblingItems(content, p, l)) = get_accumulator[j]
  PROVE  q = p \/ (l = 0 /\ q = PeaksMMRIVERIter(mmr_size - 1)[j])
<1> DEFINE path == SiblingItems(content, p, l)
           x == content[q + 1]
           n == mmr_size
           a == get_accumulator
<1>1. /\ Finished(content, n) /\ n \in Nat \ {0} /\ p \in Nat /\ q \in Nat
      /\ content \in Seq(Item) /\ Len(content) = n
  BY AnswersContent DEF Finished
<1>2. /\ l \in Nat /\ path \in Seq(Item) /\ Len(path) = l
      /\ \A k \in 1..l : /\ SiblingAt(p, k - 1) \in 0..(n - 1)
                         /\ path[k] = content[SiblingAt(p, k - 1) + 1]
  BY <1>1, SiblingsAreItems
<1>3. x \in Term /\ \A k \in 1..l : path[k] \in Term
  BY <1>1, <1>2, ContentIsTerms
<1>4. ASSUME NEW r \in 0..(n - 1), content[r + 1] = x PROVE r = q
  <2>1. r + 1 \in DOMAIN content /\ q + 1 \in DOMAIN content
    BY <1>1
  <2>2. r + 1 = q + 1
    BY <1>4, <2>1 DEF AllDifferent
  <2> QED BY <1>1, <2>2
<1>5. CASE l = 0
  <2>1. path = <<>>
    <3> DEFINE I == Item
    <3>1. path \in Seq(I) /\ Len(path) = 0
      BY <1>2, <1>5
    <3> HIDE DEF path, I
    <3> QED BY <3>1
  <2>2. x \in Item
    BY <1>3, TermsAreItems
  <2> HIDE DEF x, path
  <2>3. included_root(p, x, path) = x
    BY <1>1, <2>1, <2>2, NoClimb
  <2>4. x = a[j]
    BY <2>3 DEF x, path
  <2>5. /\ PeaksMMRIVERIter(n - 1)[j] \in 0..(n - 1)
        /\ a[j] = content[PeaksMMRIVERIter(n - 1)[j] + 1]
    BY AccumulatorAnswered
  <2> HIDE DEF a, n
  <2>6. PeaksMMRIVERIter(n - 1)[j] = q
    BY <1>4, <2>4, <2>5
  <2> QED BY <1>5, <2>6 DEF n
<1>6. CASE l # 0
  <2>1. path \in Seq(Term) /\ path # <<>>
    <3> DEFINE U == Term
               I == Item
    <3>1. path \in Seq(I) /\ Len(path) = l /\ \A k \in 1..l : path[k] \in U
      BY <1>2, <1>3
    <3> HIDE DEF path, U, I
    <3>2. path \in Seq(U) /\ path # <<>>
      BY <1>2, <1>6, <3>1
    <3> QED BY <3>2 DEF U
  <2>2. Binds(Nat, Seq(Term), Term)
    BY EverythingBound
  <2>3. included_root(p, x, path) \in Range(a)
    <3>1. a[j] \in Range(a)
      BY DEF Range
    <3> QED BY <3>1
  <2>4. PeaksMMRIVERIterLen(p) # 0
    <3>1. p + 1 \in Nat \ {0}
      BY <1>1
    <3> QED BY <3>1, SomeOnes DEF PeaksMMRIVERIterLen
  <2> HIDE DEF path, x, a
  <2>5. inclusion_verify(p, path, x, a)
    BY <2>3, <2>4 DEF inclusion_verify
  <2>6. x = content[p + 1]
    BY <1>1, <1>3, <2>1, <2>2, <2>5 DEF Binds, a
  <2> QED BY <1>4, <2>6
<1> QED BY <1>5, <1>6

\* Of a finished row, the peaks give the size.
LEMMA SameRowSameSize ==
  ASSUME NEW os, NEW ss, Row(os), Row(ss), Len(os) = Len(ss),
         \A k \in 1..Len(os) : Before(os, k) = Before(ss, k) => os[k] = ss[k]
  PROVE  Nodes(os) = Nodes(ss)
<1> DEFINE S == {k \in Nat : k <= Len(os) => Before(os, k + 1) = Before(ss, k + 1)}
<1>1. Len(os) \in Nat
  BY RowTypes
<1>2. 0 \in S
  <2>1. 0 + 1 = 1
    OBVIOUS
  <2> QED BY <2>1 DEF Before
<1>3. ASSUME NEW k \in Nat, k \in S PROVE k + 1 \in S
  <2> DEFINE n == k + 1
  <2> SUFFICES ASSUME n <= Len(os) PROVE Before(os, n + 1) = Before(ss, n + 1)
    OBVIOUS
  <2>1. n \in 1..Len(os) /\ n + 1 # 1 /\ (n + 1) - 1 = n /\ k <= Len(os)
    BY <1>1
  <2>2. Before(os, n) = Before(ss, n)
    BY <1>3, <2>1
  <2> HIDE DEF n
  <2>3. os[n] = ss[n]
    BY <2>1, <2>2
  <2> QED BY <2>1, <2>3 DEF Before
<1>4. Nat \subseteq S
  <2> HIDE DEF S
  <2> QED BY <1>2, <1>3, SetInduction
<1> QED BY <1>1, <1>4 DEF Nodes

\* Part one: only the accumulator of that size is accepted as the old one.
LEMMA OldSizeBound ==
  ASSUME Invariants, Answering, mmr_size # 0, AllDifferent,
         NEW m \in 1..mmr_size, H(m) = 0, NEW size \in 1..mmr_size, H(size) = 0,
         consistency_verify(m, ProofFrom(m), AccumulatorAt(size), get_accumulator) = TRUE
  PROVE  size = m
<1> DEFINE n == mmr_size
           os == PeaksMMRIVERIter(m - 1)
           ss == PeaksMMRIVERIter(size - 1)
           ps == PeaksMMRIVERIter(n - 1)
           a == get_accumulator
           old == Peaks(content, size)
<1>1. /\ Finished(content, n) /\ n \in Nat \ {0} /\ H(n) = 0
      /\ m \in Nat \ {0} /\ m <= n /\ size \in Nat \ {0} /\ size <= n
      /\ n \in 1..n
  BY AnswersContent DEF Finished
<1>2. PICK l, up : PeaksClimb(m, n, l, up)
  BY <1>1, OldPeaksClimb
<1> DEFINE paths == Climbing(content, m, l)
<1>3. /\ paths \in Seq(Seq(Item)) /\ Len(paths) = Len(os)
      /\ \A k \in 1..Len(os) : /\ os[k] \in 0..(n - 1) /\ ClimbEnds(os[k], l[k], n - 1)
                               /\ paths[k] = SiblingItems(content, os[k], l[k])
  BY <1>1, <1>2, ClimbingPaths
<1>4. ProofFrom(m) = paths
  BY <1>1, <1>2, ConsistencyGenerated DEF ProofFrom, Climbing
<1>5. AccumulatorAt(size) = old /\ a = Peaks(content, n)
  BY AccumulatorsAre
<1>6. /\ old \in Seq(Item) /\ Len(old) = Len(ss)
      /\ \A k \in 1..Len(ss) : old[k] = content[ss[k] + 1] /\ ss[k] \in 0..(size - 1)
  BY <1>1, PeaksAreItems
<1>7. a \in Seq(Item)
  BY <1>1, <1>5, PeaksAreItems
<1>8. /\ Len(os) = Len(old)
      /\ \A k \in 1..Len(paths) : \E j \in 1..Len(a) : a[j] = RootOf(m, old, paths, k)
  <2>1. consistency_verify(m, paths, old, a) = TRUE
    BY <1>4, <1>5
  <2> HIDE DEF paths, old, a, os
  <2> QED BY <1>1, <1>3, <1>6, <1>7, <2>1, AcceptedLeads DEF os
<1>9. /\ Row(os) /\ Nodes(os) = m /\ Row(ss) /\ Nodes(ss) = size
      /\ Row(ps) /\ DOMAIN ps = 1..Len(ps) /\ DOMAIN a = DOMAIN ps
  BY <1>1, PeaksAreRow, AccumulatorAnswered
<1>10. ASSUME NEW k \in 1..Len(os), Before(os, k) = Before(ss, k) PROVE os[k] = ss[k]
  <2>1. PICK j \in 1..Len(a) : a[j] = RootOf(m, old, paths, k)
    BY <1>3, <1>8
  <2> DEFINE p == os[k]
             q == ss[k]
             end == l[k]
  <2>2. k \in 1..Len(ss) /\ old[k] = content[q + 1] /\ q \in 0..(n - 1)
    <3>1. k \in 1..Len(ss)
      BY <1>6, <1>8
    <3> HIDE DEF ss
    <3>2. old[k] = content[ss[k] + 1] /\ ss[k] \in 0..(size - 1)
      BY <1>6, <3>1
    <3> QED BY <1>1, <3>1, <3>2
  <2>3. p \in 0..(n - 1) /\ ClimbEnds(p, end, n - 1) /\ paths[k] = SiblingItems(content, p, end)
    BY <1>3
  <2>4. included_root(p, content[q + 1], SiblingItems(content, p, end)) = a[j]
    BY <2>1, <2>2, <2>3 DEF RootOf
  <2>5. j \in DOMAIN a
    <3> DEFINE I == Item
    <3>1. a \in Seq(I)
      BY <1>7
    <3> HIDE DEF I, a
    <3> QED BY <2>1, <3>1
  <2>6. q = p \/ (end = 0 /\ q = ps[j])
    <3> HIDE DEF p, q, end
    <3> QED BY <2>2, <2>3, <2>4, <2>5, OldPeakBinds
  <2>7. CASE q = p
    BY <2>7
  <2>8. CASE end = 0 /\ q = ps[j]
    <3>1. up[k] \in 1..Len(ps) /\ ps[up[k]] = Ancestor(p, end)
      BY <1>2 DEF PeaksClimb
    <3>2. Ancestor(p, end) = p
      <4>1. p \in Nat
        BY <2>3
      <4> QED BY <2>8, <4>1, AncestorsClimb
    <3>3. First(p) = Before(os, k) /\ First(q) = Before(ss, k)
      BY <1>9, <2>2, MountainsInOrder
    <3>4. j \in 1..Len(ps)
      BY <1>9, <2>5
    <3> DEFINE u == up[k]
    <3>5. u \in 1..Len(ps) /\ ps[u] = p /\ ps[j] = q
      BY <2>8, <3>1, <3>2
    <3> HIDE DEF p, q, u, ps, os, ss
    <3>6. Before(ps, u) = Before(ps, j)
      <4>1. First(ps[u]) = Before(ps, u) /\ First(ps[j]) = Before(ps, j)
        BY <1>9, <3>4, <3>5, MountainsInOrder
      <4> QED BY <1>10, <3>3, <3>5, <4>1
    <3>7. u = j
      <4>1. /\ Before(ps, u) <= ps[u] /\ Before(ps, j) <= ps[j]
            /\ u < j => ps[u] < Before(ps, j)
            /\ j < u => ps[j] < Before(ps, u)
        BY <1>9, <3>4, <3>5, MountainsInOrder
      <4>2. /\ ps[u] \in Nat /\ ps[j] \in Nat /\ Before(ps, u) \in Nat /\ Before(ps, j) \in Nat
            /\ Len(ps) \in Nat
        BY <1>9, <3>4, <3>5, RowTypes
      <4> QED BY <3>4, <3>5, <3>6, <4>1, <4>2
    <3> QED BY <3>5, <3>7 DEF p, q
  <2> QED BY <2>6, <2>7, <2>8
<1>11. Nodes(os) = Nodes(ss)
  <2>1. Len(os) = Len(ss)
    BY <1>6, <1>8
  <2> HIDE DEF os, ss
  <2> QED BY <1>9, <1>10, <2>1, SameRowSameSize
<1> QED BY <1>9, <1>11

\* Part two: no accumulator from before it is accepted as the new one.
LEMMA NewSizeBound ==
  ASSUME Invariants, Answering, mmr_size # 0, AllDifferent,
         NEW m \in 1..mmr_size, H(m) = 0, NEW size \in 1..mmr_size, H(size) = 0,
         consistency_verify(m, ProofFrom(m), AccumulatorAt(m), AccumulatorAt(size)) = TRUE
  PROVE  m <= size
<1> DEFINE n == mmr_size
           os == PeaksMMRIVERIter(m - 1)
           ss == PeaksMMRIVERIter(size - 1)
           ps == PeaksMMRIVERIter(n - 1)
           o == Len(os)
           a == Peaks(content, size)
           old == Peaks(content, m)
<1>1. /\ Finished(content, n) /\ n \in Nat \ {0} /\ H(n) = 0
      /\ m \in Nat \ {0} /\ m <= n /\ size \in Nat \ {0} /\ size <= n
      /\ Len(content) = n /\ content \in Seq(Item)
  BY AnswersContent DEF Finished
<1>2. PICK l, up : PeaksClimb(m, n, l, up)
  BY <1>1, OldPeaksClimb
<1> DEFINE paths == Climbing(content, m, l)
<1>3. /\ paths \in Seq(Seq(Item)) /\ Len(paths) = Len(os)
      /\ \A k \in 1..Len(os) : /\ os[k] \in 0..(n - 1) /\ ClimbEnds(os[k], l[k], n - 1)
                               /\ paths[k] = SiblingItems(content, os[k], l[k])
  BY <1>1, <1>2, ClimbingPaths
<1>4. ProofFrom(m) = paths
  BY <1>1, <1>2, ConsistencyGenerated DEF ProofFrom, Climbing
<1>5. AccumulatorAt(m) = old /\ AccumulatorAt(size) = a
  BY AccumulatorsAre
<1>6. /\ old \in Seq(Item) /\ Len(old) = o /\ o \in Nat \ {0}
      /\ \A k \in 1..o : old[k] = content[os[k] + 1]
  BY <1>1, PeaksAreItems
<1>7. /\ a \in Seq(Item) /\ Len(a) = Len(ss)
      /\ \A k \in 1..Len(ss) : a[k] = content[ss[k] + 1] /\ ss[k] \in 0..(size - 1)
  BY <1>1, PeaksAreItems
<1>8. PICK j \in 1..Len(a) : a[j] = RootOf(m, old, paths, o)
  <2>1. consistency_verify(m, paths, old, a) = TRUE
    BY <1>4, <1>5
  <2>2. o \in 1..Len(paths)
    BY <1>3, <1>6
  <2>3. paths \in Seq(Seq(Item)) /\ old \in Seq(Item) /\ a \in Seq(Item)
    BY <1>3, <1>6, <1>7
  <2> HIDE DEF paths, old, a, os, o
  <2>4. \A k \in 1..Len(paths) : \E j \in 1..Len(a) : a[j] = RootOf(m, old, paths, k)
    <3>1. m \in Nat \ {0}
      BY <1>1
    <3> QED BY <2>1, <2>3, <3>1, AcceptedLeads
  <2> QED BY <2>2, <2>4
<1> DEFINE p == os[o]
           end == l[o]
           top == Ancestor(p, end)
<1>9. /\ p \in 0..(n - 1) /\ ClimbEnds(p, end, n - 1) /\ p + 1 = m
      /\ RootOf(m, old, paths, o) = content[top + 1]
  <2>1. o \in 1..o
    BY <1>6
  <2>2. p \in 0..(n - 1) /\ ClimbEnds(p, end, n - 1)
        /\ paths[o] = SiblingItems(content, p, end) /\ old[o] = content[p + 1]
    BY <1>3, <1>6, <2>1
  <2>3. RootOf(m, old, paths, o) = included_root(p, content[p + 1], SiblingItems(content, p, end))
    BY <2>2 DEF RootOf
  <2>4. p + 1 = m
    <3>1. Row(os) /\ Nodes(os) = m
      BY <1>1, PeaksAreRow
    <3>2. o + 1 # 1 /\ (o + 1) - 1 = o
      BY <1>6
    <3> QED BY <3>1, <3>2 DEF Nodes, Before
  <2> HIDE DEF p, end, paths, old, o
  <2>5. included_root(p, content[p + 1], SiblingItems(content, p, end)) = content[top + 1]
    BY <1>1, <2>2, OldPeakLeads
  <2> QED BY <2>2, <2>3, <2>4, <2>5
<1>10. content[top + 1] = content[ss[j] + 1] /\ ss[j] \in 0..(size - 1)
  BY <1>7, <1>8, <1>9
<1> HIDE DEF p, end, ss, a, old, paths
<1>11. top \in 0..(n - 1) /\ p <= top
  <2>1. end \in Nat /\ p \in Nat /\ end \in 0..end
    BY <1>9 DEF ClimbEnds
  <2> QED BY <1>1, <1>9, <2>1, NodeClimbs, TreeInAncestors
<1> HIDE DEF top
<1>12. top = ss[j]
  <2>1. top + 1 \in DOMAIN content /\ ss[j] + 1 \in DOMAIN content
    BY <1>1, <1>10, <1>11
  <2>2. top + 1 = ss[j] + 1
    BY <1>10, <2>1 DEF AllDifferent
  <2> QED BY <1>10, <1>11, <2>2
<1> QED BY <1>1, <1>9, <1>10, <1>11, <1>12

\* With size zero on either side.
LEMMA EmptyBound ==
  ASSUME Invariants, Answering, mmr_size # 0, NEW m \in 0..mmr_size, NEW size \in 0..mmr_size,
         NEW a, consistency_verify(m, ProofFrom(m), AccumulatorAt(size), a) = TRUE
  PROVE  m = 0 <=> size = 0
<1>1. mmr_size \in Nat \ {0}
  BY AnswersContent DEF Finished
<1> DEFINE Number(s) == Len(PeaksMMRIVERIter(s - 1))
<1>2. Number(m) = Len(AccumulatorAt(size))
  <2>1. consistent_roots(m, ProofFrom(m), AccumulatorAt(size)) \notin {None, Panic}
    BY NoneIsNoBool, PanicIsNoResult DEF consistency_verify
  <2> QED BY <2>1 DEF consistent_roots
<1>3. ASSUME NEW s \in 0..mmr_size
      PROVE  Number(s) = 0 <=> s = 0
  <2>1. CASE s = 0
    <3>1. Len(<<>>) = 0
      OBVIOUS
    <3> QED BY <2>1, <3>1, NoPeaks
  <2>2. CASE s # 0
    <3>1. s \in Nat \ {0}
      BY <1>1, <2>2
    <3>2. Number(s) \in Nat \ {0}
      BY <3>1, PeaksAreRow
    <3> QED BY <2>2, <3>2
  <2> QED BY <2>1, <2>2
<1>4. Len(AccumulatorAt(size)) = Number(size)
  <2>1. CASE size = 0
    BY <2>1, EmptyAccumulator, NoPeaks
  <2>2. CASE size # 0
    <3>1. size \in Nat \ {0}
      BY <1>1, <2>2
    <3> DEFINE ss == PeaksMMRIVERIter(size - 1)
    <3>2. DOMAIN ss = 1..Len(ss) /\ Len(ss) \in Nat
      BY <3>1, PeaksAreRow
    <3>3. AccumulatorAt(size) = [k \in DOMAIN ss |-> content[ss[k] + 1]]
      BY DEF AccumulatorAt
    <3> HIDE DEF ss
    <3>4. Len(AccumulatorAt(size)) = Len(ss)
      BY <3>2, <3>3
    <3> QED BY <3>4 DEF ss
  <2> QED BY <2>1, <2>2
<1> HIDE DEF Number
<1> QED BY <1>2, <1>3, <1>4

\* The accumulator of the empty MMR is accepted as the new one from no later size.
LEMMA NothingAccepts ==
  ASSUME Invariants, Answering, mmr_size # 0, NEW m \in 1..mmr_size, H(m) = 0,
         consistency_verify(m, ProofFrom(m), AccumulatorAt(m), AccumulatorAt(0)) = TRUE
  PROVE  FALSE
<1> DEFINE n == mmr_size
           os == PeaksMMRIVERIter(m - 1)
           old == Peaks(content, m)
           Q == Seq(Item)
<1>1. Finished(content, n) /\ n \in Nat \ {0} /\ H(n) = 0 /\ m \in Nat \ {0} /\ m <= n
  BY AnswersContent DEF Finished
<1>2. PICK l, up : PeaksClimb(m, n, l, up)
  BY <1>1, OldPeaksClimb
<1> DEFINE paths == Climbing(content, m, l)
<1>3. paths \in Seq(Seq(Item)) /\ Len(paths) = Len(os)
  BY <1>1, <1>2, ClimbingPaths
<1>4. ProofFrom(m) = paths
  BY <1>1, <1>2, ConsistencyGenerated DEF ProofFrom, Climbing
<1>5. AccumulatorAt(m) = old /\ AccumulatorAt(0) = <<>>
  BY AccumulatorsAre, EmptyAccumulator
<1>6. old \in Seq(Item) /\ Len(old) = Len(os) /\ Len(os) \in Nat \ {0}
  BY <1>1, PeaksAreItems
<1>7. << >> \in Q /\ Len(<< >>) = 0
  <2> HIDE DEF Q
  <2> QED BY DEF Q
<1>8. consistency_verify(m, paths, old, <<>>) = TRUE
  BY <1>4, <1>5
<1>9. 1 \in 1..Len(paths)
  BY <1>3, <1>6
<1> DEFINE none == <<>>
<1>10. \A k \in 1..Len(paths) : \E j \in 1..Len(none) : none[j] = RootOf(m, old, paths, k)
  <2>1. paths \in Seq(Seq(Item)) /\ old \in Seq(Item) /\ none \in Seq(Item)
    BY <1>3, <1>6, <1>7
  <2>2. consistency_verify(m, paths, old, none) = TRUE
    BY <1>8
  <2> HIDE DEF paths, old, os, none
  <2> QED BY <1>1, <2>1, <2>2, AcceptedLeads
<1>11. Len(none) = 0
  BY <1>7
<1> HIDE DEF paths, old, os, none
<1> QED BY <1>9, <1>10, <1>11

\* In every state where no two leaves are the same: of all accumulators the MMR has
\* had, a proof from an earlier size is accepted only with that size's as the old one,
\* and with none from before it as the new one.  Paths bind the old peaks that have
\* climbed; one that is a peak still is bound by where its mountain begins.
THEOREM ConsistenciesBindSizes == RiverSpec => []ConsistencyBindsSizes
<1>1. ASSUME Invariants PROVE ConsistencyBindsSizes
  <2> SUFFICES ASSUME Answering, AllDifferent, mmr_size > 0,
                      NEW from \in FinishedSizes \cap 0..mmr_size,
                      NEW size \in FinishedSizes \cap 0..mmr_size
               PROVE  /\ consistency_verify(from, ProofFrom(from), AccumulatorAt(size),
                                            get_accumulator) = TRUE
                         => size = from
                      /\ consistency_verify(from, ProofFrom(from), AccumulatorAt(from),
                                            AccumulatorAt(size)) = TRUE
                         => from <= size
    BY DEF ConsistencyBindsSizes
  <2>1. /\ mmr_size \in Nat \ {0}
        /\ from \in Nat /\ H(from) = 0 /\ from <= mmr_size
        /\ size \in Nat /\ H(size) = 0 /\ size <= mmr_size
    BY <1>1, AnswersContent, SizesFinished DEF Finished
  <2>2. ASSUME consistency_verify(from, ProofFrom(from), AccumulatorAt(size),
                                  get_accumulator) = TRUE
        PROVE  size = from
    <3>1. from = 0 <=> size = 0
      BY <1>1, <2>1, <2>2, EmptyBound
    <3>2. CASE from = 0
      BY <3>1, <3>2
    <3>3. CASE from # 0
      <4>1. from \in 1..mmr_size /\ size \in 1..mmr_size
        BY <2>1, <3>1, <3>3
      <4> QED BY <1>1, <2>1, <2>2, <4>1, OldSizeBound
    <3> QED BY <3>2, <3>3
  <2>3. ASSUME consistency_verify(from, ProofFrom(from), AccumulatorAt(from),
                                  AccumulatorAt(size)) = TRUE
        PROVE  from <= size
    <3>1. CASE from = 0
      BY <2>1, <3>1
    <3>2. CASE from # 0 /\ size # 0
      <4>1. from \in 1..mmr_size /\ size \in 1..mmr_size
        BY <2>1, <3>2
      <4> QED BY <1>1, <2>1, <2>3, <4>1, NewSizeBound
    <3>3. CASE from # 0 /\ size = 0
      <4>1. from \in 1..mmr_size
        BY <2>1, <3>3
      <4>2. FALSE
        BY <1>1, <2>1, <2>3, <3>3, <4>1, NothingAccepts
      <4> QED BY <4>2
    <3> QED BY <3>1, <3>2, <3>3
  <2> QED BY <2>2, <2>3
<1> QED BY <1>1, InvariantsHold, PTL

=============================================================================
