------------------------- MODULE SharedStoreProofs -------------------------
(***************************************************************************)
(* Theorems about module SharedStore, for every Data, MaxSize and Reader.  *)
(***************************************************************************)
EXTENDS SharedStore, ForestProofs

-----------------------------------------------------------------------------

\* The items of a sequence of sequences.
LEMMA FlattenRange ==
  ASSUME NEW T, NEW seqs \in Seq(Seq(T))
  PROVE  FlattenSeq(seqs) \in Seq(T)
<1> DEFINE S == Seq(T)
           D == 1..Len(seqs)
           stop == {1}
           next == [n \in D |-> IF n = 1 THEN 1 ELSE n - 1]
           exit == [n \in D |-> seqs[n]]
           join == [call \in D \X S |-> call[2] \o seqs[call[1]]]
           rank == [n \in D |-> n]
<1>1. Len(seqs) \in Nat /\ \A n \in D : seqs[n] \in S
  <2>1. seqs \in Seq(S)
    OBVIOUS
  <2> HIDE DEF S
  <2> QED BY <2>1, ElementOfSeq
<1>2. CASE Len(seqs) = 0
  <2>1. FlattenSeq(seqs) = seqs /\ seqs = <<>>
    BY <1>2 DEF FlattenSeq
  <2> QED BY <2>1
<1>3. CASE Len(seqs) # 0
  <2>1. IsLoop(D, S, stop, next, exit, join, rank)
    <3>1. next \in [D -> D] /\ rank \in [D -> Nat]
      BY <1>1
    <3>2. exit \in [D -> S]
      BY <1>1
    <3>3. join \in [D \X S -> S]
      <4>1. \A call \in D \X S : call[2] \o seqs[call[1]] \in S
        BY <1>1, ConcatProperties
      <4> HIDE DEF D, S
      <4> QED BY <4>1
    <3>4. \A n \in D \ stop : rank[next[n]] < rank[n]
      BY <1>1
    <3> HIDE DEF D, S, stop, next, exit, join, rank
    <3> QED BY <3>1, <3>2, <3>3, <3>4 DEF IsLoop
  <2>2. PICK f \in [D -> S] : Loop(f, D, stop, next, exit, join)
    <3> HIDE DEF D, S, stop, next, exit, join, rank
    <3> QED BY <2>1, LoopHasResult
  <2>3. \A n \in D : f[n] = IF n = 1 THEN seqs[n] ELSE f[n - 1] \o seqs[n]
    <3> TAKE n \in D
    <3>1. f[n] = IF n \in stop THEN exit[n] ELSE join[<<n, f[next[n]]>>]
      <4> HIDE DEF D, S, stop, next, exit, join, rank
      <4> QED BY <2>2 DEF Loop
    <3>2. CASE n = 1
      BY <3>1, <3>2
    <3>3. CASE n # 1
      <4>1. next[n] = n - 1 /\ n - 1 \in D
        BY <1>1, <3>3
      <4>2. <<n, f[n - 1]>> \in D \X S
        <5> HIDE DEF S
        <5> QED BY <4>1
      <4>3. join[<<n, f[n - 1]>>] = f[n - 1] \o seqs[n]
        <5> HIDE DEF D, S
        <5> QED BY <4>2
      <4> HIDE DEF join, next
      <4> QED BY <3>1, <3>3, <4>1, <4>3
    <3> QED BY <3>2, <3>3
  <2> DEFINE flatten[n \in D] == IF n = 1 THEN seqs[n] ELSE flatten[n - 1] \o seqs[n]
  <2>4. flatten = [n \in D |-> IF n = 1 THEN seqs[n] ELSE flatten[n - 1] \o seqs[n]]
    <3>1. f = [n \in D |-> IF n = 1 THEN seqs[n] ELSE f[n - 1] \o seqs[n]]
      BY <2>3
    <3> QED BY <3>1
  <2>5. FlattenSeq(seqs) = flatten[Len(seqs)]
    BY <1>3 DEF FlattenSeq
  <2> HIDE DEF flatten
  <2>6. Nat \subseteq {n \in Nat : n \in D => flatten[n] \in S}
    <3> DEFINE P == {n \in Nat : n \in D => flatten[n] \in S}
    <3>1. 0 \in P
      OBVIOUS
    <3>2. \A n \in Nat : n \in P => n + 1 \in P
      <4> TAKE n \in Nat
      <4> HAVE n \in P
      <4> SUFFICES ASSUME n + 1 \in D PROVE flatten[n + 1] \in S
        <5> HIDE DEF D, S
        <5> QED OBVIOUS
      <4>1. flatten[n + 1] = IF n + 1 = 1 THEN seqs[n + 1]
                             ELSE flatten[(n + 1) - 1] \o seqs[n + 1]
        BY <2>4
      <4>2. CASE n = 0
        BY <1>1, <4>1, <4>2
      <4>3. CASE n # 0
        <5>1. n \in D /\ (n + 1) - 1 = n /\ n + 1 # 1
          BY <1>1, <4>3
        <5>2. flatten[n] \in S /\ seqs[n + 1] \in S
          <6> HIDE DEF D, S
          <6> QED BY <1>1, <5>1
        <5>3. flatten[n] \o seqs[n + 1] \in S
          BY <5>2, ConcatProperties
        <5> QED BY <4>1, <5>1, <5>3
      <4> QED BY <4>2, <4>3
    <3> HIDE DEF P
    <3>3. Nat \subseteq P
      BY <3>1, <3>2, SetInduction
    <3> QED BY <3>3 DEF P
  <2>7. Len(seqs) \in D
    BY <1>1, <1>3
  <2> HIDE DEF D, S
  <2>8. flatten[Len(seqs)] \in S
    BY <1>1, <2>6, <2>7
  <2> QED BY <2>5, <2>8 DEF S
<1> QED BY <1>2, <1>3

\* No instance reads beyond its size.
LEMMA RequestsRange ==
  ASSUME NEW size \in Nat, NEW positions \in Requests(size)
  PROVE  positions \in Seq(0..(size - 1))
<1> DEFINE T == 0..(size - 1)
<1>1. ASSUME NEW p \in T PROVE <<p>> \in Seq(T)
  OBVIOUS
<1>2. PeaksIter(size) \in Seq(T)
  BY PeaksIterRange
<1>3. ASSUME NEW p \in T PROVE inclusion_proof_path(p, size - 1) \in Seq(T)
  <2>1. size - 1 \in Nat /\ p \in Nat
    OBVIOUS
  <2> QED BY <2>1, InclusionPathRange
<1>4. ASSUME NEW from \in 1..size
      PROVE  FlattenSeq(consistency_paths(from, size)) \in Seq(T)
  <2> DEFINE peaks == PeaksMMRIVERIter(from - 1)
  <2>1. from - 1 \in Nat /\ size - 1 \in Nat
    OBVIOUS
  <2>2. peaks \in Seq(0..(from - 1))
    BY <2>1, PeaksMMRIVERIterRange
  <2>3. \A k \in DOMAIN peaks : inclusion_proof_path(peaks[k], size - 1) \in Seq(T)
    <3>1. \A k \in DOMAIN peaks : peaks[k] \in Nat
      BY <2>2
    <3> QED BY <2>1, <3>1, InclusionPathRange
  <2>4. consistency_paths(from, size)
          = [k \in 1..Len(peaks) |-> inclusion_proof_path(peaks[k], size - 1)]
    BY <2>2 DEF consistency_paths
  <2>5. consistency_paths(from, size) \in Seq(Seq(T))
    <3> HIDE DEF T, peaks
    <3>1. Len(peaks) \in Nat /\ DOMAIN peaks = 1..Len(peaks)
      BY <2>2
    <3> QED BY <2>3, <2>4, <3>1
  <2> HIDE DEF T
  <2> QED BY <2>5, FlattenRange
<1> HIDE DEF T
<1> QED BY <1>1, <1>2, <1>3, <1>4 DEF Requests, T

-----------------------------------------------------------------------------

\* A reader's variables are functions of the readers, its locals belong together
\* and are there only during a read, it was opened at a size that is still
\* committed, and it asks for no position beyond it.
ReaderShape ==
  /\ stage \in [Reader -> {"closed", "open", "reading", "done"}]
  /\ view \in [Reader -> Nat]
  /\ wanted = [r \in Reader |-> wanted[r]]
  /\ missing = [r \in Reader |-> missing[r]]
  /\ results = [r \in Reader |-> results[r]]
  /\ \A r \in Reader :
       /\ view[r] <= durable
       /\ missing[r] \subseteq DOMAIN wanted[r]
       /\ results[r] = [k \in DOMAIN wanted[r] |-> results[r][k]]
       /\ wanted[r] \in Seq(0..(view[r] - 1))
       /\ stage[r] \in {"closed", "open"} => wanted[r] = <<>>

\* What every step of the MMR keeps below a size that is committed before and
\* after it.
LEMMA ContentKept ==
  ASSUME TypeOK, ContentComplete, [Next]_vars,
         NEW i \in Nat \ {0}, i <= durable, i <= durable'
  PROVE  content'[i] = content[i]
<1>1. i \in 1..Len(content) /\ content \in Seq(Item)
  BY DEF TypeOK, ContentComplete
<1>2. CASE PushEnd
  <2>1. content' = content \o elems /\ elems \in Seq(Item)
    BY <1>2 DEF PushEnd, TypeOK
  <2> QED BY <1>1, <2>1
<1>3. ASSUME NEW size \in FinishedSizes, Restart(size)
      PROVE  content'[i] = content[i]
  <2>1. /\ content' = SubSeq(content, 1, size) /\ durable' = size
        /\ size \in 0..durable
    BY <1>3 DEF Restart
  <2>2. size \in Nat /\ size <= Len(content) /\ i \in 1..size
    BY <2>1 DEF TypeOK, ContentComplete
  <2> QED BY <1>1, <2>1, <2>2
<1>4. CASE UNCHANGED content
  BY <1>4
<1>5. UNCHANGED content \/ PushEnd \/ \E size \in FinishedSizes : Restart(size)
  BY DEF Next, PushStep, CommitStep, PushBegin, PushRefused, PushMerge,
         PushInconsistent, PushFail, CommitBegin, CommitAppend, CommitFail,
         CommitEnd, vars, history
<1> QED BY <1>2, <1>3, <1>4, <1>5

\* The store holds what a reader may ask for.
LEMMA StoreHoldsView ==
  ASSUME TypeOK, DurablePrefix, ReaderShape, NEW r \in Reader,
         NEW p \in 0..(view[r] - 1)
  PROVE  StoreGet(p) = content[p + 1]
<1>1. p \in 0..(durable - 1)
  BY DEF TypeOK, ReaderShape
<1> QED BY <1>1 DEF DurablePrefix

Reads == ReaderShape /\ SnapshotReads

\* No reader has read anything at first.
LEMMA ReadsInit == SharedInit => Reads
BY DEF SharedInit, Init, ReadersInit, Reads, ReaderShape, SnapshotReads

\* Steps of the writer leave what readers have read as it was at their sizes.
LEMMA ReadsWriterStep ==
  ASSUME TypeOK, ContentComplete, Reads, WriterStep, TypeOK'
  PROVE  Reads'
<1>1. Next /\ UNCHANGED readerVars /\ \A r \in Reader : view[r] <= durable'
  BY DEF WriterStep
<1>2. ReaderShape'
  BY <1>1 DEF Reads, ReaderShape, readerVars
<1>3. SnapshotReads'
  <2> SUFFICES ASSUME NEW r \in Reader, NEW k \in DOMAIN wanted[r] \ missing[r],
                      wanted[r][k] \in 0..(view[r] - 1)
               PROVE  results[r][k] = content'[wanted[r][k] + 1]
    BY <1>1 DEF SnapshotReads, readerVars
  <2>1. results[r][k] = content[wanted[r][k] + 1]
    BY DEF Reads, SnapshotReads
  <2>2. /\ wanted[r][k] + 1 \in Nat \ {0}
        /\ wanted[r][k] + 1 <= durable
        /\ wanted[r][k] + 1 <= durable'
    <3>1. view[r] \in Nat /\ view[r] <= durable /\ view[r] <= durable'
      BY <1>1 DEF Reads, ReaderShape
    <3>2. durable \in Nat /\ durable' \in Nat
      BY DEF TypeOK
    <3> QED BY <3>1, <3>2
  <2> QED BY <1>1, <2>1, <2>2, ContentKept
<1> QED BY <1>2, <1>3 DEF Reads

\* A step of a read changes the locals of one reader: it asks for w, waits for m
\* of them and has the answers a.
OneReader(r, w, m, a) ==
  /\ wanted' = [wanted EXCEPT ![r] = w]
  /\ missing' = [missing EXCEPT ![r] = m]
  /\ results' = [results EXCEPT ![r] = a]
  /\ stage' \in [Reader -> {"closed", "open", "reading", "done"}]
  /\ \A q \in Reader \ {r} : stage'[q] = stage[q]
  /\ view' = view /\ content' = content /\ durable' = durable
  /\ m \subseteq DOMAIN w
  /\ a = [k \in DOMAIN w |-> a[k]]
  /\ w \in Seq(0..(view[r] - 1))
  /\ stage'[r] \in {"closed", "open"} => w = <<>>
  /\ \A k \in DOMAIN w \ m :
       w[k] \in 0..(view[r] - 1) => a[k] = content[w[k] + 1]

\* A step of one reader does not touch the others.
LEMMA ReadsOneReader ==
  ASSUME Reads, NEW r \in Reader, NEW w, NEW m, NEW a, OneReader(r, w, m, a)
  PROVE  Reads'
<1>1. /\ wanted' = [q \in Reader |-> wanted'[q]]
      /\ missing' = [q \in Reader |-> missing'[q]]
      /\ results' = [q \in Reader |-> results'[q]]
  BY DEF Reads, ReaderShape, OneReader
<1>2. wanted'[r] = w /\ missing'[r] = m /\ results'[r] = a
  BY DEF Reads, ReaderShape, OneReader
<1>3. \A q \in Reader \ {r} : /\ wanted'[q] = wanted[q]
                               /\ missing'[q] = missing[q]
                               /\ results'[q] = results[q]
  BY DEF Reads, ReaderShape, OneReader
<1>4. ASSUME NEW q \in Reader
      PROVE  /\ view'[q] <= durable'
             /\ missing'[q] \subseteq DOMAIN wanted'[q]
             /\ results'[q] = [k \in DOMAIN wanted'[q] |-> results'[q][k]]
             /\ wanted'[q] \in Seq(0..(view'[q] - 1))
             /\ stage'[q] \in {"closed", "open"} => wanted'[q] = <<>>
  <2>1. CASE q = r
    BY <1>2, <2>1 DEF Reads, ReaderShape, OneReader
  <2>2. CASE q # r
    BY <1>3, <2>2 DEF Reads, ReaderShape, OneReader
  <2> QED BY <2>1, <2>2
<1>5. ReaderShape'
  BY <1>1, <1>4 DEF Reads, ReaderShape, OneReader
<1>6. ASSUME NEW q \in Reader, NEW k \in DOMAIN wanted'[q] \ missing'[q],
             wanted'[q][k] \in 0..(view'[q] - 1)
      PROVE  results'[q][k] = content'[wanted'[q][k] + 1]
  <2>1. CASE q = r
    BY <1>2, <1>6, <2>1 DEF OneReader
  <2>2. CASE q # r
    BY <1>3, <1>6, <2>2 DEF Reads, SnapshotReads, OneReader
  <2> QED BY <2>1, <2>2
<1> QED BY <1>5, <1>6 DEF Reads, SnapshotReads, OneReader

\* Opening and closing change the size of a reader that has asked for nothing.
LEMMA EmptyReader ==
  ASSUME Reads, NEW r \in Reader, NEW size \in Nat, size <= durable,
         NEW st \in {"closed", "open"},
         wanted[r] = <<>>,
         stage' = [stage EXCEPT ![r] = st],
         view' = [view EXCEPT ![r] = size],
         UNCHANGED <<wanted, missing, results, content, durable>>
  PROVE  Reads'
<1>1. /\ stage' \in [Reader -> {"closed", "open", "reading", "done"}]
      /\ view' \in [Reader -> Nat]
      /\ view'[r] = size
      /\ \A q \in Reader \ {r} : view'[q] = view[q] /\ stage'[q] = stage[q]
  BY DEF Reads, ReaderShape
<1>2. DOMAIN wanted[r] = {} /\ wanted[r] \in Seq(0..(size - 1))
  OBVIOUS
<1>3. ASSUME NEW q \in Reader
      PROVE  /\ view'[q] <= durable'
             /\ missing'[q] \subseteq DOMAIN wanted'[q]
             /\ results'[q] = [k \in DOMAIN wanted'[q] |-> results'[q][k]]
             /\ wanted'[q] \in Seq(0..(view'[q] - 1))
             /\ stage'[q] \in {"closed", "open"} => wanted'[q] = <<>>
  <2>1. CASE q = r
    BY <1>1, <1>2, <2>1 DEF Reads, ReaderShape
  <2>2. CASE q # r
    BY <1>1, <2>2 DEF Reads, ReaderShape
  <2> QED BY <2>1, <2>2
<1>4. ReaderShape'
  BY <1>1, <1>3 DEF Reads, ReaderShape
<1>5. ASSUME NEW q \in Reader, NEW k \in DOMAIN wanted'[q] \ missing'[q],
             wanted'[q][k] \in 0..(view'[q] - 1)
      PROVE  results'[q][k] = content'[wanted'[q][k] + 1]
  <2>1. q # r
    BY <1>2, <1>5
  <2> QED BY <1>1, <1>5, <2>1 DEF Reads, SnapshotReads
<1> QED BY <1>4, <1>5 DEF Reads, SnapshotReads

\* A reader is answered with what was committed at its size.
LEMMA ReadsReaderStep ==
  ASSUME TypeOK, DurablePrefix, Reads, NEW r \in Reader, ReaderStep(r)
  PROVE  Reads'
<1>1. UNCHANGED <<content, durable, store>> /\ durable \in Nat
  BY DEF ReaderStep, ReaderOpen, ReadBegin, ReadStep, ReadOne, ReadAll, ReadEnd,
         ReadLeave, ReaderClose, vars, TypeOK
<1>2. /\ \A p \in 0..(view[r] - 1) : StoreGet(p) = content[p + 1]
      /\ missing[r] \subseteq DOMAIN wanted[r]
      /\ results[r] = [k \in DOMAIN wanted[r] |-> results[r][k]]
  BY StoreHoldsView DEF Reads, ReaderShape
<1>3. CASE ReaderOpen(r)
  <2>1. PICK size \in FinishedSizes :
          /\ size \in 1..durable
          /\ stage[r] = "closed" /\ wanted[r] = <<>>
          /\ stage' = [stage EXCEPT ![r] = "open"]
          /\ view' = [view EXCEPT ![r] = size]
          /\ UNCHANGED <<wanted, missing, results>>
    BY <1>3 DEF ReaderOpen, Reads, ReaderShape
  <2>2. size \in Nat /\ size <= durable /\ "open" \in {"closed", "open"}
    BY <1>1, <2>1
  <2>3. UNCHANGED <<wanted, missing, results, content, durable>>
    BY <1>1, <2>1
  <2> QED BY ONLY Reads, r \in Reader, <2>1, <2>2, <2>3, EmptyReader
<1>4. CASE ReadBegin(r)
  <2>1. PICK positions \in Requests(view[r]) :
          /\ wanted' = [wanted EXCEPT ![r] = positions]
          /\ missing' = [missing EXCEPT ![r] = DOMAIN positions]
          /\ results' = [results EXCEPT ![r] = [k \in DOMAIN positions |-> None]]
    BY <1>4 DEF ReadBegin
  <2>2. /\ stage' = [stage EXCEPT ![r] = "reading"]
        /\ stage'[r] = "reading"
        /\ UNCHANGED view
    BY <1>4 DEF ReadBegin, Reads, ReaderShape
  <2> DEFINE nones == [k \in DOMAIN positions |-> None]
  <2>3. nones = [k \in DOMAIN positions |-> nones[k]]
    OBVIOUS
  <2>4. /\ stage' \in [Reader -> {"closed", "open", "reading", "done"}]
        /\ \A q \in Reader \ {r} : stage'[q] = stage[q]
    BY <2>2 DEF Reads, ReaderShape
  <2>5. positions \in Seq(0..(view[r] - 1))
    BY RequestsRange DEF Reads, ReaderShape
  <2> DEFINE all == DOMAIN positions
  <2>6. all \subseteq DOMAIN positions /\ DOMAIN positions \ all = {}
    OBVIOUS
  <2>7. missing' = [missing EXCEPT ![r] = all]
    BY <2>1
  <2>8. results' = [results EXCEPT ![r] = nones]
    BY <2>1
  <2>9. UNCHANGED <<view, content, durable>>
    BY <1>1, <2>2
  <2>10. stage'[r] \in {"closed", "open"} => positions = <<>>
    BY <2>2
  <2>11. \A k \in DOMAIN positions \ all :
           positions[k] \in 0..(view[r] - 1) => nones[k] = content[positions[k] + 1]
    BY <2>6
  <2> HIDE DEF nones, all
  <2>12. OneReader(r, positions, all, nones)
    BY <2>9, <2>10, <2>11, <2>1, <2>2, <2>3, <2>4, <2>5, <2>6, <2>7, <2>8 DEF OneReader
  <2> QED BY <2>12, ReadsOneReader
<1>5. CASE ReadOne(r)
  <2>1. PICK k \in missing[r] :
          /\ results' = [results EXCEPT ![r][k] = StoreGet(wanted[r][k])]
          /\ missing' = [missing EXCEPT ![r] = @ \ {k}]
          /\ UNCHANGED <<stage, view, wanted>>
    BY <1>5 DEF ReadOne
  <2> DEFINE w == wanted[r]
             m == missing[r] \ {k}
             a == [results[r] EXCEPT ![k] = StoreGet(w[k])]
  <2>2. /\ wanted' = [wanted EXCEPT ![r] = w]
        /\ missing' = [missing EXCEPT ![r] = m]
        /\ results' = [results EXCEPT ![r] = a]
    BY <2>1 DEF Reads, ReaderShape
  <2>3. a = [j \in DOMAIN w |-> a[j]] /\ m \subseteq DOMAIN w
    BY <1>2
  <2>4. ASSUME NEW j \in DOMAIN w \ m, w[j] \in 0..(view[r] - 1)
        PROVE  a[j] = content[w[j] + 1]
    BY <1>2, <2>4 DEF Reads, SnapshotReads
  <2>5. /\ stage' \in [Reader -> {"closed", "open", "reading", "done"}]
        /\ \A q \in Reader \ {r} : stage'[q] = stage[q]
        /\ w \in Seq(0..(view[r] - 1))
        /\ stage'[r] \in {"closed", "open"} => w = <<>>
    BY <2>1 DEF Reads, ReaderShape
  <2>6. UNCHANGED <<view, content, durable>>
    BY <1>1, <2>1
  <2> HIDE DEF w, m, a
  <2>7. OneReader(r, w, m, a)
    BY <2>2, <2>3, <2>4, <2>5, <2>6 DEF OneReader
  <2> QED BY <2>7, ReadsOneReader
<1>6. CASE ReadAll(r)
  <2> DEFINE w == wanted[r]
             m == {}
             a == [k \in DOMAIN w |-> StoreGet(w[k])]
  <2>1. /\ wanted' = [wanted EXCEPT ![r] = w]
        /\ missing' = [missing EXCEPT ![r] = m]
        /\ results' = [results EXCEPT ![r] = a]
        /\ UNCHANGED <<stage, view>>
    BY <1>6 DEF ReadAll, Reads, ReaderShape
  <2>2. a = [j \in DOMAIN w |-> a[j]] /\ m \subseteq DOMAIN w
    OBVIOUS
  <2>3. ASSUME NEW j \in DOMAIN w \ m, w[j] \in 0..(view[r] - 1)
        PROVE  a[j] = content[w[j] + 1]
    BY <1>2, <2>3
  <2>4. /\ stage' \in [Reader -> {"closed", "open", "reading", "done"}]
        /\ \A q \in Reader \ {r} : stage'[q] = stage[q]
        /\ w \in Seq(0..(view[r] - 1))
        /\ stage'[r] \in {"closed", "open"} => w = <<>>
    BY <2>1 DEF Reads, ReaderShape
  <2>5. UNCHANGED <<view, content, durable>>
    BY <1>1, <2>1
  <2> HIDE DEF w, m, a
  <2>6. OneReader(r, w, m, a)
    BY <2>1, <2>2, <2>3, <2>4, <2>5 DEF OneReader
  <2> QED BY <2>6, ReadsOneReader
<1>7. CASE ReadEnd(r)
  BY <1>1, <1>7 DEF ReadEnd, Reads, ReaderShape, SnapshotReads
<1>8. CASE ReadLeave(r)
  <2>1. /\ wanted' = [wanted EXCEPT ![r] = <<>>]
        /\ missing' = [missing EXCEPT ![r] = {}]
        /\ results' = [results EXCEPT ![r] = <<>>]
        /\ stage' = [stage EXCEPT ![r] = "open"]
        /\ UNCHANGED view
    BY <1>8 DEF ReadLeave, ForgetRead
  <2> DEFINE nothing == <<>>
             none == {}
  <2>2. DOMAIN nothing = {} /\ nothing = [k \in DOMAIN nothing |-> nothing[k]]
    OBVIOUS
  <2>3. /\ stage' \in [Reader -> {"closed", "open", "reading", "done"}]
        /\ \A q \in Reader \ {r} : stage'[q] = stage[q]
    BY <2>1 DEF Reads, ReaderShape
  <2>4. /\ wanted' = [wanted EXCEPT ![r] = nothing]
        /\ missing' = [missing EXCEPT ![r] = none]
        /\ results' = [results EXCEPT ![r] = nothing]
    BY <2>1
  <2>5. nothing \in Seq(0..(view[r] - 1)) /\ nothing = <<>>
    OBVIOUS
  <2>6. none \subseteq DOMAIN nothing /\ DOMAIN nothing \ none = {}
    BY <2>2
  <2>7. UNCHANGED <<view, content, durable>>
    BY <1>1, <2>1
  <2>8. stage'[r] \in {"closed", "open"} => nothing = <<>>
    OBVIOUS
  <2>9. \A k \in DOMAIN nothing \ none :
          nothing[k] \in 0..(view[r] - 1) => nothing[k] = content[nothing[k] + 1]
    BY <2>6
  <2> HIDE DEF nothing, none
  <2>10. OneReader(r, nothing, none, nothing)
    BY <2>7, <2>8, <2>9, <2>2, <2>3, <2>4, <2>5, <2>6 DEF OneReader
  <2> QED BY <2>10, ReadsOneReader
<1>9. CASE ReaderClose(r)
  <2>1. /\ stage[r] = "open" /\ wanted[r] = <<>>
        /\ stage' = [stage EXCEPT ![r] = "closed"]
        /\ view' = [view EXCEPT ![r] = 0]
        /\ UNCHANGED <<wanted, missing, results>>
    BY <1>9 DEF ReaderClose, Reads, ReaderShape
  <2>2. 0 \in Nat /\ 0 <= durable /\ "closed" \in {"closed", "open"}
    BY <1>1
  <2>3. UNCHANGED <<wanted, missing, results, content, durable>>
    BY <1>1, <2>1
  <2> QED BY ONLY Reads, r \in Reader, <2>1, <2>2, <2>3, EmptyReader
<1> QED BY <1>3, <1>4, <1>5, <1>6, <1>7, <1>8, <1>9 DEF ReaderStep, ReadStep

\* The MMR takes its own steps, whatever the readers do.
LEMMA SharedRefinesMMR == [SharedNext]_sharedVars => [Next]_vars
BY DEF SharedNext, WriterStep, ReaderStep, ReaderOpen, ReadBegin, ReadStep,
       ReadOne, ReadAll, ReadEnd, ReadLeave, ReaderClose, sharedVars

\* Readers hold the items of their snapshots after every step.
LEMMA ReadsStep ==
  ASSUME IInv, IInv', Reads, [SharedNext]_sharedVars
  PROVE  Reads'
<1>1. TypeOK /\ TypeOK' /\ ContentComplete /\ DurablePrefix
  BY DEF IInv
<1>2. CASE WriterStep
  BY <1>1, <1>2, ReadsWriterStep
<1>3. ASSUME NEW r \in Reader, ReaderStep(r) PROVE Reads'
  BY <1>1, <1>3, ReadsReaderStep
<1>4. CASE UNCHANGED sharedVars
  BY <1>4 DEF Reads, ReaderShape, SnapshotReads, sharedVars, vars, readerVars
<1> QED BY <1>2, <1>3, <1>4 DEF SharedNext

\* Readers beside it do not take the MMR's invariant away: a SharedStore is an MMR.
THEOREM SharedInvariantHolds == SharedSpec => []IInv
<1>1. SharedSpec => Spec
  <2>1. SharedInit => Init
    BY DEF SharedInit
  <2> QED BY <2>1, SharedRefinesMMR, PTL DEF SharedSpec, Spec
<1> QED BY <1>1, InvariantHolds, PTL

\* Readers always hold the items of their snapshots.
LEMMA ReadsHold == SharedSpec => []Reads
<1>1. SharedInit => Reads
  BY ReadsInit
<1>2. IInv /\ IInv' /\ Reads /\ [SharedNext]_sharedVars => Reads'
  BY ReadsStep
<1> QED BY <1>1, <1>2, SharedInvariantHolds, PTL DEF SharedSpec

\* What a reader is answered is what the MMR had at that position when it had the
\* reader's size, at whatever moments the answers come.
THEOREM ReadersSeeSnapshots == SharedSpec => []SnapshotReads
<1>1. Reads => SnapshotReads
  BY DEF Reads
<1> QED BY <1>1, ReadsHold, PTL

-----------------------------------------------------------------------------
(* Each step is a step of the snapshots, or none.                          *)

Committed == SubSeq(content, 1, durable)
Answers == [r \in Reader |-> IF stage[r] = "done" THEN results[r] ELSE <<>>]

\* The committed part of the history is a sequence, the history cut off at durable.
LEMMA CommittedIsSeq ==
  /\ TypeOK /\ ContentComplete =>
       /\ Committed \in Seq(Item) /\ Len(Committed) = durable
       /\ \A i \in 1..durable : Committed[i] = content[i]
  /\ TypeOK' /\ ContentComplete' =>
       /\ Committed' \in Seq(Item) /\ Len(Committed') = durable'
       /\ \A i \in 1..durable' : Committed'[i] = content'[i]
<1>1. ASSUME NEW c \in Seq(Item), NEW d \in Nat, d <= Len(c)
      PROVE  /\ SubSeq(c, 1, d) \in Seq(Item) /\ Len(SubSeq(c, 1, d)) = d
             /\ \A i \in 1..d : SubSeq(c, 1, d)[i] = c[i]
  <2>1. Len(c) \in Nat
    OBVIOUS
  <2>2. \A i \in 1..d : i \in 1..Len(c)
    BY <1>1, <2>1
  <2>3. \A i \in 1..d : c[i] \in Item
    <3> HIDE DEF Item
    <3> QED BY <2>2, ElementOfSeq
  <2> HIDE DEF Item
  <2> QED BY <1>1, <2>1, <2>2, <2>3, SubSeqProperties
<1>2. TypeOK /\ ContentComplete =>
        content \in Seq(Item) /\ durable \in Nat /\ durable <= Len(content)
  BY DEF TypeOK, ContentComplete
<1>3. TypeOK' /\ ContentComplete' =>
        content' \in Seq(Item) /\ durable' \in Nat /\ durable' <= Len(content')
  BY DEF TypeOK, ContentComplete
<1> QED BY <1>1, <1>2, <1>3 DEF Committed

\* A step of the writer appends to the committed log, or leaves it.
LEMMA WriterWrites ==
  ASSUME TypeOK, TypeOK', ContentComplete, ContentComplete', Reads, WriterStep
  PROVE  View!Write
<1>1. Next /\ UNCHANGED readerVars /\ \A r \in Reader : view[r] <= durable'
  BY DEF WriterStep
<1>2. Committed' \in Seq(Item) /\ Len(Committed') = durable'
  BY CommittedIsSeq
<1>3. ASSUME NEW r \in Reader
      PROVE  /\ view[r] <= Len(Committed')
             /\ \A i \in 1..view[r] : Committed'[i] = Committed[i]
  <2>1. /\ view[r] \in Nat /\ view[r] <= durable /\ view[r] <= durable'
        /\ durable \in Nat /\ durable' \in Nat
    BY <1>1 DEF Reads, ReaderShape, TypeOK
  <2>2. ASSUME NEW i \in 1..view[r] PROVE Committed'[i] = Committed[i]
    <3>1. /\ i \in Nat \ {0} /\ i <= durable /\ i <= durable'
          /\ i \in 1..durable /\ i \in 1..durable'
      BY <2>1
    <3>2. content'[i] = content[i]
      BY <1>1, <3>1, ContentKept
    <3> QED BY <3>1, <3>2, CommittedIsSeq
  <2> QED BY <1>2, <2>1, <2>2
<1>4. Answers' = Answers /\ wanted' = wanted /\ view' = view
  BY <1>1 DEF readerVars, Answers
<1> QED BY <1>2, <1>3, <1>4 DEF View!Write, Committed, Answers

\* Only the answers of a reader whose stage or results change are others.
LEMMA OneAnswer ==
  ASSUME Reads, NEW r \in Reader, NEW st,
         stage' = [stage EXCEPT ![r] = st],
         \A q \in Reader \ {r} : results'[q] = results[q]
  PROVE  Answers' = [Answers EXCEPT ![r] = IF st = "done" THEN results'[r] ELSE <<>>]
<1>1. /\ stage'[r] = st
      /\ \A q \in Reader \ {r} : stage'[q] = stage[q]
  BY DEF Reads, ReaderShape
<1>2. Answers = [q \in Reader |-> Answers[q]] /\ Answers' = [q \in Reader |-> Answers'[q]]
  BY DEF Answers
<1>3. Answers'[r] = IF st = "done" THEN results'[r] ELSE <<>>
  BY <1>1 DEF Answers
<1>4. \A q \in Reader \ {r} : Answers'[q] = Answers[q]
  BY <1>1 DEF Answers
<1> HIDE DEF Answers
<1> QED BY <1>2, <1>3, <1>4

\* A step of a reader is one of a reader of snapshots, or none.
LEMMA ReaderViews ==
  ASSUME TypeOK, ContentComplete, Reads, NEW r \in Reader, ReaderStep(r)
  PROVE  [View!Next]_(View!snapshotVars)
<1>1. UNCHANGED <<content, durable>> /\ Committed' = Committed
  BY DEF ReaderStep, ReaderOpen, ReadBegin, ReadStep, ReadOne, ReadAll, ReadEnd,
         ReadLeave, ReaderClose, vars, history, Committed
<1>2. /\ Answers = [q \in Reader |-> Answers[q]]
      /\ stage[r] # "done" => Answers[r] = <<>>
      /\ durable \in Nat /\ Len(Committed) = durable
  BY CommittedIsSeq DEF Answers, TypeOK
<1>3. ASSUME NEW st \in {"closed", "open", "reading"}, stage[r] # "done",
             stage' = [stage EXCEPT ![r] = st],
             \A q \in Reader \ {r} : results'[q] = results[q]
      PROVE  Answers' = Answers
  <2>1. Answers' = [Answers EXCEPT ![r] = <<>>]
    BY <1>3, OneAnswer
  <2> QED BY <1>2, <1>3, <2>1
<1>4. CASE ReaderOpen(r)
  <2>1. PICK size \in FinishedSizes :
          /\ size \in 1..durable
          /\ stage[r] = "closed" /\ wanted[r] = <<>>
          /\ stage' = [stage EXCEPT ![r] = "open"]
          /\ view' = [view EXCEPT ![r] = size]
          /\ UNCHANGED <<wanted, missing, results>>
    BY <1>4 DEF ReaderOpen, Reads, ReaderShape
  <2>2. Answers' = Answers
    BY <1>3, <2>1
  <2>3. size \in 0..Len(Committed)
    BY <1>2, <2>1
  <2>4. View!Open(r)
    BY <1>1, <2>1, <2>2, <2>3 DEF View!Open, Committed, Answers
  <2> QED BY <2>4 DEF View!Next
<1>5. CASE ReadBegin(r)
  <2>1. PICK positions \in Requests(view[r]) :
          /\ wanted' = [wanted EXCEPT ![r] = positions]
          /\ results' = [results EXCEPT ![r] = [k \in DOMAIN positions |-> None]]
    BY <1>5 DEF ReadBegin
  <2>2. /\ stage[r] = "open" /\ wanted[r] = <<>>
        /\ stage' = [stage EXCEPT ![r] = "reading"]
        /\ UNCHANGED view
    BY <1>5 DEF ReadBegin, Reads, ReaderShape
  <2>3. wanted'[r] = positions /\ \A q \in Reader \ {r} : results'[q] = results[q]
    BY <2>1 DEF Reads, ReaderShape
  <2>4. Answers' = Answers
    BY <1>3, <2>2, <2>3
  <2>5. positions \in Seq(0..(view[r] - 1))
    BY RequestsRange DEF Reads, ReaderShape
  <2>6. View!Ask(r)
    BY <1>1, <2>1, <2>2, <2>3, <2>4, <2>5 DEF View!Ask, Committed, Answers
  <2> QED BY <2>6 DEF View!Next
<1>6. CASE ReadOne(r) \/ ReadAll(r)
  <2>1. /\ stage[r] = "reading" /\ UNCHANGED <<stage, view, wanted>>
        /\ \A q \in Reader \ {r} : results'[q] = results[q]
    BY <1>6 DEF ReadOne, ReadAll, Reads, ReaderShape
  <2>2. stage' = [stage EXCEPT ![r] = "reading"]
    BY <2>1 DEF Reads, ReaderShape
  <2>3. Answers' = Answers
    BY <1>3, <2>1, <2>2
  <2> QED BY <1>1, <2>1, <2>3 DEF View!snapshotVars, Committed, Answers
<1>7. CASE ReadEnd(r)
  <2>1. /\ stage[r] = "reading" /\ missing[r] = {}
        /\ stage' = [stage EXCEPT ![r] = "done"]
        /\ UNCHANGED <<view, wanted, missing, results>>
    BY <1>7 DEF ReadEnd
  <2>2. results[r] = [k \in DOMAIN wanted[r] |-> Committed[wanted[r][k] + 1]]
    <3>1. ASSUME NEW k \in DOMAIN wanted[r]
          PROVE  results[r][k] = Committed[wanted[r][k] + 1]
      <4>1. /\ view[r] \in Nat /\ view[r] <= durable
            /\ wanted[r] \in Seq(0..(view[r] - 1))
        BY DEF Reads, ReaderShape
      <4>2. wanted[r][k] \in 0..(view[r] - 1)
        BY <4>1
      <4>3. results[r][k] = content[wanted[r][k] + 1]
        BY <2>1, <4>2 DEF Reads, SnapshotReads
      <4>4. wanted[r][k] + 1 \in 1..durable
        BY <1>2, <4>1, <4>2
      <4> QED BY <4>3, <4>4, CommittedIsSeq
    <3> QED BY <3>1 DEF Reads, ReaderShape
  <2>3. Answers' = [Answers EXCEPT ![r] = results[r]]
    BY <2>1, OneAnswer
  <2>4. Answers[r] = <<>>
    BY <1>2, <2>1
  <2>5. View!Answer(r)
    BY <1>1, <2>1, <2>2, <2>3, <2>4 DEF View!Answer, Committed, Answers
  <2> QED BY <2>5 DEF View!Next
<1>8. CASE ReadLeave(r)
  <2>1. /\ wanted' = [wanted EXCEPT ![r] = <<>>]
        /\ stage' = [stage EXCEPT ![r] = "open"]
        /\ UNCHANGED view
        /\ \A q \in Reader \ {r} : results'[q] = results[q]
    BY <1>8 DEF ReadLeave, ForgetRead, Reads, ReaderShape
  <2>2. Answers' = [Answers EXCEPT ![r] = <<>>]
    <3>1. "open" # "done"
      OBVIOUS
    <3>2. Answers' = [Answers EXCEPT ![r] = IF "open" = "done" THEN results'[r] ELSE <<>>]
      BY <2>1, OneAnswer
    <3> QED BY <3>1, <3>2
  <2>3. View!Forget(r)
    BY <1>1, <2>1, <2>2 DEF View!Forget, Committed, Answers
  <2> QED BY <2>3 DEF View!Next
<1>9. CASE ReaderClose(r)
  <2>1. /\ stage[r] = "open" /\ wanted[r] = <<>>
        /\ stage' = [stage EXCEPT ![r] = "closed"]
        /\ view' = [view EXCEPT ![r] = 0]
        /\ UNCHANGED <<wanted, missing, results>>
    BY <1>9 DEF ReaderClose, Reads, ReaderShape
  <2>2. Answers' = Answers
    BY <1>3, <2>1
  <2>3. 0 \in 0..Len(Committed)
    BY <1>2
  <2>4. View!Open(r)
    BY <1>1, <2>1, <2>2, <2>3 DEF View!Open, Committed, Answers
  <2> QED BY <2>4 DEF View!Next
<1> QED BY <1>4, <1>5, <1>6, <1>7, <1>8, <1>9 DEF ReaderStep, ReadStep

\* Every step of the shared store is one of the snapshots, or none.
LEMMA ViewStep ==
  ASSUME IInv, IInv', Reads, [SharedNext]_sharedVars
  PROVE  [View!Next]_(View!snapshotVars)
<1>1. TypeOK /\ TypeOK' /\ ContentComplete /\ ContentComplete'
  BY DEF IInv
<1>2. CASE WriterStep
  BY <1>1, <1>2, WriterWrites DEF View!Next
<1>3. ASSUME NEW r \in Reader, ReaderStep(r)
      PROVE  [View!Next]_(View!snapshotVars)
  BY <1>1, <1>3, ReaderViews
<1>4. CASE UNCHANGED sharedVars
  BY <1>4 DEF sharedVars, vars, history, readerVars, View!snapshotVars
<1> QED BY <1>2, <1>3, <1>4 DEF SharedNext

\* At first no snapshot has been taken of the empty log.
LEMMA ViewInit == SharedInit => View!Init
<1> SUFFICES ASSUME SharedInit PROVE View!Init
  OBVIOUS
<1>1. /\ content = <<>> /\ durable = 0
      /\ stage = [r \in Reader |-> "closed"]
      /\ view = [r \in Reader |-> 0]
      /\ wanted = [r \in Reader |-> <<>>]
  BY DEF SharedInit, Init, ReadersInit
<1>2. Committed = <<>>
  BY <1>1 DEF Committed
<1>3. Answers = [r \in Reader |-> <<>>]
  BY <1>1 DEF Answers
<1> QED BY <1>1, <1>2, <1>3 DEF View!Init, View!Nothing, Committed, Answers

\* A read over a store that is written, damaged, cut back and reopened meanwhile
\* is one that is answered in one step from a snapshot of the committed log.
THEOREM SnapshotsRefined == SharedSpec => IsSnapshots
<1>1. SharedInit => View!Init
  BY ViewInit
<1>2. IInv /\ IInv' /\ Reads /\ [SharedNext]_sharedVars
        => [View!Next]_(View!snapshotVars)
  BY ViewStep
<1> QED
  BY <1>1, <1>2, SharedInvariantHolds, ReadsHold, PTL
  DEF SharedSpec, IsSnapshots, View!Spec

-----------------------------------------------------------------------------
(* The root a reader computes.                                             *)

\* A read that has returned was answered in full, and a reader that is open has one
\* of the sizes an MMR has between two calls.
ReaderStages ==
  \A r \in Reader :
    /\ stage[r] = "done" => missing[r] = {}
    /\ stage[r] # "closed" => view[r] \in FinishedSizes \ {0}

\* Steps of the writer and of readers keep that.
LEMMA StagesStep ==
  ASSUME ReaderShape, ReaderStages, [SharedNext]_sharedVars
  PROVE  ReaderStages'
<1>1. /\ stage = [r \in Reader |-> stage[r]] /\ view = [r \in Reader |-> view[r]]
      /\ missing = [r \in Reader |-> missing[r]]
  BY DEF ReaderShape
<1>2. CASE UNCHANGED readerVars
  BY <1>2 DEF ReaderStages, readerVars
<1>3. ASSUME NEW r \in Reader, ReaderStep(r) PROVE ReaderStages'
  <2>1. SUFFICES ASSUME NEW q \in Reader
                 PROVE  /\ stage'[q] = "done" => missing'[q] = {}
                        /\ stage'[q] # "closed" => view'[q] \in FinishedSizes \ {0}
    BY DEF ReaderStages
  <2>2. /\ stage[q] = "done" => missing[q] = {}
        /\ stage[q] # "closed" => view[q] \in FinishedSizes \ {0}
    BY DEF ReaderStages
  <2>3. CASE ReaderOpen(r)
    <3>1. PICK size \in FinishedSizes : /\ size \in 1..durable
                                        /\ view' = [view EXCEPT ![r] = size]
      BY <2>3 DEF ReaderOpen
    <3>2. stage' = [stage EXCEPT ![r] = "open"] /\ missing' = missing
      BY <2>3 DEF ReaderOpen
    <3>3. size # 0
      BY <3>1
    <3> QED BY <1>1, <2>2, <3>1, <3>2, <3>3
  <2>4. CASE ReadBegin(r)
    <3>1. stage[r] = "open" /\ stage' = [stage EXCEPT ![r] = "reading"] /\ view' = view
      BY <2>4 DEF ReadBegin
    <3>2. PICK m : missing' = [missing EXCEPT ![r] = m]
      BY <2>4 DEF ReadBegin
    <3> QED BY <1>1, <2>2, <3>1, <3>2
  <2>5. CASE ReadOne(r)
    <3>1. PICK m : missing' = [missing EXCEPT ![r] = m]
      BY <2>5 DEF ReadOne
    <3>2. stage[r] = "reading" /\ stage' = stage /\ view' = view
      BY <2>5 DEF ReadOne
    <3> QED BY <1>1, <2>2, <3>1, <3>2
  <2>6. CASE ReadAll(r)
    <3>1. /\ missing' = [missing EXCEPT ![r] = {}]
          /\ stage[r] = "reading" /\ stage' = stage /\ view' = view
      BY <2>6 DEF ReadAll
    <3> QED BY <1>1, <2>2, <3>1
  <2>7. CASE ReadEnd(r)
    <3>1. /\ stage[r] = "reading" /\ missing[r] = {}
          /\ stage' = [stage EXCEPT ![r] = "done"] /\ view' = view /\ missing' = missing
      BY <2>7 DEF ReadEnd
    <3> QED BY <1>1, <2>2, <3>1
  <2>8. CASE ReadLeave(r)
    <3>1. /\ stage[r] \in {"reading", "done"} /\ stage' = [stage EXCEPT ![r] = "open"]
          /\ view' = view /\ missing' = [missing EXCEPT ![r] = {}]
      BY <2>8 DEF ReadLeave, ForgetRead
    <3> QED BY <1>1, <2>2, <3>1
  <2>9. CASE ReaderClose(r)
    <3>1. /\ stage' = [stage EXCEPT ![r] = "closed"]
          /\ view' = [view EXCEPT ![r] = 0] /\ missing' = missing
      BY <2>9 DEF ReaderClose
    <3> QED BY <1>1, <2>2, <3>1
  <2> QED BY <1>3, <2>3, <2>4, <2>5, <2>6, <2>7, <2>8, <2>9 DEF ReaderStep, ReadStep
<1> QED BY <1>2, <1>3 DEF SharedNext, WriterStep, sharedVars, readerVars

\* The nodes under a snapshot are a forest, whose root the reader computes.
LEMMA RootOfSnapshot ==
  ASSUME IInv, MMRTree, Reads, ReaderStages, NEW r \in Reader,
         stage[r] = "done", wanted[r] = PeaksIter(view[r])
  PROVE  bag_rhs_peaks(results[r]) = Bagged(LeavesOf(SubSeq(content, 1, view[r])))
<1> DEFINE n == view[r]
           c == SubSeq(content, 1, n)
           peaks == PeaksIter(n)
<1>1. n \in FinishedSizes \ {0} /\ n <= durable /\ missing[r] = {}
  BY DEF Reads, ReaderShape, ReaderStages
<1>2. n \in Nat \ {0} /\ H(n) = 0
  BY <1>1, FinishedIsLeaf
<1>3. Numbered(c, NoNumber) /\ Len(c) = n /\ \A k \in 1..n : c[k] = content[k]
  <2> HIDE DEF n
  <2> QED BY <1>1, PrefixIsForest, NoNumberType DEF IInv, MMRTree
<1>4. results[r] = [k \in DOMAIN peaks |-> results[r][k]]
  BY DEF Reads, ReaderShape
<1>5. \A k \in DOMAIN peaks : peaks[k] \in 0..(n - 1)
  <2> HIDE DEF n
  <2> QED BY <1>2, PeaksExist
<1>6. \A k \in DOMAIN peaks : results[r][k] = content[peaks[k] + 1]
  <2>1. \A k \in DOMAIN wanted[r] \ missing[r] :
          wanted[r][k] \in 0..(n - 1) => results[r][k] = content[wanted[r][k] + 1]
    BY DEF Reads, SnapshotReads
  <2> QED BY <1>1, <1>5, <2>1
<1> HIDE DEF n, c, peaks
<1>7. \A k \in DOMAIN peaks : content[peaks[k] + 1] = c[peaks[k] + 1]
  <2>1. \A k \in DOMAIN peaks : peaks[k] + 1 \in 1..n
    BY <1>2, <1>5
  <2> QED BY <1>3, <2>1
<1>8. results[r] = ItemsAt(c, peaks)
  BY <1>4, <1>6, <1>7 DEF ItemsAt
<1>9. Bagged(LeavesOf(c)) = bag_rhs_peaks(ItemsAt(c, peaks))
  BY <1>2, <1>3, RootOfForest DEF IsForest, peaks
<1> QED BY <1>8, <1>9 DEF n, c

\* get_root of a reader is the root that the MMR had at the reader's size, even if
\* its peaks are read before, during and after several commits, failures and
\* reopenings of the writer.
THEOREM ReaderRootIsCorrect == SharedSpec => []ReaderRootCorrect
<1>1. SharedInit => MMRTree /\ ReaderStages
  <2>1. SharedInit => MMRTree
    BY TreeInit DEF SharedInit, MMRTree, Init
  <2>2. SharedInit => ReaderStages
    BY DEF SharedInit, ReadersInit, ReaderStages
  <2> QED BY <2>1, <2>2
<1>2. IInv /\ IInv' /\ Reads /\ MMRTree /\ ReaderStages /\ [SharedNext]_sharedVars
        => MMRTree' /\ ReaderStages'
  BY SharedRefinesMMR, MMRTreeStep, StagesStep DEF Reads
<1>3. IInv /\ Reads /\ MMRTree /\ ReaderStages => ReaderRootCorrect
  BY RootOfSnapshot DEF ReaderRootCorrect
<1> QED BY <1>1, <1>2, <1>3, SharedInvariantHolds, ReadsHold, PTL DEF SharedSpec

=============================================================================
