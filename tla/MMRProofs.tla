----------------------------- MODULE MMRProofs -----------------------------
(***************************************************************************)
(* Theorems about module MMR, for every Data and every MaxSize.            *)
(***************************************************************************)
EXTENDS MMR, RowProofs

-----------------------------------------------------------------------------
(* The operators MMR is built from.                                        *)

Entry == [pos : Nat, elems : Seq(Item)]

\* A nonempty set of indices has a greatest element, and Max finds it.
LEMMA MaxOfIndices ==
  ASSUME NEW n \in Nat, NEW S, S \subseteq 1..n, S # {}
  PROVE  Max(S) \in S /\ \A x \in S : x <= Max(S)
<1> DEFINE Below == {n - x : x \in S}
<1>1. PICK low \in Below : \A y \in Below : ~ (<<y, low>> \in OpToRel(<, Nat))
  <2>1. Below \subseteq Nat /\ Below # {}
    <3>1. \A x \in S : n - x \in Nat
      OBVIOUS
    <3>2. PICK x \in S : TRUE
      OBVIOUS
    <3>3. n - x \in Below
      OBVIOUS
    <3> QED BY <3>1, <3>3
  <2> QED BY <2>1, NatLessThanWellFounded, WFMin
<1>2. PICK top \in S : low = n - top
  OBVIOUS
<1>3. \A x \in S : top >= x
  <2> TAKE x \in S
  <2>1. n - x \in Below /\ n - x \in Nat /\ low \in Nat
    OBVIOUS
  <2>2. ~ (n - x < low)
    BY <1>1, <2>1 DEF OpToRel
  <2> QED BY <1>2, <2>2
<1> QED BY <1>3 DEF Max

\* What hashing and merging return are items.
LEMMA LeafIsItem ==
  ASSUME NEW d \in Data
  PROVE  leaf_hash(d) \in Item
BY DEF leaf_hash, Item

\* merge_pos makes an item of two.
LEMMA MergePosIsItem ==
  ASSUME NEW p \in Nat, NEW left \in Item, NEW right \in Item
  PROVE  merge_pos(p, left, right) \in Item
<1> DEFINE S == Data \cup Nat
<1>1. <<p>> \in Seq(S) /\ left \in Seq(S) /\ right \in Seq(S)
  BY DEF Item
<1>2. <<p>> \o left \in Seq(S)
  BY <1>1, ConcatProperties
<1>3. (<<p>> \o left) \o right \in Seq(S)
  BY <1>1, <1>2, ConcatProperties
<1> QED BY <1>3 DEF merge_pos, Item

\* merge makes an item of two.
LEMMA MergeIsItem ==
  ASSUME NEW left \in Item, NEW right \in Item
  PROVE  merge(left, right) \in Item
BY MergePosIsItem DEF merge

\* An element of a batch entry is an item.
LEMMA ElemIsItem ==
  ASSUME NEW entry \in Entry, NEW p \in Extent(entry)
  PROVE  ElemAt(entry, p) \in Item
<1>1. entry.pos \in Nat /\ entry.elems \in Seq(Item) /\ Len(entry.elems) \in Nat
  BY DEF Entry
<1>2. p - entry.pos + 1 \in 1..Len(entry.elems)
  BY <1>1 DEF Extent
<1> QED BY <1>1, <1>2, ElementOfSeq DEF ElemAt

\* Store t differs from store s at the first k positions of an entry, where it
\* holds the entry's elements, and nowhere else.
Overwritten(s, entry, k, t) ==
  LET written == entry.pos..(entry.pos + k - 1)
  IN  /\ t \in [DOMAIN t -> Item]
      /\ DOMAIN t \subseteq Nat
      /\ DOMAIN t = DOMAIN s \cup written
      /\ \A q \in written : t[q] = ElemAt(entry, q)
      /\ \A q \in DOMAIN s \ written : t[q] = s[q]

\* This is what appending the first k elements of an entry does to the store.
LEMMA InsertedChanges ==
  ASSUME NEW s, s \in [DOMAIN s -> Item], DOMAIN s \subseteq Nat,
         NEW entry \in Entry, NEW k \in 0..Len(entry.elems),
         NEW t, t = Inserted(s, entry.pos, entry.elems, k)
  PROVE  Overwritten(s, entry, k, t)
<1> DEFINE written == entry.pos..(entry.pos + k - 1)
<1>1. entry.pos \in Nat /\ entry.elems \in Seq(Item) /\ Len(entry.elems) \in Nat
  BY DEF Entry
<1>2. written \subseteq Nat /\ written \subseteq Extent(entry)
  BY <1>1 DEF Extent
<1>3. \A q \in written : ElemAt(entry, q) \in Item
  BY <1>2, ElemIsItem
<1>4. t = [q \in DOMAIN s \cup written |->
             IF q \in written THEN ElemAt(entry, q) ELSE s[q]]
  BY DEF Inserted, ElemAt
<1>5. t \in [DOMAIN s \cup written -> Item]
  BY <1>3, <1>4
<1> HIDE DEF written
<1>6. /\ t \in [DOMAIN t -> Item]
      /\ DOMAIN t \subseteq Nat
      /\ DOMAIN t = DOMAIN s \cup written
      /\ \A q \in written : t[q] = ElemAt(entry, q)
      /\ \A q \in DOMAIN s \ written : t[q] = s[q]
  BY <1>2, <1>4, <1>5
<1> QED BY <1>6 DEF Overwritten, written

-----------------------------------------------------------------------------
(* What the reads return.                                                  *)

\* get_elem returns an item or nothing.
LEMMA GetElemType ==
  ASSUME TypeOK, NEW p \in Int
  PROVE  get_elem(p) \in Item \cup {None}
<1> DEFINE started == {i \in DOMAIN memory_batch : memory_batch[i].pos <= p}
<1>1. CASE started # {} /\ p \in Extent(memory_batch[Max(started)])
  <2>1. Max(started) \in started
    <3>1. Len(memory_batch) \in Nat /\ started \subseteq 1..Len(memory_batch)
      BY DEF TypeOK
    <3> HIDE DEF started
    <3> QED BY <1>1, <3>1, MaxOfIndices
  <2>2. memory_batch[Max(started)] \in Entry
    <3>1. Max(started) \in DOMAIN memory_batch
      BY <2>1
    <3>2. memory_batch \in Seq(Entry)
      BY DEF TypeOK, Entry
    <3> HIDE DEF started
    <3> QED BY <3>1, <3>2, ElementOfSeq, LenProperties
  <2>3. ElemAt(memory_batch[Max(started)], p) \in Item
    BY <1>1, <2>2, ElemIsItem
  <2> QED BY <1>1, <2>3 DEF get_elem
<1>2. CASE ~(started # {} /\ p \in Extent(memory_batch[Max(started)]))
  <2>1. get_elem(p) = StoreGet(p)
    BY <1>2 DEF get_elem
  <2> QED BY <2>1 DEF StoreGet, TypeOK
<1> QED BY <1>1, <1>2

\* push looks a node up among its own, in the batch and in the store, and finds an item or nothing.
LEMMA FindElemType ==
  ASSUME TypeOK, NEW p \in Int
  PROVE  find_elem(p, elems) \in Item \cup {None}
<1>1. CASE p >= mmr_size /\ p - mmr_size < Len(elems)
  <2>1. p - mmr_size + 1 \in 1..Len(elems)
    BY <1>1 DEF TypeOK
  <2> QED BY <1>1, <2>1 DEF find_elem, TypeOK
<1>2. CASE ~(p >= mmr_size /\ p - mmr_size < Len(elems))
  BY <1>2, GetElemType DEF find_elem
<1> QED BY <1>1, <1>2

-----------------------------------------------------------------------------
(* What a step does to the batch, the store and the history.  The locals   *)
(* of a push are apart, so that all of this holds for MMRIVER too.         *)

Quiet == UNCHANGED <<store, mmr_size, memory_batch, content, durable, intact>>

Pushed ==
  /\ elems # <<>>
  /\ mmr_size' = mmr_size + Len(elems)
  /\ memory_batch' = Append(memory_batch, [pos |-> mmr_size, elems |-> elems])
  /\ content' = content \o elems
  /\ UNCHANGED <<store, durable, intact>>

DataStep ==
  \/ Quiet
  \/ Pushed
  \/ CommitStep
  \/ \E size \in FinishedSizes : Restart(size)

\* Every step of an MMR does to its batch, its store and its history what DataStep says.
LEMMA MMRDataStep ==
  ASSUME TypeOK, PushLocals, [Next]_vars
  PROVE  DataStep
<1> USE DEF DataStep, Quiet, history, callVars
<1>1. ASSUME NEW d \in Data, PushBegin(d) PROVE DataStep
  BY <1>1 DEF PushBegin
<1>2. CASE PushRefused \/ PushMerge \/ PushInconsistent \/ PushFail
  BY <1>2 DEF PushRefused, PushMerge, PushInconsistent, PushFail
<1>3. CASE PushEnd
  <2>1. elems # <<>> /\ pos + 1 = mmr_size + Len(elems)
    BY <1>3 DEF PushEnd, TypeOK, PushLocals
  <2> QED BY <1>3, <2>1 DEF PushEnd, Pushed
<1>4. CASE CommitBegin
  BY <1>4 DEF CommitBegin
<1>5. CASE UNCHANGED vars
  BY <1>5 DEF vars
<1> QED BY <1>1, <1>2, <1>3, <1>4, <1>5 DEF Next, PushStep

-----------------------------------------------------------------------------
(* Type correctness.                                                       *)

\* The two halves of TypeOK.
DataTypes ==
  /\ store \in [DOMAIN store -> Item] /\ DOMAIN store \subseteq Nat
  /\ mmr_size \in Nat
  /\ memory_batch \in Seq(Entry)
  /\ content \in Seq(Item)
  /\ durable \in Nat
  /\ intact \in BOOLEAN

CallTypes ==
  /\ phase \in {"idle", "pushing", "committing"}
  /\ elems \in Seq(Item) /\ (phase = "pushing" => elems # <<>>)
  /\ pos \in Nat
  /\ peak \in Nat \ {0}
  /\ returned \in {"none", "push_ok", "push_inconsistent", "push_error",
                   "commit_ok", "commit_error"}

\* The type invariant is that of the data, and that of the calls under way.
LEMMA TypeParts ==
  /\ TypeOK <=> DataTypes /\ CallTypes
  /\ TypeOK' <=> DataTypes' /\ CallTypes'
BY DEF TypeOK, DataTypes, CallTypes, Entry

\* The first state is well-typed.
LEMMA TypeInit == Init => TypeOK
<1> SUFFICES ASSUME Init PROVE TypeOK
  OBVIOUS
<1>1. store \in [DOMAIN store -> Item] /\ DOMAIN store \subseteq Nat
  BY DEF Init
<1> QED BY <1>1 DEF Init, TypeOK

\* Steps keep batch, store and history well-typed.
LEMMA DataTypesStep ==
  ASSUME TypeOK, ContentComplete, DataStep
  PROVE  DataTypes'
<1>1. DataTypes /\ elems \in Seq(Item)
  BY DEF TypeOK, DataTypes, Entry
<1>2. CASE Quiet
  BY <1>1, <1>2 DEF Quiet, DataTypes
<1>3. CASE Pushed
  <2> DEFINE entry == [pos |-> mmr_size, elems |-> elems]
  <2>1. memory_batch' \in Seq(Entry)
    <3>1. entry \in Entry /\ memory_batch \in Seq(Entry)
      BY <1>1 DEF DataTypes, Entry
    <3>2. memory_batch' = Append(memory_batch, entry)
      BY <1>3 DEF Pushed
    <3> HIDE DEF entry
    <3> QED BY <3>1, <3>2, AppendProperties
  <2>2. content' \in Seq(Item)
    BY <1>1, <1>3, ConcatProperties DEF Pushed, DataTypes
  <2>3. mmr_size' \in Nat
    BY <1>1, <1>3 DEF Pushed, DataTypes
  <2>4. UNCHANGED <<store, durable, intact>>
    BY <1>3 DEF Pushed
  <2> QED BY <1>1, <2>1, <2>2, <2>3, <2>4 DEF DataTypes
<1>4. CASE CommitAppend
  <2>1. Head(memory_batch) \in Entry /\ Tail(memory_batch) \in Seq(Entry)
    BY <1>1, <1>4, HeadTailProperties DEF CommitAppend, DataTypes
  <2>2. Len(Head(memory_batch).elems) \in 0..Len(Head(memory_batch).elems)
    BY <2>1 DEF Entry
  <2>3. store' \in [DOMAIN store' -> Item] /\ DOMAIN store' \subseteq Nat
    BY <1>1, <1>4, <2>1, <2>2, InsertedChanges
    DEF CommitAppend, DataTypes, Overwritten
  <2>4. /\ memory_batch' = Tail(memory_batch)
        /\ UNCHANGED <<mmr_size, content, durable, intact>>
    BY <1>4 DEF CommitAppend, history
  <2> QED BY <1>1, <2>1, <2>3, <2>4 DEF DataTypes
<1>5. CASE CommitFail
  <2>1. Head(memory_batch) \in Entry
    BY <1>1, <1>5, HeadTailProperties DEF CommitFail, DataTypes
  <2>2. PICK k \in 0..Len(Head(memory_batch).elems) :
          store' = Inserted(store, Head(memory_batch).pos,
                            Head(memory_batch).elems, k)
    BY <1>5 DEF CommitFail
  <2>3. store' \in [DOMAIN store' -> Item] /\ DOMAIN store' \subseteq Nat
    BY <1>1, <2>1, <2>2, InsertedChanges DEF DataTypes, Overwritten
  <2>4. /\ memory_batch' = <<>> /\ intact' = FALSE
        /\ UNCHANGED <<mmr_size, content, durable>>
    BY <1>5 DEF CommitFail
  <2>5. memory_batch' \in Seq(Entry)
    BY <2>4
  <2> QED BY <1>1, <2>3, <2>4, <2>5 DEF DataTypes
<1>6. CASE CommitEnd
  BY <1>1, <1>6 DEF CommitEnd, DataTypes
<1>7. ASSUME NEW size \in FinishedSizes, Restart(size) PROVE DataTypes'
  <2>1. SubSeq(content, 1, size) \in Seq(Item)
    <3>1. size \in Nat /\ size <= Len(content) /\ content \in Seq(Item)
      BY <1>1, <1>7 DEF Restart, ContentComplete, DataTypes
    <3>2. \A i \in 1..size : content[i] \in Item
      BY <3>1
    <3> QED BY <3>1, <3>2, SubSeqProperties
  <2> QED BY <1>1, <1>7, <2>1 DEF Restart, DataTypes
<1> QED BY <1>2, <1>3, <1>4, <1>5, <1>6, <1>7 DEF DataStep, CommitStep

\* The new node of an iteration is an item.
LEMMA MergedElems ==
  ASSUME TypeOK, elems # <<>>, NEW new \in Item, elems' = Append(elems, new)
  PROVE  elems' \in Seq(Item) /\ elems' # <<>> /\ Len(elems') = Len(elems) + 1
<1>1. elems \in Seq(Item)
  BY DEF TypeOK
<1> QED BY ONLY <1>1, elems' = Append(elems, new), new \in Item, AppendProperties

\* A call that ends leaves no locals behind.
LEMMA ReturnTypes ==
  ASSUME NEW result \in {"none", "push_ok", "push_inconsistent", "push_error",
                         "commit_ok", "commit_error"},
         Return(result)
  PROVE  CallTypes'
<1>1. /\ phase' = "idle" /\ returned' = result
      /\ elems' = <<>> /\ pos' = 0 /\ peak' = 1
  BY DEF Return
<1>2. elems' \in Seq(Item)
  BY <1>1
<1> QED BY <1>1, <1>2 DEF CallTypes

\* Steps keep the locals of push and commit well-typed.
LEMMA CallTypesStep ==
  ASSUME TypeOK, [Next]_vars
  PROVE  CallTypes'
<1> USE DEF CallTypes, TypeOK, history, callVars
<1>1. ASSUME NEW d \in Data, PushBegin(d) PROVE CallTypes'
  BY <1>1, LeafIsItem DEF PushBegin
<1>2. CASE PushMerge
  <2> DEFINE left_elem == find_elem(left_pos, elems)
             right_elem == elems[Len(elems)]
  <2>1. left_elem \in Item
    <3>1. left_pos \in Int
      BY DEF left_pos
    <3> QED BY <1>2, <3>1, FindElemType DEF PushMerge
  <2>2. right_elem \in Item
    BY <1>2 DEF PushMerge
  <2>3. merge(left_elem, right_elem) \in Item
    BY <2>1, <2>2, MergeIsItem
  <2>4. elems' \in Seq(Item) /\ elems' # <<>>
    BY <1>2, <2>3, MergedElems DEF PushMerge
  <2>5. pos' \in Nat /\ peak' \in Nat \ {0}
    BY <1>2 DEF PushMerge
  <2> QED BY <1>2, <2>4, <2>5 DEF PushMerge
<1>3. ASSUME \/ Return("push_error") \/ Return("push_inconsistent")
             \/ Return("push_ok") \/ Return("commit_error") \/ Return("commit_ok")
             \/ Return("none")
      PROVE  CallTypes'
  BY <1>3, ReturnTypes
<1>4. CASE CommitBegin \/ CommitAppend
  <2>1. phase' = "committing" /\ UNCHANGED <<elems, pos, peak>>
    BY <1>4 DEF CommitBegin, CommitAppend
  <2>2. returned' = "none" \/ returned' = returned
    BY <1>4 DEF CommitBegin, CommitAppend
  <2> QED BY <2>1, <2>2
<1>5. \/ \E d \in Data : PushBegin(d)
      \/ PushMerge
      \/ CommitBegin \/ CommitAppend
      \/ Return("push_error") \/ Return("push_inconsistent")
      \/ Return("push_ok") \/ Return("commit_error") \/ Return("commit_ok")
      \/ Return("none")
      \/ UNCHANGED vars
  BY DEF Next, PushStep, CommitStep, PushRefused, PushInconsistent, PushFail, PushEnd,
         CommitFail, CommitEnd, Restart
<1>6. CASE UNCHANGED vars
  BY <1>6 DEF vars
<1> QED BY <1>1, <1>2, <1>3, <1>4, <1>5, <1>6 DEF Next, PushStep

\* At first there is nothing to remember.
LEMMA ContentInit == Init => ContentComplete
BY DEF Init, ContentComplete

\* Every position of the MMR has an item in its history.
LEMMA ContentStep ==
  ASSUME TypeOK, ContentComplete, DataStep
  PROVE  ContentComplete'
<1> USE DEF TypeOK, ContentComplete, history
<1>1. CASE Quiet
  BY <1>1 DEF Quiet
<1>2. CASE Pushed
  <2>1. Len(content') = Len(content) + Len(elems)
    BY <1>2, ConcatProperties DEF Pushed
  <2> QED BY <1>2, <2>1 DEF Pushed
<1>3. CASE CommitStep
  BY <1>3 DEF CommitStep, CommitAppend, CommitFail, CommitEnd
<1>4. ASSUME NEW size \in FinishedSizes, Restart(size) PROVE ContentComplete'
  <2>1. Len(content') = size
    <3>1. size \in Nat /\ size <= Len(content)
      BY <1>4 DEF Restart
    <3>2. \A i \in 1..size : content[i] \in Item
      BY <3>1
    <3> QED BY <1>4, <3>1, <3>2, SubSeqProperties DEF Restart
  <2> QED BY <1>4, <2>1 DEF Restart
<1> QED BY <1>1, <1>2, <1>3, <1>4 DEF DataStep

\* No push is under way at first.
LEMMA LocalsInit == Init => PushLocals
BY DEF Init, PushLocals

\* What push knows of the range stays true from one await to the next.
LEMMA LocalsStep ==
  ASSUME TypeOK, PushLocals, [Next]_vars
  PROVE  PushLocals'
<1> USE DEF TypeOK, history, callVars
<1>1. ASSUME NEW d \in Data, PushBegin(d) PROVE PushLocals'
  BY <1>1, Pow2Doubles DEF PushBegin, PushLocals
<1>2. CASE PushMerge
  <2>1. Len(elems') = Len(elems) + 1
    BY <1>2 DEF PushMerge
  <2>2. /\ pos + 1 = mmr_size + Len(elems) /\ peak = Pow2[Len(elems) - 1]
        /\ pos' = pos + 1 /\ peak' = 2 * peak /\ mmr_size' = mmr_size
        /\ Len(elems) - 1 \in Nat
    BY <1>2 DEF PushMerge, PushLocals
  <2>3. Pow2[(Len(elems) - 1) + 1] = 2 * Pow2[Len(elems) - 1]
    BY <2>2, Pow2Doubles
  <2>4. (Len(elems) - 1) + 1 = Len(elems') - 1
    BY <2>1, <2>2
  <2> QED BY <2>1, <2>2, <2>3, <2>4 DEF PushLocals
<1>3. CASE phase' # "pushing"
  BY <1>3 DEF PushLocals
<1>4. CASE UNCHANGED vars
  BY <1>4 DEF vars, PushLocals
<1>5. phase' # "pushing" \/ PushMerge \/ (\E d \in Data : PushBegin(d)) \/ UNCHANGED vars
  BY DEF Next, PushStep, CommitStep, PushRefused, PushInconsistent, PushFail, PushEnd,
         CommitBegin, CommitAppend, CommitFail, CommitEnd, Restart, Return
<1> QED BY <1>1, <1>2, <1>3, <1>4, <1>5

\* Types, history and locals together are inductive.
LEMMA ShapeStep ==
  ASSUME TypeOK, ContentComplete, PushLocals, [Next]_vars
  PROVE  (TypeOK /\ ContentComplete /\ PushLocals)'
<1>1. DataStep
  BY MMRDataStep
<1> QED BY <1>1, TypeParts, DataTypesStep, CallTypesStep, ContentStep, LocalsStep

\* Every reachable state of an MMR over a store is well-typed.
THEOREM TypeCorrect == Spec => []TypeOK
<1>1. Init => TypeOK /\ ContentComplete /\ PushLocals
  BY TypeInit, ContentInit, LocalsInit
<1>2. (TypeOK /\ ContentComplete /\ PushLocals) /\ [Next]_vars
        => (TypeOK /\ ContentComplete /\ PushLocals)'
  BY ShapeStep
<1> QED BY <1>1, <1>2, PTL DEF Spec

-----------------------------------------------------------------------------
(* Looking a position up in an ordered batch.                              *)

\* The entries of the batch and their fields are what they should be.
LEMMA BatchShape ==
  ASSUME TypeOK
  PROVE  /\ Len(memory_batch) \in Nat
         /\ DOMAIN memory_batch = 1..Len(memory_batch)
         /\ \A i \in 1..Len(memory_batch) :
              /\ memory_batch[i] \in Entry
              /\ memory_batch[i].pos \in Nat
              /\ Len(memory_batch[i].elems) \in Nat
<1>1. memory_batch \in Seq(Entry)
  BY DEF TypeOK, Entry
<1>2. \A i \in 1..Len(memory_batch) : memory_batch[i] \in Entry
  BY <1>1, ElementOfSeq
<1>3. \A e \in Entry : e.pos \in Nat /\ Len(e.elems) \in Nat
  BY DEF Entry
<1> QED BY <1>1, <1>2, <1>3, LenProperties

\* At most one entry covers a position, both searches find it, and both go to
\* the store if there is none.
LEMMA Lookup ==
  ASSUME TypeOK, BatchOrdered, NEW p \in Nat
  PROVE  /\ \A i \in DOMAIN memory_batch :
              p \in Extent(memory_batch[i]) =>
                /\ get_elem(p) = ElemAt(memory_batch[i], p)
                /\ get_elems(p) = ElemAt(memory_batch[i], p)
         /\ (\A i \in DOMAIN memory_batch : p \notin Extent(memory_batch[i])) =>
              /\ get_elem(p) = StoreGet(p)
              /\ get_elems(p) = StoreGet(p)
<1> DEFINE n == Len(memory_batch)
           started == {i \in DOMAIN memory_batch : memory_batch[i].pos <= p}
           covering == {i \in DOMAIN memory_batch : p \in Extent(memory_batch[i])}
<1>1. /\ n \in Nat /\ DOMAIN memory_batch = 1..n
      /\ \A i \in 1..n : /\ memory_batch[i].pos \in Nat
                         /\ Len(memory_batch[i].elems) \in Nat
  BY BatchShape
<1>2. started # {} => /\ Max(started) \in started
                      /\ \A i \in started : i <= Max(started)
  <2>1. started \subseteq 1..n
    BY <1>1
  <2> HIDE DEF started
  <2> QED BY <1>1, <2>1, MaxOfIndices
<1>3. ASSUME NEW i \in DOMAIN memory_batch, p \in Extent(memory_batch[i])
      PROVE  /\ get_elem(p) = ElemAt(memory_batch[i], p)
             /\ get_elems(p) = ElemAt(memory_batch[i], p)
  <2>1. \A j \in started : j <= i
    <3> SUFFICES ASSUME NEW j \in started, i < j PROVE FALSE
      BY <1>1
    <3>1. memory_batch[i].pos + Len(memory_batch[i].elems) <= memory_batch[j].pos
      BY DEF BatchOrdered
    <3> QED BY <1>1, <1>3, <3>1 DEF Extent
  <2>2. i \in started
    BY <1>1, <1>3 DEF Extent
  <2>3. Max(started) = i
    <3>1. started \subseteq Nat
      BY <1>1
    <3> HIDE DEF started
    <3> QED BY <1>2, <2>1, <2>2, <3>1
  <2>4. covering = {i}
    <3>1. \A j \in covering : j = i
      <4> SUFFICES ASSUME NEW j \in covering PROVE j = i
        OBVIOUS
      <4>1. j \in started
        BY <1>1 DEF Extent
      <4>2. ~(j < i)
        <5> SUFFICES ASSUME j < i PROVE FALSE
          OBVIOUS
        <5>1. memory_batch[j].pos + Len(memory_batch[j].elems)
                <= memory_batch[i].pos
          BY DEF BatchOrdered
        <5> QED BY <1>1, <1>3, <5>1 DEF Extent
      <4> QED BY <1>1, <2>1, <4>1, <4>2
    <3> QED BY <1>3, <3>1
  <2>5. Max(covering) = i
    BY <1>1, <2>4 DEF Max
  <2> QED BY <1>3, <2>2, <2>3, <2>4, <2>5 DEF get_elem, get_elems
<1>4. ASSUME \A i \in DOMAIN memory_batch : p \notin Extent(memory_batch[i])
      PROVE  /\ get_elem(p) = StoreGet(p)
             /\ get_elems(p) = StoreGet(p)
  <2>1. ~(started # {} /\ p \in Extent(memory_batch[Max(started)]))
    BY <1>2, <1>4
  <2>2. covering = {}
    BY <1>4
  <2> QED BY <2>1, <2>2 DEF get_elem, get_elems
<1> QED BY <1>3, <1>4

-----------------------------------------------------------------------------
(* The inductive invariant.                                                *)

\* Its conjuncts about what the batch and the store hold.
Held == BatchOrdered /\ BatchMatches /\ StoreMatches /\ DurablePrefix

\* The empty store and the empty batch hold the empty range.
LEMMA HeldInit == Init => Held
<1> SUFFICES ASSUME Init PROVE Held
  OBVIOUS
<1>1. DOMAIN memory_batch = {} /\ mmr_size = 0 /\ durable = 0
  BY DEF Init
<1> QED BY <1>1
        DEF Held, BatchOrdered, BatchMatches, StoreMatches, DurablePrefix

\* Most steps change nothing that the batch and the store hold.
LEMMA HeldQuiet ==
  ASSUME Held, Quiet
  PROVE  Held'
BY DEF Quiet, Held, BatchOrdered, BatchMatches, StoreMatches, DurablePrefix, StoreGet

\* The nodes of a push that returns are in the batch.
LEMMA HeldPushed ==
  ASSUME TypeOK, ContentComplete, Held, Pushed
  PROVE  Held'
<1> DEFINE n == Len(memory_batch)
           entry == [pos |-> mmr_size, elems |-> elems]
<1>1. /\ n \in Nat /\ DOMAIN memory_batch = 1..n
      /\ \A i \in 1..n : /\ memory_batch[i].pos \in Nat
                         /\ Len(memory_batch[i].elems) \in Nat
      /\ mmr_size \in Nat /\ durable \in Nat /\ durable <= mmr_size
      /\ Len(elems) \in Nat /\ Len(content) = mmr_size
  BY BatchShape DEF TypeOK, ContentComplete
<1>2. /\ DOMAIN memory_batch' = 1..(n + 1)
      /\ \A i \in 1..n : memory_batch'[i] = memory_batch[i]
      /\ memory_batch'[n + 1] = entry
  <2>1. memory_batch \in Seq(Entry) /\ entry \in Entry
    BY DEF TypeOK, Entry
  <2>2. memory_batch' = Append(memory_batch, entry)
    BY DEF Pushed
  <2> HIDE DEF entry
  <2> QED BY <2>1, <2>2, AppendProperties, LenProperties
<1>3. /\ mmr_size' = mmr_size + Len(elems)
      /\ UNCHANGED <<store, durable, intact>>
  BY DEF Pushed
<1>4. \A p \in 0..(mmr_size' - 1) :
        content'[p + 1] = IF p < mmr_size THEN content[p + 1]
                          ELSE elems[p - mmr_size + 1]
  <2>1. \A i \in 1..(Len(content) + Len(elems)) :
          content'[i] = IF i <= Len(content) THEN content[i]
                        ELSE elems[i - Len(content)]
    BY ConcatProperties DEF Pushed, TypeOK
  <2> TAKE p \in 0..(mmr_size' - 1)
  <2>2. p + 1 \in 1..(Len(content) + Len(elems))
    BY <1>1, <1>3
  <2>3. (p + 1) - mmr_size = p - mmr_size + 1
    BY <1>1, <1>3
  <2> QED BY <1>1, <1>3, <2>1, <2>2, <2>3
<1> HIDE DEF n
<1>5. BatchOrdered'
  <2>1. ASSUME NEW i \in DOMAIN memory_batch', NEW j \in DOMAIN memory_batch', i < j
        PROVE  memory_batch'[i].pos + Len(memory_batch'[i].elems)
                 <= memory_batch'[j].pos
    <3>1. i \in 1..n /\ memory_batch'[i] = memory_batch[i]
      BY <1>1, <1>2, <2>1
    <3>2. CASE j = n + 1
      <4>1. memory_batch'[j].pos = mmr_size
        BY <1>2, <3>2
      <4>2. memory_batch[i].pos + Len(memory_batch[i].elems) <= mmr_size
        BY <1>1, <3>1 DEF Held, BatchOrdered
      <4> QED BY <3>1, <4>1, <4>2
    <3>3. CASE j # n + 1
      <4>1. j \in 1..n /\ memory_batch'[j] = memory_batch[j]
        BY <1>1, <1>2, <3>3
      <4> QED BY <1>1, <2>1, <3>1, <4>1 DEF Held, BatchOrdered
    <3> QED BY <3>2, <3>3
  <2>2. ASSUME NEW i \in DOMAIN memory_batch'
        PROVE  /\ durable' <= memory_batch'[i].pos
               /\ memory_batch'[i].pos + Len(memory_batch'[i].elems) <= mmr_size'
    BY <1>1, <1>2, <1>3 DEF Held, BatchOrdered
  <2> QED BY <2>1, <2>2 DEF BatchOrdered
<1>6. BatchMatches'
  <2> SUFFICES ASSUME NEW i \in DOMAIN memory_batch',
                      NEW p \in Extent(memory_batch'[i])
               PROVE  ElemAt(memory_batch'[i], p) = content'[p + 1]
    BY DEF BatchMatches, Extent, ElemAt
  <2>1. CASE i = n + 1
    <3>1. memory_batch'[i].pos = mmr_size /\ memory_batch'[i].elems = elems
      BY <1>2, <2>1
    <3>2. p \in 0..(mmr_size' - 1) /\ ~(p < mmr_size)
      BY <1>1, <1>3, <3>1 DEF Extent
    <3>3. ElemAt(memory_batch'[i], p) = elems[p - mmr_size + 1]
      BY <3>1 DEF ElemAt
    <3> QED BY <1>4, <3>2, <3>3
  <2>2. CASE i # n + 1
    <3>1. i \in DOMAIN memory_batch /\ memory_batch'[i] = memory_batch[i]
      BY <1>1, <1>2, <2>2
    <3>2. p \in 0..(mmr_size - 1)
      BY <1>1, <3>1 DEF Extent, Held, BatchOrdered
    <3>3. content'[p + 1] = content[p + 1]
      BY <1>1, <1>3, <1>4, <3>2
    <3> QED BY <3>1, <3>3 DEF Held, BatchMatches
  <2> QED BY <2>1, <2>2
<1>7. StoreMatches'
  <2> SUFFICES ASSUME intact, NEW p \in 0..(mmr_size' - 1)
               PROVE  \/ \E i \in DOMAIN memory_batch' :
                           p \in Extent(memory_batch'[i])
                      \/ StoreGet(p)' = content'[p + 1]
    BY <1>3 DEF StoreMatches, StoreGet, Extent
  <2>1. CASE p < mmr_size
    <3>1. \/ \E i \in DOMAIN memory_batch : p \in Extent(memory_batch[i])
          \/ StoreGet(p) = content[p + 1]
      BY <1>1, <2>1 DEF Held, StoreMatches
    <3> QED BY <1>1, <1>2, <1>3, <1>4, <2>1, <3>1 DEF StoreGet
  <2>2. CASE ~(p < mmr_size)
    <3>1. p \in Extent(memory_batch'[n + 1])
      BY <1>1, <1>2, <1>3, <2>2 DEF Extent
    <3> QED BY <1>1, <1>2, <3>1
  <2> QED BY <2>1, <2>2
<1>8. DurablePrefix'
  BY <1>1, <1>3, <1>4 DEF Held, DurablePrefix, StoreGet
<1> QED BY <1>5, <1>6, <1>7, <1>8 DEF Held

\* Appending the first entry changes what the store holds at its positions.
LEMMA AppendedStore ==
  ASSUME TypeOK, CommitAppend, memory_batch[1] \in Entry
  PROVE  LET head == memory_batch[1]
         IN  /\ \A q \in Extent(head) : StoreGet(q)' = ElemAt(head, q)
             /\ \A q \in Nat \ Extent(head) : StoreGet(q)' = StoreGet(q)
<1> DEFINE head == memory_batch[1]
           k == Len(head.elems)
<1>1. store' = Inserted(store, head.pos, head.elems, k)
  BY DEF CommitAppend
<1>2. head \in Entry /\ k \in 0..k
  BY DEF Entry
<1>3. store \in [DOMAIN store -> Item] /\ DOMAIN store \subseteq Nat
  BY DEF TypeOK
<1> HIDE DEF head, k
<1>4. Overwritten(store, head, k, store')
  BY <1>1, <1>2, <1>3, InsertedChanges DEF k
<1>5. /\ DOMAIN store' = DOMAIN store \cup Extent(head)
      /\ \A q \in Extent(head) : store'[q] = ElemAt(head, q)
      /\ \A q \in DOMAIN store : q \notin Extent(head) => store'[q] = store[q]
  BY <1>4 DEF Overwritten, Extent, k
<1>6. /\ \A q \in Extent(head) : StoreGet(q)' = ElemAt(head, q)
      /\ \A q \in Nat \ Extent(head) : StoreGet(q)' = StoreGet(q)
  BY <1>5 DEF StoreGet
<1> QED BY <1>6 DEF head

\* What a commit has written is in the store where it was in the batch.
LEMMA HeldCommitAppend ==
  ASSUME TypeOK, ContentComplete, Held, CommitAppend
  PROVE  Held'
<1> DEFINE n == Len(memory_batch)
           head == memory_batch[1]
<1>1. /\ n \in Nat \ {0} /\ DOMAIN memory_batch = 1..n
      /\ \A i \in 1..n : /\ memory_batch[i].pos \in Nat
                         /\ Len(memory_batch[i].elems) \in Nat
      /\ head \in Entry
      /\ mmr_size \in Nat /\ durable \in Nat /\ durable <= mmr_size
  <2>1. n # 0
    BY EmptySeq DEF CommitAppend, TypeOK
  <2>2. /\ n \in Nat /\ DOMAIN memory_batch = 1..n
        /\ \A i \in 1..n : /\ memory_batch[i] \in Entry
                           /\ memory_batch[i].pos \in Nat
                           /\ Len(memory_batch[i].elems) \in Nat
    BY BatchShape
  <2>3. mmr_size \in Nat /\ durable \in Nat /\ durable <= mmr_size
    BY DEF TypeOK, ContentComplete
  <2>4. 1 \in 1..n
    BY <2>1, <2>2
  <2> QED BY <2>1, <2>2, <2>3, <2>4
<1>2. /\ DOMAIN memory_batch' = 1..(n - 1)
      /\ \A i \in 1..(n - 1) : memory_batch'[i] = memory_batch[i + 1]
  <2>1. memory_batch \in Seq(Entry) /\ memory_batch # <<>>
        /\ memory_batch' = Tail(memory_batch)
    BY DEF TypeOK, CommitAppend, Entry
  <2> QED BY <2>1, HeadTailProperties, LenProperties
<1>3. UNCHANGED <<mmr_size, content, durable, intact>>
  BY DEF CommitAppend, history
<1>4. /\ \A q \in Extent(head) : StoreGet(q)' = ElemAt(head, q)
      /\ \A q \in Nat \ Extent(head) : StoreGet(q)' = StoreGet(q)
  BY <1>1, AppendedStore
<1>5. /\ durable <= head.pos
      /\ \A q \in Extent(head) : q \in Nat /\ ElemAt(head, q) = content[q + 1]
  BY <1>1 DEF Held, BatchOrdered, BatchMatches, Extent
<1> HIDE DEF n, head
<1>6. BatchOrdered'
  <2>1. ASSUME NEW i \in DOMAIN memory_batch', NEW j \in DOMAIN memory_batch', i < j
        PROVE  memory_batch'[i].pos + Len(memory_batch'[i].elems)
                 <= memory_batch'[j].pos
    <3>1. i + 1 \in 1..n /\ j + 1 \in 1..n /\ i + 1 < j + 1
      BY <1>1, <1>2, <2>1
    <3>2. memory_batch[i + 1].pos + Len(memory_batch[i + 1].elems)
            <= memory_batch[j + 1].pos
      BY <1>1, <3>1 DEF Held, BatchOrdered
    <3> QED BY <1>2, <3>2
  <2>2. ASSUME NEW i \in DOMAIN memory_batch'
        PROVE  /\ durable' <= memory_batch'[i].pos
               /\ memory_batch'[i].pos + Len(memory_batch'[i].elems) <= mmr_size'
    <3>1. i + 1 \in 1..n
      BY <1>1, <1>2
    <3> QED BY <1>1, <1>2, <1>3, <3>1 DEF Held, BatchOrdered
  <2> QED BY <2>1, <2>2 DEF BatchOrdered
<1>7. BatchMatches'
  <2> SUFFICES ASSUME NEW i \in DOMAIN memory_batch',
                      NEW p \in Extent(memory_batch'[i])
               PROVE  ElemAt(memory_batch'[i], p) = content'[p + 1]
    BY DEF BatchMatches, Extent, ElemAt
  <2>1. i + 1 \in 1..n /\ memory_batch'[i] = memory_batch[i + 1]
    BY <1>1, <1>2
  <2> QED BY <1>1, <1>3, <2>1 DEF Held, BatchMatches
<1>8. StoreMatches'
  <2> SUFFICES ASSUME intact, NEW p \in 0..(mmr_size - 1),
                      ~ (\E i \in DOMAIN memory_batch' :
                           p \in Extent(memory_batch'[i]))
               PROVE  StoreGet(p)' = content[p + 1]
    BY <1>3 DEF StoreMatches, StoreGet, Extent
  <2>1. CASE p \in Extent(head)
    BY <1>4, <1>5, <2>1
  <2>2. CASE p \notin Extent(head)
    <3>1. ASSUME NEW i \in DOMAIN memory_batch PROVE p \notin Extent(memory_batch[i])
      <4>1. CASE i = 1
        BY <2>2, <4>1 DEF head
      <4>2. CASE i # 1
        <5>1. i - 1 \in DOMAIN memory_batch' /\ memory_batch'[i - 1] = memory_batch[i]
          BY <1>1, <1>2, <4>2
        <5> QED BY <5>1
      <4> QED BY <4>1, <4>2
    <3>2. StoreGet(p) = content[p + 1]
      BY <3>1 DEF Held, StoreMatches
    <3>3. p \in Nat
      BY <1>1
    <3> QED BY <1>4, <2>2, <3>2, <3>3
  <2> QED BY <2>1, <2>2
<1>9. DurablePrefix'
  <2> SUFFICES ASSUME NEW p \in 0..(durable - 1)
               PROVE  StoreGet(p)' = content[p + 1]
    BY <1>3 DEF DurablePrefix, StoreGet
  <2>1. p \in Nat /\ p \notin Extent(head)
    BY <1>1, <1>5 DEF Extent, Entry
  <2> QED BY <1>4, <2>1 DEF Held, DurablePrefix
<1> QED BY <1>6, <1>7, <1>8, <1>9 DEF Held

\* A failing commit leaves what it has written, and what earlier ones had.
LEMMA HeldCommitFail ==
  ASSUME TypeOK, ContentComplete, Held, CommitFail
  PROVE  Held'
<1> DEFINE head == memory_batch[1]
<1>1. head \in Entry /\ durable <= head.pos /\ durable \in Nat
  <2>1. Len(memory_batch) # 0
    BY EmptySeq DEF CommitFail, TypeOK
  <2>2. 1 \in DOMAIN memory_batch
    BY <2>1, BatchShape
  <2> QED BY <2>2, BatchShape DEF Held, BatchOrdered, TypeOK
<1>2. PICK k \in 0..Len(head.elems) :
        store' = Inserted(store, head.pos, head.elems, k)
  BY DEF CommitFail
<1>3. /\ DOMAIN memory_batch' = {}
      /\ UNCHANGED <<mmr_size, content, durable>>
      /\ ~intact'
  <2>1. memory_batch' = <<>> /\ intact' = FALSE
        /\ UNCHANGED <<mmr_size, content, durable>>
    BY DEF CommitFail
  <2> QED BY <2>1
<1>4. store \in [DOMAIN store -> Item] /\ DOMAIN store \subseteq Nat
  BY DEF TypeOK
<1> HIDE DEF head
<1>5. DurablePrefix'
  <2> SUFFICES ASSUME NEW p \in 0..(durable - 1)
               PROVE  StoreGet(p)' = content[p + 1]
    BY <1>3 DEF DurablePrefix, StoreGet
  <2>1. head.pos \in Nat
    BY <1>1 DEF Entry
  <2>2. p \in Nat /\ p \notin head.pos..(head.pos + k - 1)
    BY <1>1, <2>1
  <2>3. Overwritten(store, head, k, store')
    BY <1>1, <1>2, <1>4, InsertedChanges
  <2>4. StoreGet(p)' = StoreGet(p)
    BY <2>2, <2>3 DEF Overwritten, StoreGet
  <2> QED BY <2>4 DEF Held, DurablePrefix
<1> QED BY <1>3, <1>5 DEF Held, BatchOrdered, BatchMatches, StoreMatches

\* A commit that returns leaves an empty batch, and the range in the store.
LEMMA HeldCommitEnd ==
  ASSUME TypeOK, ContentComplete, Held, CommitEnd
  PROVE  Held'
<1>1. /\ DOMAIN memory_batch = {}
      /\ UNCHANGED <<store, mmr_size, memory_batch, content, intact>>
      /\ durable' = IF intact THEN mmr_size ELSE durable
  <2>1. memory_batch = <<>>
    BY DEF CommitEnd
  <2> QED BY <2>1 DEF CommitEnd
<1>2. DurablePrefix'
  BY <1>1 DEF Held, StoreMatches, DurablePrefix, StoreGet
<1> QED BY <1>1, <1>2
        DEF Held, BatchOrdered, BatchMatches, StoreMatches, StoreGet

\* A reopened store holds the range it is opened at.
LEMMA HeldRestart ==
  ASSUME TypeOK, ContentComplete, Held, NEW size \in FinishedSizes, Restart(size)
  PROVE  Held'
<1>1. /\ mmr_size' = size /\ durable' = size /\ UNCHANGED store
      /\ size \in Nat /\ size <= durable
      /\ content' = SubSeq(content, 1, size)
  BY DEF Restart, TypeOK
<1>2. DOMAIN memory_batch' = {}
  <2>1. memory_batch' = <<>>
    BY DEF Restart
  <2> QED BY <2>1
<1>3. \A p \in 0..(size - 1) : content'[p + 1] = content[p + 1]
  <2>1. \A i \in 1..size : content[i] \in Item
    BY <1>1 DEF TypeOK, ContentComplete
  <2>2. \A i \in 1..(size - 1 + 1) : content'[i] = content[1 + i - 1]
    BY <1>1, <2>1, SubSeqProperties
  <2> TAKE p \in 0..(size - 1)
  <2>3. p + 1 \in 1..(size - 1 + 1) /\ 1 + (p + 1) - 1 = p + 1
    BY <1>1
  <2> QED BY <2>2, <2>3
<1>4. \A p \in 0..(size - 1) : StoreGet(p)' = content'[p + 1]
  BY <1>1, <1>3 DEF Held, DurablePrefix, StoreGet, TypeOK
<1> QED BY <1>1, <1>2, <1>4
        DEF Held, BatchOrdered, BatchMatches, StoreMatches, DurablePrefix

\* Batch and store hold the range after every step.
LEMMA HeldStep ==
  ASSUME TypeOK, ContentComplete, Held, DataStep
  PROVE  Held'
<1>1. CASE Quiet
  BY <1>1, HeldQuiet
<1>2. CASE Pushed
  BY <1>2, HeldPushed
<1>3. CASE CommitAppend
  BY <1>3, HeldCommitAppend
<1>4. CASE CommitFail
  BY <1>4, HeldCommitFail
<1>5. CASE CommitEnd
  BY <1>5, HeldCommitEnd
<1>6. ASSUME NEW size \in FinishedSizes, Restart(size) PROVE Held'
  BY <1>6, HeldRestart
<1> QED BY <1>1, <1>2, <1>3, <1>4, <1>5, <1>6 DEF DataStep, CommitStep

\* The invariant that the run checks is inductive, and holds for every Data and
\* every MaxSize.
THEOREM InvariantHolds == Spec => []IInv
<1>1. Init => TypeOK /\ ContentComplete /\ PushLocals /\ Held
  BY TypeInit, ContentInit, LocalsInit, HeldInit
<1>2. (TypeOK /\ ContentComplete /\ PushLocals /\ Held) /\ [Next]_vars
        => (TypeOK /\ ContentComplete /\ PushLocals /\ Held)'
  BY MMRDataStep, ShapeStep, HeldStep
<1>3. TypeOK /\ ContentComplete /\ PushLocals /\ Held => IInv
  BY DEF Held, IInv
<1> QED BY <1>1, <1>2, <1>3, PTL DEF Spec

\* A committed position keeps its item, whatever fails or crashes afterwards.
THEOREM CommittedSurvives == Spec => []DurablePrefix
<1>1. IInv => DurablePrefix
  BY DEF IInv
<1> QED BY <1>1, InvariantHolds, PTL

\* The lookup of push and that of the batch find the same item, if the batch is in order.
LEMMA BothLookups ==
  ASSUME TypeOK, Held
  PROVE  SameLookup
<1> SUFFICES ASSUME NEW p \in 0..mmr_size
             PROVE  get_elem(p) = get_elems(p)
  BY DEF SameLookup
<1>1. BatchOrdered /\ p \in Nat
  BY DEF Held, TypeOK
<1>2. CASE \E i \in DOMAIN memory_batch : p \in Extent(memory_batch[i])
  BY <1>1, <1>2, Lookup
<1>3. CASE ~ \E i \in DOMAIN memory_batch : p \in Extent(memory_batch[i])
  BY <1>1, <1>3, Lookup
<1> QED BY <1>2, <1>3

\* What push put there is in the batch or in the store.
LEMMA BatchOrStore ==
  ASSUME TypeOK, Held
  PROVE  ReadYourWrites
<1> SUFFICES ASSUME intact, NEW p \in 0..(mmr_size - 1)
             PROVE  get_elem(p) = content[p + 1]
  BY DEF ReadYourWrites
<1>1. BatchOrdered /\ p \in Nat
  BY DEF Held, TypeOK
<1>2. CASE \E i \in DOMAIN memory_batch : p \in Extent(memory_batch[i])
  BY <1>1, <1>2, Lookup DEF Held, BatchMatches
<1>3. CASE ~ \E i \in DOMAIN memory_batch : p \in Extent(memory_batch[i])
  BY <1>1, <1>3, Lookup DEF Held, StoreMatches
<1> QED BY <1>2, <1>3

\* get_elem and get_elems answer alike, even after a failed commit.
THEOREM LookupsAgree == Spec => []SameLookup
<1>1. IInv => SameLookup
  BY BothLookups DEF IInv, Held
<1> QED BY <1>1, InvariantHolds, PTL

\* Until a commit fails, every read below mmr_size gives what push put there.
THEOREM ReadsSeePushes == Spec => []ReadYourWrites
<1>1. IInv => ReadYourWrites
  BY BatchOrStore DEF IInv, Held
<1> QED BY <1>1, InvariantHolds, PTL

-----------------------------------------------------------------------------
(* push finds its siblings.                                                *)

\* The history holds an item for every position.
LEMMA ContentIsItem ==
  ASSUME TypeOK, ContentComplete, NEW p \in 0..(mmr_size - 1)
  PROVE  content[p + 1] \in Item
<1>1. content \in Seq(Item) /\ p + 1 \in 1..Len(content)
  BY DEF TypeOK, ContentComplete
<1> QED BY <1>1, ElementOfSeq

\* While nothing has failed, find_elem has every position from the first one to the
\* last node of the running push.
LEMMA FoundBelow ==
  ASSUME TypeOK, ContentComplete, Held, intact,
         NEW p \in 0..(mmr_size + Len(elems) - 1)
  PROVE  find_elem(p, elems) # None
<1>1. /\ mmr_size \in Nat /\ Len(elems) \in Nat /\ None \notin Item
  BY NoneAssumption DEF TypeOK
<1>2. CASE p >= mmr_size
  <2>1. p - mmr_size < Len(elems) /\ p - mmr_size + 1 \in 1..Len(elems)
    BY <1>1, <1>2
  <2>2. elems[p - mmr_size + 1] \in Item
    <3>1. elems \in Seq(Item)
      BY DEF TypeOK
    <3> QED BY <2>1, <3>1, ElementOfSeq
  <2> QED BY <1>1, <1>2, <2>1, <2>2 DEF find_elem
<1>3. CASE ~(p >= mmr_size)
  <2>1. p \in 0..(mmr_size - 1)
    BY <1>1, <1>3
  <2>2. get_elem(p) = content[p + 1] /\ content[p + 1] \in Item
    BY <2>1, BatchOrStore, ContentIsItem DEF ReadYourWrites
  <2> QED BY <1>1, <1>3, <2>2 DEF find_elem
<1> QED BY <1>2, <1>3

\* A mountain as high as the new one ends right before its first leaf, or before a
\* node that this push has made.
LEMMA LeftSiblingExists ==
  ASSUME TypeOK, PushLocals, phase = "pushing", LeftMountain
  PROVE  left_pos \in 0..(mmr_size + Len(elems) - 1)
<1> DEFINE h == Len(elems) - 1
<1>1. h \in Nat /\ mmr_size \in Nat /\ Len(elems) = h + 1
  <2>1. elems \in Seq(Item) /\ elems # <<>> /\ mmr_size \in Nat
    BY DEF TypeOK
  <2>2. Len(elems) \in Nat /\ Len(elems) # 0
    BY <2>1, EmptySeq, LenProperties
  <2> QED BY <2>1, <2>2
<1>2. pos + 1 = mmr_size + (h + 1) /\ peak = Pow2[h]
  BY <1>1 DEF PushLocals
<1>3. Pow2[h + 1] = 2 * peak /\ Pow2[h] \in Nat \ {0}
  BY <1>1, <1>2, Pow2Doubles
<1>4. h \in PeakHeights(mmr_size)
  BY <1>1, <1>2, PeakMapBits DEF LeftMountain
<1>5. Pow2[h + 1] - 1 <= mmr_size
  BY <1>1, <1>4, PeakFits
<1>6. left_pos = (pos + 1) - 2 * peak
  BY DEF left_pos
<1> HIDE DEF h
<1> QED BY <1>1, <1>2, <1>3, <1>5, <1>6

\* push never reports an inconsistent store unless a commit has failed.
THEOREM SiblingsFound == Spec => []PushFindsSiblings
<1>1. Init => PushFindsSiblings
  BY DEF Init, PushFindsSiblings
<1>2. IInv /\ PushFindsSiblings /\ [Next]_vars => PushFindsSiblings'
  <2> SUFFICES ASSUME IInv, PushFindsSiblings, [Next]_vars,
                      returned' = "push_inconsistent", intact'
               PROVE  FALSE
    BY DEF PushFindsSiblings
  <2>1. CASE PushInconsistent
    <3>1. phase = "pushing" /\ LeftMountain /\ find_elem(left_pos, elems) = None
          /\ intact
      BY <2>1 DEF PushInconsistent, history
    <3> QED BY <3>1, LeftSiblingExists, FoundBelow DEF IInv, Held
  <2>2. CASE UNCHANGED <<returned, intact>>
    BY <2>2 DEF PushFindsSiblings
  <2>3. PushInconsistent \/ UNCHANGED <<returned, intact>>
    BY DEF Next, PushStep, CommitStep, PushBegin, PushRefused, PushMerge, PushFail,
           PushEnd, CommitBegin, CommitAppend, CommitFail, CommitEnd, Restart, Return,
           vars, history
  <2> QED BY <2>1, <2>2, <2>3
<1> QED BY <1>1, <1>2, InvariantHolds, PTL DEF Spec

-----------------------------------------------------------------------------
(* Batch and store together implement the log of module NodeLog.           *)

\* What reading gives, as a predicate of one state: an item or None at every
\* position, what was committed below durable, and above that the element of the
\* entry that covers the position, or else what the store holds.
ReadsAs ==
  /\ mmr_size \in Nat /\ durable \in Nat /\ durable <= mmr_size
  /\ \A p \in Nat : get_elem(p) \in Item \cup {None}
  /\ \A p \in 0..(durable - 1) : get_elem(p) = content[p + 1]
  /\ \A p \in Nat : \A i \in DOMAIN memory_batch :
       p \in Extent(memory_batch[i]) => get_elem(p) = ElemAt(memory_batch[i], p)
  /\ \A p \in Nat :
       (\A i \in DOMAIN memory_batch : p \notin Extent(memory_batch[i]))
         => get_elem(p) = StoreGet(p)

\* While no commit has failed, the log that readers see is what push put there.
LEMMA InvariantReads ==
  ASSUME TypeOK, ContentComplete, Held
  PROVE  ReadsAs
<1>1. mmr_size \in Nat /\ durable \in Nat /\ durable <= mmr_size
  BY DEF TypeOK, ContentComplete
<1>2. \A p \in Nat : get_elem(p) \in Item \cup {None}
  BY GetElemType
<1>3. /\ \A p \in Nat : \A i \in DOMAIN memory_batch :
           p \in Extent(memory_batch[i]) => get_elem(p) = ElemAt(memory_batch[i], p)
      /\ \A p \in Nat :
           (\A i \in DOMAIN memory_batch : p \notin Extent(memory_batch[i]))
             => get_elem(p) = StoreGet(p)
  BY Lookup DEF Held
<1>4. ASSUME NEW p \in 0..(durable - 1) PROVE get_elem(p) = content[p + 1]
  <2>1. p \in Nat /\ p < durable
    BY <1>1
  <2>2. ASSUME NEW i \in DOMAIN memory_batch PROVE p \notin Extent(memory_batch[i])
    <3>1. durable <= memory_batch[i].pos /\ memory_batch[i].pos \in Nat
      BY BatchShape DEF Held, BatchOrdered
    <3> QED BY <1>1, <2>1, <3>1 DEF Extent
  <2>3. StoreGet(p) = content[p + 1]
    BY DEF Held, DurablePrefix
  <2> QED BY <1>3, <2>1, <2>2, <2>3
<1> QED BY <1>1, <1>2, <1>3, <1>4 DEF ReadsAs

-----------------------------------------------------------------------------
(* Each kind of step is a step of the log, or none.                        *)

TheLog == [i \in 1..mmr_size |-> get_elem(i - 1)]

\* The log is a sequence of what get_elem returns, position by position.
LEMMA TheLogIsSeq ==
  /\ ReadsAs => /\ TheLog \in Seq(Item \cup {None})
                /\ Len(TheLog) = mmr_size
                /\ \A i \in 1..mmr_size : TheLog[i] = get_elem(i - 1)
  /\ ReadsAs' => /\ TheLog' \in Seq(Item \cup {None})
                 /\ Len(TheLog') = mmr_size'
                 /\ \A i \in 1..mmr_size' : TheLog'[i] = get_elem(i - 1)'
<1>1. ASSUME ReadsAs
      PROVE  /\ TheLog \in Seq(Item \cup {None})
             /\ Len(TheLog) = mmr_size
             /\ \A i \in 1..mmr_size : TheLog[i] = get_elem(i - 1)
  <2>1. mmr_size \in Nat /\ \A i \in 1..mmr_size : get_elem(i - 1) \in Item \cup {None}
    BY <1>1 DEF ReadsAs
  <2> QED BY <2>1 DEF TheLog
<1>2. ASSUME ReadsAs'
      PROVE  /\ TheLog' \in Seq(Item \cup {None})
             /\ Len(TheLog') = mmr_size'
             /\ \A i \in 1..mmr_size' : TheLog'[i] = get_elem(i - 1)'
  <2>1. mmr_size' \in Nat /\ \A i \in 1..mmr_size' : get_elem(i - 1)' \in Item \cup {None}
    BY <1>2 DEF ReadsAs
  <2> QED BY <2>1 DEF TheLog
<1> QED BY <1>1, <1>2

\* No position reads otherwise.
SameLog == mmr_size' = mmr_size /\ \A p \in Nat : get_elem(p)' = get_elem(p)

\* A step that changes no read, no size and no commitment does not change the log.
LEMMA SameLogStutters ==
  ASSUME ReadsAs, ReadsAs', SameLog
  PROVE  TheLog' = TheLog
BY DEF TheLog, SameLog, ReadsAs

\* Reads depend on the store, the size and the batch alone.
LEMMA QuietStutters ==
  ASSUME UNCHANGED <<store, mmr_size, memory_batch>>
  PROVE  SameLog
<1>1. \A p \in Nat : get_elem(p)' = get_elem(p)
  BY DEF get_elem, StoreGet, Extent, ElemAt
<1> QED BY <1>1 DEF SameLog

\* The return of a push appends its nodes to the log, and damages nothing.
LEMMA PushedGrows ==
  ASSUME TypeOK, ContentComplete, Held, ReadsAs, ReadsAs', Pushed
  PROVE  Log!Grow
<1> DEFINE n == Len(memory_batch)
           entry == [pos |-> mmr_size, elems |-> elems]
<1>1. /\ n \in Nat /\ DOMAIN memory_batch = 1..n
      /\ \A i \in 1..n : /\ memory_batch[i].pos \in Nat
                         /\ Len(memory_batch[i].elems) \in Nat
      /\ mmr_size \in Nat
  BY BatchShape DEF TypeOK
<1>2. /\ DOMAIN memory_batch' = 1..(n + 1)
      /\ \A i \in 1..n : memory_batch'[i] = memory_batch[i]
      /\ memory_batch'[n + 1] = entry
  <2>1. memory_batch \in Seq(Entry) /\ entry \in Entry
    BY DEF TypeOK, Entry
  <2>2. memory_batch' = Append(memory_batch, entry)
    BY DEF Pushed
  <2> HIDE DEF entry
  <2> QED BY <2>1, <2>2, AppendProperties, LenProperties
<1>3. /\ mmr_size' = mmr_size + Len(elems) /\ Len(elems) \in Nat /\ Len(elems) # 0
      /\ UNCHANGED <<store, durable, intact>>
  <2>1. elems \in Seq(Item) /\ elems # <<>>
    BY DEF Pushed, TypeOK
  <2>2. Len(elems) \in Nat /\ Len(elems) # 0
    BY <2>1, EmptySeq, LenProperties
  <2> QED BY <2>2 DEF Pushed
<1> HIDE DEF n
<1>4. ASSUME NEW p \in 0..(mmr_size - 1) PROVE get_elem(p)' = get_elem(p)
  <2>1. p \in Nat
    OBVIOUS
  <2>2. CASE \E i \in DOMAIN memory_batch : p \in Extent(memory_batch[i])
    <3>1. PICK i \in 1..n : p \in Extent(memory_batch[i])
      BY <1>1, <2>2
    <3>2. i \in DOMAIN memory_batch' /\ memory_batch'[i] = memory_batch[i]
      BY <1>1, <1>2
    <3>3. get_elem(p)' = ElemAt(memory_batch'[i], p)
      BY <2>1, <3>1, <3>2 DEF ReadsAs, Extent, ElemAt
    <3>4. get_elem(p) = ElemAt(memory_batch[i], p)
      BY <1>1, <2>1, <3>1 DEF ReadsAs
    <3> QED BY <3>2, <3>3, <3>4 DEF ElemAt
  <2>3. CASE \A i \in DOMAIN memory_batch : p \notin Extent(memory_batch[i])
    <3>1. ASSUME NEW i \in DOMAIN memory_batch'
          PROVE  p \notin Extent(memory_batch'[i])
      <4>1. CASE i = n + 1
        BY <1>1, <1>2, <1>3, <4>1 DEF Extent
      <4>2. CASE i # n + 1
        BY <1>1, <1>2, <2>3, <4>2
      <4> QED BY <4>1, <4>2
    <3>2. get_elem(p)' = StoreGet(p)'
      BY <2>1, <3>1 DEF ReadsAs, Extent, ElemAt
    <3>3. get_elem(p) = StoreGet(p)
      BY <2>1, <2>3 DEF ReadsAs
    <3> QED BY <1>3, <3>2, <3>3 DEF StoreGet
  <2> QED BY <2>2, <2>3
<1>5. Len(TheLog') > Len(TheLog) /\ TheLog' \in Seq(Item \cup {None})
  BY <1>1, <1>3, TheLogIsSeq
<1>6. \A i \in 1..Len(TheLog) : TheLog'[i] = TheLog[i]
  <2> SUFFICES ASSUME NEW i \in 1..mmr_size PROVE TheLog'[i] = TheLog[i]
    BY TheLogIsSeq
  <2>1. i - 1 \in 0..(mmr_size - 1) /\ i \in 1..mmr_size'
    BY <1>1, <1>3
  <2> QED BY <1>4, <2>1, TheLogIsSeq
<1> QED BY <1>3, <1>5, <1>6 DEF Log!Grow, Log!Agree, TheLog

\* Writing a batch entry out moves nodes from the batch to the store: no read changes.
LEMMA CommitAppendStutters ==
  ASSUME TypeOK, ReadsAs, ReadsAs', CommitAppend
  PROVE  SameLog
<1> DEFINE n == Len(memory_batch)
           head == memory_batch[1]
<1>1. /\ n \in Nat \ {0} /\ DOMAIN memory_batch = 1..n
      /\ head \in Entry
  <2>1. n # 0
    BY EmptySeq DEF CommitAppend, TypeOK
  <2>2. /\ n \in Nat /\ DOMAIN memory_batch = 1..n
        /\ \A i \in 1..n : memory_batch[i] \in Entry
    BY BatchShape
  <2>3. 1 \in 1..n
    BY <2>1, <2>2
  <2> QED BY <2>1, <2>2, <2>3
<1>2. /\ DOMAIN memory_batch' = 1..(n - 1)
      /\ \A i \in 1..(n - 1) : memory_batch'[i] = memory_batch[i + 1]
  <2>1. memory_batch \in Seq(Entry) /\ memory_batch # <<>>
        /\ memory_batch' = Tail(memory_batch)
    BY DEF TypeOK, CommitAppend, Entry
  <2> QED BY <2>1, HeadTailProperties, LenProperties
<1>3. /\ \A q \in Extent(head) : StoreGet(q)' = ElemAt(head, q)
      /\ \A q \in Nat \ Extent(head) : StoreGet(q)' = StoreGet(q)
  BY <1>1, AppendedStore
<1> HIDE DEF n, head
<1>4. ASSUME NEW p \in Nat PROVE get_elem(p)' = get_elem(p)
  <2>1. CASE \E i \in DOMAIN memory_batch' : p \in Extent(memory_batch'[i])
    <3>1. PICK i \in 1..(n - 1) : p \in Extent(memory_batch'[i])
      BY <1>2, <2>1
    <3>2. /\ i + 1 \in DOMAIN memory_batch /\ i \in DOMAIN memory_batch'
          /\ memory_batch'[i] = memory_batch[i + 1]
      BY <1>1, <1>2
    <3>3. get_elem(p)' = ElemAt(memory_batch'[i], p)
      BY <3>1, <3>2 DEF ReadsAs, Extent, ElemAt
    <3>4. get_elem(p) = ElemAt(memory_batch[i + 1], p)
      BY <3>1, <3>2 DEF ReadsAs
    <3> QED BY <3>2, <3>3, <3>4
  <2>2. CASE \A i \in DOMAIN memory_batch' : p \notin Extent(memory_batch'[i])
    <3>1. get_elem(p)' = StoreGet(p)'
      BY <2>2 DEF ReadsAs, Extent, ElemAt
    <3>2. CASE p \in Extent(head)
      <4>1. get_elem(p) = ElemAt(head, p)
        <5>1. 1 \in DOMAIN memory_batch
          BY <1>1
        <5> QED BY <3>2, <5>1 DEF ReadsAs, head
      <4> QED BY <1>3, <3>1, <3>2, <4>1
    <3>3. CASE p \notin Extent(head)
      <4>1. ASSUME NEW i \in DOMAIN memory_batch PROVE p \notin Extent(memory_batch[i])
        <5>1. CASE i = 1
          BY <3>3, <5>1 DEF head
        <5>2. CASE i # 1
          <6>1. i - 1 \in DOMAIN memory_batch' /\ memory_batch'[i - 1] = memory_batch[i]
            BY <1>1, <1>2, <5>2
          <6> QED BY <2>2, <6>1
        <5> QED BY <5>1, <5>2
      <4>2. get_elem(p) = StoreGet(p)
        BY <4>1 DEF ReadsAs
      <4> QED BY <1>3, <3>1, <3>3, <4>2
    <3> QED BY <3>2, <3>3
  <2> QED BY <2>1, <2>2
<1>5. mmr_size' = mmr_size
  BY DEF CommitAppend
<1> QED BY <1>4, <1>5 DEF SameLog

\* What is committed reads the same in every state that has the same history of it.
LEMMA DurableAgrees ==
  ASSUME ReadsAs, ReadsAs', NEW k \in Nat, k <= durable, k <= durable',
         \A i \in 1..k : content'[i] = content[i]
  PROVE  \A i \in 1..k : TheLog'[i] = TheLog[i]
<1> SUFFICES ASSUME NEW i \in 1..k PROVE TheLog'[i] = TheLog[i]
  OBVIOUS
<1>1. /\ i - 1 \in 0..(durable - 1) /\ i - 1 \in 0..(durable' - 1)
      /\ i \in 1..mmr_size /\ i \in 1..mmr_size' /\ (i - 1) + 1 = i
  <2>1. /\ mmr_size \in Nat /\ durable \in Nat /\ durable <= mmr_size
        /\ mmr_size' \in Nat /\ durable' \in Nat /\ durable' <= mmr_size'
    BY DEF ReadsAs
  <2>2. \A d \in Nat : k <= d => i - 1 \in 0..(d - 1)
    OBVIOUS
  <2>3. i \in 1..mmr_size /\ i \in 1..mmr_size' /\ (i - 1) + 1 = i
    BY <2>1
  <2> QED BY <2>1, <2>2, <2>3
<1>2. get_elem(i - 1) = content[i]
  BY <1>1 DEF ReadsAs
<1>3. get_elem(i - 1)' = content'[i]
  BY <1>1 DEF ReadsAs
<1> QED BY <1>1, <1>2, <1>3, TheLogIsSeq

\* A commit that fails may lose what it had not written, nothing that was committed.
LEMMA CommitFailDamages ==
  ASSUME ReadsAs, ReadsAs', CommitFail
  PROVE  Log!Damage
<1>1. UNCHANGED <<mmr_size, content, durable>> /\ ~intact'
  <2>1. intact' = FALSE
    BY DEF CommitFail
  <2> QED BY <2>1 DEF CommitFail
<1>2. TheLog' \in Seq(Item \cup {None}) /\ Len(TheLog') = Len(TheLog)
  BY <1>1, TheLogIsSeq
<1>3. \A i \in 1..durable : TheLog'[i] = TheLog[i]
  BY <1>1, DurableAgrees DEF ReadsAs
<1> QED BY <1>1, <1>2, <1>3 DEF Log!Damage, Log!Agree, TheLog

\* The return of a commit makes the log durable, unless nodes were lost before.
LEMMA CommitEndPersists ==
  ASSUME ReadsAs, ReadsAs', CommitEnd
  PROVE  Log!Persist \/ UNCHANGED Log!logVars
<1>1. /\ UNCHANGED <<store, mmr_size, memory_batch, intact>>
      /\ durable' = IF intact THEN mmr_size ELSE durable
  BY DEF CommitEnd
<1>2. TheLog' = TheLog /\ Len(TheLog) = mmr_size
  BY <1>1, QuietStutters, SameLogStutters, TheLogIsSeq
<1> QED BY <1>1, <1>2 DEF Log!Persist, Log!logVars, TheLog

\* Reopening the store at a finished size leaves the log that was there.
LEMMA RestartReopens ==
  ASSUME TypeOK, ContentComplete, ReadsAs, ReadsAs',
         NEW size \in FinishedSizes, Restart(size)
  PROVE  Log!Reopen
<1>1. /\ size \in 0..durable /\ size \in Nat /\ size <= durable
      /\ mmr_size' = size /\ durable' = size /\ intact'
      /\ content' = SubSeq(content, 1, size)
  <2>1. intact' = TRUE
    BY DEF Restart
  <2> QED BY <2>1 DEF Restart, ReadsAs
<1>2. \A i \in 1..size : content'[i] = content[i]
  <2>1. content \in Seq(Item) /\ size <= Len(content)
    BY <1>1 DEF TypeOK, ContentComplete
  <2>2. \A i \in 1..size : content[i] \in Item
    BY <1>1, <2>1
  <2> QED BY <1>1, <2>1, <2>2, SubSeqProperties
<1>3. \A i \in 1..size : TheLog'[i] = TheLog[i]
  BY <1>1, <1>2, DurableAgrees
<1>4. TheLog' = SubSeq(TheLog, 1, size)
  <2>1. /\ TheLog \in Seq(Item \cup {None}) /\ size <= Len(TheLog)
        /\ TheLog' \in Seq(Item \cup {None}) /\ Len(TheLog') = size
    BY <1>1, TheLogIsSeq DEF ReadsAs
  <2> QED BY <1>1, <1>3, <2>1
<1> QED BY <1>1, <1>4 DEF Log!Reopen, TheLog

-----------------------------------------------------------------------------

\* Each step is one of the log's, or none.
LEMMA LogStep ==
  ASSUME TypeOK, ContentComplete, Held, ReadsAs, ReadsAs', DataStep
  PROVE  [Log!Next]_(Log!logVars)
<1>1. CASE Quiet
  <2>1. TheLog' = TheLog /\ UNCHANGED <<durable, intact>>
    BY <1>1, QuietStutters, SameLogStutters DEF Quiet
  <2> QED BY <2>1 DEF Log!logVars, TheLog
<1>2. CASE Pushed
  BY <1>2, PushedGrows DEF Log!Next
<1>3. CASE CommitAppend
  <2>1. TheLog' = TheLog /\ UNCHANGED <<durable, intact>>
    BY <1>3, CommitAppendStutters, SameLogStutters DEF CommitAppend, history
  <2> QED BY <2>1 DEF Log!logVars, TheLog
<1>4. CASE CommitFail
  BY <1>4, CommitFailDamages DEF Log!Next
<1>5. CASE CommitEnd
  BY <1>5, CommitEndPersists DEF Log!Next
<1>6. ASSUME NEW size \in FinishedSizes, Restart(size)
      PROVE  [Log!Next]_(Log!logVars)
  BY <1>6, RestartReopens DEF Log!Next
<1> QED BY <1>1, <1>2, <1>3, <1>4, <1>5, <1>6 DEF DataStep, CommitStep

\* The MMR starts with the empty log.
LEMMA LogInit == Init => Log!Init
<1> SUFFICES ASSUME Init PROVE Log!Init
  OBVIOUS
<1>1. mmr_size = 0 /\ durable = 0 /\ intact
  BY DEF Init
<1> QED BY <1>1 DEF Log!Init

\* Batch and store together are the log that NodeLog describes: whole pushes are
\* appended, writing the batch out changes nothing that can be read, and failed
\* commits and crashes touch nothing that was committed.
THEOREM LogRefined == Spec => IsNodeLog
<1>1. Init => Log!Init
  BY LogInit
<1>2. IInv => ReadsAs
  BY InvariantReads DEF IInv, Held
<1>3. IInv /\ ReadsAs /\ ReadsAs' /\ [Next]_vars => [Log!Next]_(Log!logVars)
  BY MMRDataStep, LogStep DEF IInv, Held
<1> QED BY <1>1, <1>2, <1>3, InvariantHolds, PTL DEF Spec, IsNodeLog, Log!Spec

-----------------------------------------------------------------------------
(* Push merges the right nodes, whatever fails or crashes: each position    *)
(* holds a leaf or the merge of its children.  What both flavours of push  *)
(* have in common comes first; at says which number is hashed into the     *)
(* node of each position.                                                  *)

IsNode(items, p, number) ==
  LET h == index_height_mmriver(p)
  IN  IF h = 0 THEN \E d \in Data : items[p + 1] = leaf_hash(d)
      ELSE items[p + 1] = merge_pos(number, items[p - Pow2[h] + 1], items[p])

\* Between two calls a leaf comes next, and every node is in its place.
TreeBuilt(at) ==
  /\ index_height_mmriver(mmr_size) = 0
  /\ \A p \in Sound : IsNode(content, p, at[p])

\* The new nodes of a push go up from a leaf, each over the one before.
NewNodes(at) ==
  \A k \in 0..(Len(elems) - 1) :
    /\ index_height_mmriver(mmr_size + k) = k
    /\ intact => IsNode(content \o elems, mmr_size + k, at[mmr_size + k])

-----------------------------------------------------------------------------
(* What push adds.                                                         *)

\* Whether an item is that of a node depends on what comes before it alone.
LEMMA NodeKept ==
  ASSUME NEW items, NEW other, NEW p \in Nat, NEW number,
         \A q \in 1..(p + 1) : other[q] = items[q],
         IsNode(items, p, number)
  PROVE  IsNode(other, p, number)
<1> DEFINE h == index_height_mmriver(p)
<1>1. CASE h = 0
  BY <1>1 DEF IsNode
<1>2. CASE h # 0
  <2>1. p - 1 \in Nat /\ p - Pow2[h] \in Nat
    BY <1>2, ChildrenHeights
  <2>2. Pow2[h] \in Nat \ {0}
    BY NodeHeight, TreeSizes
  <2>3. p - Pow2[h] + 1 \in 1..(p + 1) /\ p \in 1..(p + 1) /\ p + 1 \in 1..(p + 1)
    <3> HIDE DEF h
    <3> QED BY <2>1, <2>2
  <2>4. items[p + 1] = merge_pos(number, items[p - Pow2[h] + 1], items[p])
    BY <1>2 DEF IsNode
  <2>5. other[p + 1] = merge_pos(number, other[p - Pow2[h] + 1], other[p])
    <3> HIDE DEF h
    <3> QED BY <2>3, <2>4
  <2> QED BY <1>2, <2>5 DEF IsNode
<1> QED BY <1>1, <1>2

\* The nodes there are, and after them those of the running push.
LEMMA Appended ==
  ASSUME NEW old \in Seq(Item), NEW new \in Seq(Item)
  PROVE  /\ Len(old) \in Nat /\ Len(new) \in Nat
         /\ \A n \in 1..Len(old) : (old \o new)[n] = old[n]
         /\ \A k \in 1..Len(new) : (old \o new)[Len(old) + k] = new[k]
<1>1. Len(old) \in Nat /\ Len(new) \in Nat
  OBVIOUS
<1>2. \A n \in 1..(Len(old) + Len(new)) :
        (old \o new)[n] = IF n <= Len(old) THEN old[n] ELSE new[n - Len(old)]
  BY ConcatProperties
<1>3. ASSUME NEW k \in 1..Len(new) PROVE (old \o new)[Len(old) + k] = new[k]
  <2>1. /\ Len(old) + k \in 1..(Len(old) + Len(new)) /\ ~(Len(old) + k <= Len(old))
        /\ (Len(old) + k) - Len(old) = k
    BY <1>1
  <2> QED BY <1>2, <2>1
<1>4. ASSUME NEW n \in 1..Len(old) PROVE (old \o new)[n] = old[n]
  <2>1. n \in 1..(Len(old) + Len(new)) /\ n <= Len(old)
    BY <1>1
  <2> QED BY <1>2, <2>1
<1> QED BY <1>1, <1>3, <1>4

\* The nodes of a push under way come after those of the MMR.
LEMMA NodesInOrder ==
  /\ TypeOK /\ ContentComplete =>
       /\ mmr_size \in Nat /\ Len(elems) \in Nat
       /\ \A n \in 1..mmr_size : (content \o elems)[n] = content[n]
       /\ \A k \in 1..Len(elems) : (content \o elems)[mmr_size + k] = elems[k]
  /\ TypeOK' /\ ContentComplete' =>
       /\ mmr_size' \in Nat /\ Len(elems') \in Nat
       /\ \A n \in 1..mmr_size' : (content' \o elems')[n] = content'[n]
       /\ \A k \in 1..Len(elems') : (content' \o elems')[mmr_size' + k] = elems'[k]
<1>1. ASSUME TypeOK, ContentComplete
      PROVE  content \in Seq(Item) /\ elems \in Seq(Item) /\ Len(content) = mmr_size
  BY <1>1 DEF TypeOK, ContentComplete
<1>2. ASSUME TypeOK', ContentComplete'
      PROVE  /\ content' \in Seq(Item) /\ elems' \in Seq(Item)
             /\ Len(content') = mmr_size'
  BY <1>2 DEF TypeOK, ContentComplete
<1> QED BY <1>1, <1>2, Appended

\* While nothing has failed, find_elem gives the item at every position up to there.
LEMMA FoundItem ==
  ASSUME TypeOK, ContentComplete, Held, intact,
         NEW p \in 0..(mmr_size + Len(elems) - 1)
  PROVE  find_elem(p, elems) = (content \o elems)[p + 1]
<1>1. mmr_size \in Nat /\ Len(elems) \in Nat
  BY NodesInOrder
<1>2. CASE p >= mmr_size
  <2>1. /\ p - mmr_size < Len(elems) /\ p - mmr_size + 1 \in 1..Len(elems)
        /\ mmr_size + (p - mmr_size + 1) = p + 1
    BY <1>1, <1>2
  <2>2. (content \o elems)[mmr_size + (p - mmr_size + 1)] = elems[p - mmr_size + 1]
    BY <2>1, NodesInOrder
  <2> QED BY <1>2, <2>1, <2>2 DEF find_elem
<1>3. CASE ~(p >= mmr_size)
  <2>1. p \in 0..(mmr_size - 1) /\ p + 1 \in 1..mmr_size
    BY <1>1, <1>3
  <2>2. get_elem(p) = content[p + 1]
    BY <2>1, BatchOrStore DEF ReadYourWrites
  <2>3. (content \o elems)[p + 1] = content[p + 1]
    BY <2>1, NodesInOrder
  <2> QED BY <1>3, <2>2, <2>3 DEF find_elem
<1> QED BY <1>2, <1>3

\* The first node of a push is a leaf, and is where a leaf belongs.
LEMMA FirstNode ==
  ASSUME NEW at, NEW d \in Data, TypeOK', ContentComplete',
         TreeBuilt(at), elems' = <<leaf_hash(d)>>, UNCHANGED mmr_size
  PROVE  NewNodes(at)'
<1>1. /\ mmr_size' \in Nat
      /\ \A k \in 1..Len(elems') : (content' \o elems')[mmr_size' + k] = elems'[k]
  BY ONLY TypeOK', ContentComplete', NodesInOrder
<1>2. Len(elems') = 1 /\ elems'[1] = leaf_hash(d)
  OBVIOUS
<1>3. (content' \o elems')[mmr_size' + 1] = leaf_hash(d)
  <2>1. 1 \in 1..Len(elems')
    BY <1>2
  <2> QED BY ONLY <1>1, <1>2, <2>1
<1>4. index_height_mmriver(mmr_size') = 0
  BY DEF TreeBuilt
<1>5. IsNode(content' \o elems', mmr_size', at[mmr_size'])
  BY <1>3, <1>4 DEF IsNode
<1> SUFFICES ASSUME NEW k \in 0..(Len(elems') - 1)
             PROVE  /\ index_height_mmriver(mmr_size' + k) = k
                    /\ IsNode(content' \o elems', mmr_size' + k, at[mmr_size' + k])
  BY DEF NewNodes, IsNode
<1>6. k = 0 /\ mmr_size' + k = mmr_size'
  BY <1>1, <1>2
<1> QED BY <1>4, <1>5, <1>6

\* One more iteration of the loop.  Its right child is the node before it, its left
\* one comes before as many nodes as there are in a tree of that height.
LEMMA MergedNode ==
  ASSUME NEW at, NEW left, NEW right,
         TypeOK, ContentComplete, Held, TypeOK', ContentComplete', NewNodes(at),
         elems # <<>>,
         index_height_mmriver(mmr_size + Len(elems)) = Len(elems),
         left = find_elem(mmr_size + Len(elems) - Pow2[Len(elems)], elems),
         right = find_elem(mmr_size + Len(elems) - 1, elems),
         elems' = Append(elems, merge_pos(at[mmr_size + Len(elems)], left, right)),
         UNCHANGED <<mmr_size, content, intact>>
  PROVE  NewNodes(at)'
<1> DEFINE n == Len(elems)
           new == merge_pos(at[mmr_size + n], left, right)
           before == content \o elems
           after == content' \o elems'
<1>1. /\ mmr_size \in Nat /\ n \in Nat \ {0}
      /\ \A q \in 1..mmr_size : before[q] = content[q]
      /\ \A k \in 1..n : before[mmr_size + k] = elems[k]
  <2>1. n # 0
    BY EmptySeq DEF TypeOK
  <2> QED BY <2>1, NodesInOrder
<1>2. /\ \A q \in 1..mmr_size' : after[q] = content'[q]
      /\ \A k \in 1..Len(elems') : after[mmr_size' + k] = elems'[k]
  BY NodesInOrder
<1>3. Len(elems') = n + 1 /\ elems'[n + 1] = new
      /\ \A k \in 1..n : elems'[k] = elems[k]
  <2>1. elems \in Seq(Item)
    BY DEF TypeOK
  <2> HIDE DEF new
  <2>2. elems' = Append(elems, new)
    BY DEF new
  <2> QED BY <2>1, <2>2
<1> HIDE DEF n, new, before, after
<1>4. \A q \in 1..(mmr_size + n) : after[q] = before[q]
  <2> TAKE q \in 1..(mmr_size + n)
  <2>1. CASE q <= mmr_size
    <3>1. q \in 1..mmr_size
      BY <1>1, <2>1
    <3> QED BY <1>1, <1>2, <3>1
  <2>2. CASE ~(q <= mmr_size)
    <3>1. q - mmr_size \in 1..n /\ mmr_size + (q - mmr_size) = q
          /\ q - mmr_size \in 1..(n + 1)
      BY <1>1, <2>2
    <3>2. before[q] = elems[q - mmr_size]
      BY <1>1, <3>1
    <3>3. after[q] = elems'[q - mmr_size]
      BY <1>2, <1>3, <3>1
    <3> QED BY <1>3, <3>1, <3>2, <3>3
  <2> QED BY <2>1, <2>2
<1>5. after[mmr_size + (n + 1)] = new
  <2>1. n + 1 \in 1..Len(elems')
    BY <1>1, <1>3
  <2> QED BY <1>2, <1>3, <2>1
<1> DEFINE p == mmr_size + n
<1>6. index_height_mmriver(p) = n
  BY DEF n
<1>7. /\ p \in Nat /\ p - 1 \in Nat /\ p - Pow2[n] \in Nat /\ Pow2[n] \in Nat \ {0}
  <2>1. p \in Nat /\ n # 0
    BY <1>1
  <2>2. p - 1 \in Nat /\ p - Pow2[n] \in Nat
    <3> HIDE DEF p
    <3> QED BY <1>6, <2>1, ChildrenHeights
  <2> QED BY <1>1, <2>1, <2>2, TreeSizes
<1>8. ASSUME intact PROVE left = before[p - Pow2[n] + 1] /\ right = before[p]
  <2>1. p - 1 \in 0..(p - 1) /\ p - Pow2[n] \in 0..(p - 1) /\ (p - 1) + 1 = p
    <3> HIDE DEF p
    <3> QED BY <1>7
  <2>2. \A q \in 0..(mmr_size + Len(elems) - 1) : find_elem(q, elems) = before[q + 1]
    <3> TAKE q \in 0..(mmr_size + Len(elems) - 1)
    <3>1. find_elem(q, elems) = (content \o elems)[q + 1]
      BY ONLY TypeOK, ContentComplete, Held, <1>8, FoundItem,
              q \in 0..(mmr_size + Len(elems) - 1)
    <3> QED BY <3>1 DEF before
  <2>3. /\ p - 1 = mmr_size + Len(elems) - 1
        /\ p - Pow2[n] = mmr_size + Len(elems) - Pow2[Len(elems)]
    BY <1>1, <1>7 DEF n
  <2> HIDE DEF p
  <2>4. left = before[(p - Pow2[n]) + 1]
    BY <2>1, <2>2, <2>3
  <2>5. right = before[(p - 1) + 1]
    BY <2>1, <2>2, <2>3
  <2> QED BY <2>1, <2>4, <2>5
<1>9. ASSUME intact PROVE IsNode(after, p, at[p])
  <2>1. p + 1 = mmr_size + (n + 1) /\ after[p + 1] = new
    BY <1>1, <1>5
  <2>2. new = merge_pos(at[p], before[p - Pow2[n] + 1], before[p])
    BY <1>8, <1>9 DEF new
  <2>3. p - Pow2[n] + 1 \in 1..(mmr_size + n) /\ p \in 1..(mmr_size + n)
    BY <1>7
  <2>4. after[p - Pow2[n] + 1] = before[p - Pow2[n] + 1] /\ after[p] = before[p]
    BY <1>4, <2>3
  <2> HIDE DEF p
  <2> QED BY <1>1, <1>6, <2>1, <2>2, <2>4 DEF IsNode
<1> SUFFICES ASSUME NEW k \in 0..n
             PROVE  /\ index_height_mmriver(mmr_size + k) = k
                    /\ intact => IsNode(after, mmr_size + k, at[mmr_size + k])
  <2>1. Len(elems') - 1 = n
    BY <1>1, <1>3
  <2> QED BY <2>1 DEF NewNodes, after
<1>10. CASE k = n
  BY <1>6, <1>9, <1>10
<1>11. CASE k # n
  <2>1. k \in 0..(n - 1)
    BY <1>1, <1>11
  <2>2. /\ index_height_mmriver(mmr_size + k) = k
        /\ intact => IsNode(before, mmr_size + k, at[mmr_size + k])
    BY <2>1 DEF NewNodes, n, before
  <2>3. mmr_size + k \in Nat /\ \A q \in 1..((mmr_size + k) + 1) : q \in 1..(mmr_size + n)
    BY <1>1, <2>1
  <2>4. \A q \in 1..((mmr_size + k) + 1) : after[q] = before[q]
    BY <1>4, <2>3
  <2>5. ASSUME intact PROVE IsNode(after, mmr_size + k, at[mmr_size + k])
    BY <2>2, <2>3, <2>4, <2>5, NodeKept
  <2> QED BY <2>2, <2>5
<1> QED BY <1>10, <1>11

\* The new nodes become nodes of the MMR.
LEMMA NodesPushed ==
  ASSUME NEW at, TypeOK, ContentComplete, TreeBuilt(at), NewNodes(at), Pushed,
         index_height_mmriver(mmr_size + Len(elems)) = 0
  PROVE  TreeBuilt(at)'
<1>1. /\ mmr_size \in Nat /\ Len(elems) \in Nat
      /\ \A q \in 1..mmr_size : (content \o elems)[q] = content[q]
  BY NodesInOrder
<1>2. /\ mmr_size' = mmr_size + Len(elems) /\ content' = content \o elems
      /\ UNCHANGED <<durable, intact>>
  BY DEF Pushed
<1>3. durable \in Nat /\ durable <= mmr_size
  BY DEF TypeOK, ContentComplete
<1>4. ASSUME NEW p \in Sound' PROVE IsNode(content', p, at[p])
  <2>1. CASE p < mmr_size
    <3>1. p \in Nat /\ p \in Sound
      BY <1>1, <1>2, <1>3, <2>1 DEF Sound
    <3>2. IsNode(content, p, at[p])
      BY <3>1 DEF TreeBuilt
    <3>3. \A q \in 1..(p + 1) : content'[q] = content[q]
      <4>1. \A q \in 1..(p + 1) : q \in 1..mmr_size
        BY <1>1, <2>1, <3>1
      <4> QED BY <1>1, <1>2, <4>1
    <3> QED BY <3>1, <3>2, <3>3, NodeKept
  <2>2. CASE ~(p < mmr_size)
    <3>1. intact /\ p - mmr_size \in 0..(Len(elems) - 1)
          /\ mmr_size + (p - mmr_size) = p
      BY <1>1, <1>2, <1>3, <2>2 DEF Sound
    <3>2. IsNode(content \o elems, mmr_size + (p - mmr_size), at[mmr_size + (p - mmr_size)])
      BY <3>1 DEF NewNodes
    <3> QED BY <1>2, <3>1, <3>2
  <2> QED BY <2>1, <2>2
<1> QED BY <1>2, <1>4 DEF TreeBuilt, IsNode

\* Nothing else changes the nodes that are not in doubt.
LEMMA TreeKept ==
  ASSUME NEW at, TypeOK, ContentComplete, TreeBuilt(at),
         Quiet \/ CommitStep \/ \E size \in FinishedSizes : Restart(size)
  PROVE  TreeBuilt(at)'
<1>1. /\ mmr_size \in Nat /\ durable \in Nat /\ durable <= mmr_size
      /\ content \in Seq(Item) /\ Len(content) = mmr_size
  BY DEF TypeOK, ContentComplete
<1>2. CASE Quiet \/ CommitStep
  <2>1. UNCHANGED <<mmr_size, content>>
    BY <1>2 DEF Quiet, CommitStep, CommitAppend, CommitFail, CommitEnd, history
  <2>2. \/ UNCHANGED <<intact, durable>>
        \/ ~intact' /\ UNCHANGED durable
        \/ UNCHANGED intact /\ durable' = IF intact THEN mmr_size ELSE durable
    <3>1. CASE CommitFail
      <4>1. intact' = FALSE /\ UNCHANGED durable
        BY <3>1 DEF CommitFail
      <4> QED BY <4>1
    <3> QED BY <1>2, <3>1 DEF Quiet, CommitStep, CommitAppend, CommitEnd, history
  <2>3. Sound' \subseteq Sound
    BY <1>1, <2>1, <2>2 DEF Sound
  <2> QED BY <2>1, <2>3 DEF TreeBuilt, IsNode
<1>3. ASSUME NEW size \in FinishedSizes, Restart(size) PROVE TreeBuilt(at)'
  <2>1. /\ size \in Nat /\ size <= durable /\ mmr_size' = size /\ durable' = size
        /\ content' = SubSeq(content, 1, size)
    BY <1>1, <1>3 DEF Restart
  <2>2. index_height_mmriver(size) = 0
    <3>1. CASE size = 0
      BY <3>1, FirstIsLeaf
    <3>2. CASE size # 0
      <4>1. PICK q \in 0..MaxSize : size = leaf_index_to_mmr_size(q)
        BY <3>2 DEF FinishedSizes
      <4>2. q \in Nat
        OBVIOUS
      <4> QED BY <4>1, <4>2, LeafIndexHeight
    <3> QED BY <3>1, <3>2
  <2>3. \A q \in 1..size : content'[q] = content[q]
    <3>1. size <= Len(content) /\ \A q \in 1..size : content[q] \in Item
      BY <1>1, <2>1
    <3> QED BY <1>1, <2>1, <3>1, SubSeqProperties
  <2>4. ASSUME NEW p \in Sound' PROVE IsNode(content', p, at[p])
    <3>1. p \in Nat /\ p < size
      BY <2>1, <2>4 DEF Sound
    <3>2. p \in Sound
      BY <1>1, <2>1, <3>1 DEF Sound
    <3>3. IsNode(content, p, at[p])
      BY <3>2 DEF TreeBuilt
    <3>4. \A q \in 1..(p + 1) : content'[q] = content[q]
      BY <2>1, <2>3, <3>1
    <3> QED BY <3>1, <3>3, <3>4, NodeKept
  <2> QED BY <2>1, <2>2, <2>4 DEF TreeBuilt, IsNode
<1> QED BY <1>2, <1>3

\* The empty range has no nodes that could be wrong.
LEMMA TreeInit ==
  ASSUME NEW at, Init
  PROVE  TreeBuilt(at)
BY FirstIsLeaf DEF Init, TreeBuilt, Sound

\* What comes after the new nodes is a parent of the last one, or a leaf.
LEMMA AfterNewNodes ==
  ASSUME NEW at, TypeOK, ContentComplete, NewNodes(at), elems # <<>>
  PROVE  /\ index_height_mmriver(mmr_size + Len(elems)) \in {0, Len(elems)}
         /\ Len(elems) - 1 \in PeakHeights(mmr_size)
              <=> index_height_mmriver(mmr_size + Len(elems)) = Len(elems)
         /\ Len(elems) \in Nat \ {0} /\ mmr_size \in Nat
<1> DEFINE last == Len(elems) - 1
<1>1. last \in Nat /\ last + 1 = Len(elems) /\ mmr_size \in Nat /\ Len(elems) \in Nat \ {0}
  <2>1. Len(elems) # 0
    BY EmptySeq DEF TypeOK
  <2> QED BY <2>1, NodesInOrder
<1>2. \A l \in 0..last : index_height_mmriver(mmr_size + l) = l
  BY DEF NewNodes
<1> HIDE DEF last
<1>3. last \in PeakHeights(mmr_size)
        <=> index_height_mmriver(mmr_size + (last + 1)) = last + 1
  BY <1>1, <1>2, NextIsParent
<1>4. /\ index_height_mmriver(mmr_size + last) = last
      /\ mmr_size + last \in Nat /\ (mmr_size + last) + 1 = mmr_size + Len(elems)
  BY <1>1, <1>2
<1>5. index_height_mmriver((mmr_size + last) + 1) \in {0, last + 1}
  BY <1>4, NextHeight
<1> QED BY <1>1, <1>3, <1>4, <1>5 DEF last

-----------------------------------------------------------------------------
(* MMR.                                                                    *)

NoNumber == [p \in Nat |-> 0]

MMRTree ==
  /\ TreeBuilt(NoNumber)
  /\ phase = "pushing" => NewNodes(NoNumber)

\* The loop ends where no parent is due.
LEMMA MountainBefore ==
  ASSUME TypeOK, ContentComplete, PushLocals, phase = "pushing", NewNodes(NoNumber)
  PROVE  LET next == mmr_size + Len(elems)
         IN  /\ LeftMountain => index_height_mmriver(next) = Len(elems)
             /\ ~LeftMountain => index_height_mmriver(next) = 0
<1>1. elems # <<>> /\ peak = Pow2[Len(elems) - 1]
  BY DEF TypeOK, PushLocals
<1>2. /\ index_height_mmriver(mmr_size + Len(elems)) \in {0, Len(elems)}
      /\ Len(elems) - 1 \in PeakHeights(mmr_size)
           <=> index_height_mmriver(mmr_size + Len(elems)) = Len(elems)
      /\ Len(elems) \in Nat \ {0} /\ mmr_size \in Nat
  BY <1>1, AfterNewNodes
<1>3. LeftMountain <=> Len(elems) - 1 \in PeakHeights(mmr_size)
  <2>1. Len(elems) - 1 \in Nat
    BY <1>2
  <2> QED BY <1>1, <1>2, <2>1, PeakMapBits DEF LeftMountain
<1> QED BY <1>2, <1>3

\* A merge by push adds the parent of the node before and of its sibling.
LEMMA MMRMerge ==
  ASSUME IInv, IInv', NewNodes(NoNumber), PushMerge
  PROVE  NewNodes(NoNumber)'
<1> DEFINE n == Len(elems)
           left == find_elem(mmr_size + n - Pow2[n], elems)
           right == find_elem(mmr_size + n - 1, elems)
<1>1. /\ TypeOK /\ ContentComplete /\ Held /\ PushLocals
      /\ TypeOK' /\ ContentComplete'
      /\ phase = "pushing" /\ LeftMountain /\ elems # <<>>
      /\ UNCHANGED <<mmr_size, content, intact>>
  BY DEF IInv, Held, PushMerge, history, TypeOK
<1>2. n \in Nat \ {0} /\ mmr_size \in Nat
  BY <1>1, AfterNewNodes
<1>3. pos + 1 = mmr_size + n /\ peak = Pow2[n - 1] /\ pos \in Nat
  BY <1>1 DEF PushLocals, TypeOK
<1>4. Pow2[n] = 2 * peak /\ peak \in Nat
  <2>1. n - 1 \in Nat /\ (n - 1) + 1 = n
    BY <1>2
  <2> QED BY <1>3, <2>1, TreeSizes
<1>5. left_pos = mmr_size + n - Pow2[n]
  BY <1>2, <1>3, <1>4 DEF left_pos
<1>6. right = elems[n]
  <2>1. /\ mmr_size + n - 1 >= mmr_size /\ (mmr_size + n - 1) - mmr_size < n
        /\ (mmr_size + n - 1) - mmr_size + 1 = n
    BY <1>2
  <2> QED BY <2>1 DEF find_elem
<1>7. NoNumber[mmr_size + n] = 0
  BY <1>2 DEF NoNumber
<1>8. elems' = Append(elems, merge_pos(NoNumber[mmr_size + n], left, right))
  BY <1>5, <1>6, <1>7 DEF PushMerge, merge
<1>9. index_height_mmriver(mmr_size + n) = n
  BY <1>1, MountainBefore
<1> QED BY <1>1, <1>8, <1>9, MergedNode

\* Steps of an MMR keep every node in its place.
LEMMA MMRTreeStep ==
  ASSUME IInv, IInv', MMRTree, [Next]_vars
  PROVE  MMRTree'
<1>1. TypeOK /\ ContentComplete /\ PushLocals /\ TypeOK' /\ ContentComplete'
  BY DEF IInv
<1>2. TreeBuilt(NoNumber)
  BY DEF MMRTree
<1>3. ASSUME NEW d \in Data, PushBegin(d) PROVE MMRTree'
  <2>1. /\ elems' = <<leaf_hash(d)>> /\ UNCHANGED mmr_size /\ Quiet
    BY <1>3 DEF PushBegin, Quiet, history
  <2> QED BY <1>1, <1>2, <2>1, FirstNode, TreeKept DEF MMRTree
<1>4. CASE PushMerge
  <2>1. phase = "pushing" /\ Quiet
    BY <1>4 DEF PushMerge, Quiet, history
  <2>2. NewNodes(NoNumber)
    BY <2>1 DEF MMRTree
  <2> QED BY <1>1, <1>2, <1>4, <2>1, <2>2, MMRMerge, TreeKept DEF MMRTree
<1>5. CASE PushEnd
  <2>1. /\ phase = "pushing" /\ ~LeftMountain /\ phase' # "pushing"
        /\ UNCHANGED <<store, durable, intact>>
    BY <1>5 DEF PushEnd, Return
  <2>2. NewNodes(NoNumber)
    BY <2>1 DEF MMRTree
  <2>3. Pushed
    <3>1. elems # <<>> /\ pos + 1 = mmr_size + Len(elems)
      BY <1>1, <2>1 DEF TypeOK, PushLocals
    <3> QED BY <1>5, <3>1 DEF PushEnd, Pushed
  <2>4. index_height_mmriver(mmr_size + Len(elems)) = 0
    BY <1>1, <2>1, <2>2, MountainBefore
  <2>5. TreeBuilt(NoNumber)'
    BY <1>1, <1>2, <2>2, <2>3, <2>4, NodesPushed
  <2> QED BY <2>1, <2>5 DEF MMRTree
<1>6. CASE /\ Quiet \/ CommitStep \/ \E size \in FinishedSizes : Restart(size)
           /\ phase' # "pushing"
  BY <1>1, <1>2, <1>6, TreeKept DEF MMRTree
<1>7. CASE UNCHANGED vars
  <2>1. Quiet /\ UNCHANGED <<phase, elems>>
    BY <1>7 DEF vars, Quiet, history, callVars
  <2>2. TreeBuilt(NoNumber)'
    BY <1>1, <1>2, <2>1, TreeKept
  <2> QED BY <2>1, <2>2 DEF MMRTree, NewNodes, Quiet, IsNode
<1>8. CASE PushRefused \/ PushInconsistent \/ PushFail \/ CommitBegin
  <2>1. Quiet /\ phase' # "pushing"
    BY <1>8 DEF PushRefused, PushInconsistent, PushFail, CommitBegin, Quiet, Return,
                history
  <2> QED BY <1>6, <2>1
<1>9. CASE CommitStep
  <2>1. phase' # "pushing"
    BY <1>9 DEF CommitStep, CommitAppend, CommitFail, CommitEnd, Return
  <2> QED BY <1>6, <1>9, <2>1
<1>10. ASSUME NEW size \in FinishedSizes, Restart(size) PROVE MMRTree'
  <2>1. phase' # "pushing"
    BY <1>10 DEF Restart, Return
  <2> QED BY <1>6, <1>10, <2>1
<1> QED BY <1>3, <1>4, <1>5, <1>7, <1>8, <1>9, <1>10 DEF Next, PushStep

\* Every node of an MMR is a leaf or the merge of its two children, at each moment
\* and whatever has failed, been dropped or rolled back, up to what a failed commit
\* has put in doubt.
THEOREM TreesMerged == Spec => []NodesMerged
<1>1. Init => MMRTree
  BY TreeInit DEF MMRTree, Init
<1>2. IInv /\ IInv' /\ MMRTree /\ [Next]_vars => MMRTree'
  BY MMRTreeStep
<1>3. IInv /\ MMRTree => NodesMerged
  <2> SUFFICES ASSUME IInv, MMRTree, NEW p \in Sound
               PROVE  LET h == pos_height_in_tree(p)
                      IN  IF h = 0 THEN \E d \in Data : content[p + 1] = leaf_hash(d)
                          ELSE content[p + 1]
                                 = merge(content[p - Pow2[h] + 1], content[p])
    BY DEF NodesMerged
  <2>1. p \in Nat
    BY DEF Sound
  <2>2. IsNode(content, p, NoNumber[p]) /\ NoNumber[p] = 0
    BY <2>1 DEF MMRTree, TreeBuilt, NoNumber
  <2>3. pos_height_in_tree(p) = index_height_mmriver(p)
    BY <2>1, HeightsSame
  <2> QED BY <2>2, <2>3 DEF IsNode, merge
<1> QED BY <1>1, <1>2, <1>3, InvariantHolds, PTL DEF Spec

=============================================================================
