----------------------------- MODULE RiverProofs -----------------------------
(***************************************************************************)
(* Theorems about module MMRIVER, for every Data and every MaxSize.  Its   *)
(* steps do to batch, store and history what those of an MMR do, so only   *)
(* push needs new arguments.  Of the inclusion proofs, those that are      *)
(* generated are accepted, and no others.  Tree and root are those of an   *)
(* MMR of the same leaves.                                                 *)
(***************************************************************************)
EXTENDS MMRIVER, ForestProofs

-----------------------------------------------------------------------------

\* Every step of an MMRIVER does to batch, store and history what DataStep says.
LEMMA RiverDataStep ==
  ASSUME TypeOK, RiverPushLocals, [RiverNext]_riverVars
  PROVE  DataStep
<1> USE DEF DataStep, Quiet, history, callVars
<1>1. ASSUME NEW d \in Data, RiverPushBegin(d) PROVE DataStep
  BY <1>1 DEF RiverPushBegin
<1>2. CASE RiverPushMerge \/ RiverPushInconsistent \/ RiverPushFail
  BY <1>2 DEF RiverPushMerge, RiverPushInconsistent, RiverPushFail
<1>3. CASE RiverPushEnd
  <2>1. elems # <<>> /\ i = mmr_size + Len(elems)
    BY <1>3 DEF RiverPushEnd, TypeOK, RiverPushLocals
  <2> QED BY <1>3, <2>1 DEF RiverPushEnd, Pushed
<1>4. CASE Shared
  BY <1>4 DEF Shared, PushRefused, CommitBegin
<1>5. ASSUME NEW size \in FinishedSizes, RiverRestart(size) PROVE DataStep
  BY <1>5 DEF RiverRestart
<1>6. CASE UNCHANGED riverVars
  BY <1>6 DEF riverVars, vars
<1> QED BY <1>1, <1>2, <1>3, <1>4, <1>5, <1>6 DEF RiverNext, RiverPushStep

\* The kinds of steps, for what happens to the locals of a call.
LEMMA RiverCallStep ==
  ASSUME [RiverNext]_riverVars
  PROVE  \/ \E d \in Data : RiverPushBegin(d)
         \/ RiverPushMerge
         \/ CommitBegin /\ UNCHANGED <<i, g>>
         \/ CommitAppend /\ UNCHANGED <<i, g>>
         \/ /\ \/ Return("push_error") \/ Return("push_inconsistent")
               \/ Return("push_ok") \/ Return("commit_error")
               \/ Return("commit_ok") \/ Return("none")
            /\ \/ i' = 0 /\ g' = 0
               \/ UNCHANGED <<i, g>>
         \/ UNCHANGED riverVars
BY DEF RiverNext, RiverPushStep, RiverPushInconsistent, RiverPushFail, RiverPushEnd,
       RiverReturn, Shared, PushRefused, CommitStep, CommitFail, CommitEnd,
       RiverRestart, Restart

\* Steps of an MMRIVER keep the locals of push and commit well-typed.
LEMMA RiverCallTypesStep ==
  ASSUME TypeOK, RiverPushLocals, [RiverNext]_riverVars
  PROVE  CallTypes'
<1> USE DEF CallTypes, TypeOK, callVars
<1>1. ASSUME NEW d \in Data, RiverPushBegin(d) PROVE CallTypes'
  BY <1>1, LeafIsItem DEF RiverPushBegin
<1>2. CASE RiverPushMerge
  <2> DEFINE new == merge_pos(i + 1, left_child, right_child)
  <2>1. i \in Nat /\ g \in Nat
    BY DEF RiverPushLocals
  <2>2. i - 2 * Pow2[g] \in Int /\ i - 1 \in Int
    <3>1. \A k \in Nat : Pow2[k] \in Nat
      BY Pow2Doubles
    <3>2. Pow2[g] \in Nat
      BY <2>1, <3>1
    <3> QED BY <2>1, <3>2
  <2>3. left_child \in Item /\ right_child \in Item
    BY <1>2, <2>2, FindElemType DEF RiverPushMerge, left_child, right_child
  <2>4. i + 1 \in Nat
    BY <2>1
  <2>5. new \in Item
    BY <2>3, <2>4, MergePosIsItem
  <2>6. elems' = Append(elems, new) /\ elems # <<>>
    BY <1>2 DEF RiverPushMerge
  <2> HIDE DEF new
  <2>7. elems' \in Seq(Item) /\ elems' # <<>>
    BY <2>5, <2>6, MergedElems
  <2> QED BY <1>2, <2>7 DEF RiverPushMerge
<1>3. ASSUME \/ Return("push_error") \/ Return("push_inconsistent")
             \/ Return("push_ok") \/ Return("commit_error") \/ Return("commit_ok")
             \/ Return("none")
      PROVE  CallTypes'
  BY <1>3, ReturnTypes
<1>4. CASE CommitBegin \/ CommitAppend
  <2>1. phase' = "committing" /\ UNCHANGED <<elems, pos, peak>>
    BY <1>4 DEF CommitBegin, CommitAppend
  <2>2. returned' = "none" \/ returned' = returned
    BY <1>4 DEF CommitBegin, CommitAppend
  <2> QED BY <2>1, <2>2
<1>5. CASE UNCHANGED riverVars
  BY <1>5 DEF riverVars, vars
<1> QED BY <1>1, <1>2, <1>3, <1>4, <1>5, RiverCallStep

\* What MMRIVER's push knows of the range stays true from one await to the next.
LEMMA RiverLocalsStep ==
  ASSUME TypeOK, RiverPushLocals, [RiverNext]_riverVars
  PROVE  RiverPushLocals'
<1> USE DEF TypeOK, RiverPushLocals
<1>1. ASSUME NEW d \in Data, RiverPushBegin(d) PROVE RiverPushLocals'
  BY <1>1 DEF RiverPushBegin
<1>2. CASE RiverPushMerge
  <2>1. Len(elems') = Len(elems) + 1
    BY <1>2 DEF RiverPushMerge
  <2>2. i' = i + 1 /\ g' = g + 1 /\ UNCHANGED <<mmr_size, phase>>
        /\ phase = "pushing"
    BY <1>2 DEF RiverPushMerge
  <2>3. Len(elems) \in Nat /\ mmr_size \in Nat
    OBVIOUS
  <2>4. i' \in Nat /\ g' \in Nat
    BY <2>2
  <2>5. i = mmr_size + Len(elems) /\ g = Len(elems) - 1
    BY <2>2
  <2>6. i' = mmr_size' + Len(elems') /\ g' = Len(elems') - 1
    BY ONLY <2>1, <2>2, <2>3, <2>5
  <2> QED BY <2>4, <2>6
<1>3. CASE /\ \/ Return("push_error") \/ Return("push_inconsistent")
              \/ Return("push_ok") \/ Return("commit_error")
              \/ Return("commit_ok") \/ Return("none")
           /\ \/ i' = 0 /\ g' = 0
              \/ UNCHANGED <<i, g>>
  BY <1>3 DEF Return
<1>4. CASE (CommitBegin \/ CommitAppend) /\ UNCHANGED <<i, g>>
  BY <1>4 DEF CommitBegin, CommitAppend
<1>5. CASE UNCHANGED riverVars
  BY <1>5 DEF riverVars, vars
<1> QED BY <1>1, <1>2, <1>3, <1>4, <1>5, RiverCallStep

\* The invariant that the run checks is inductive.
THEOREM RiverInvariantHolds == RiverSpec => []RiverIInv
<1> DEFINE Inv == TypeOK /\ ContentComplete /\ RiverPushLocals /\ Held
<1>1. RiverInit => Inv
  BY TypeInit, ContentInit, HeldInit DEF RiverInit, Init, RiverPushLocals
<1>2. Inv /\ [RiverNext]_riverVars => Inv'
  <2> SUFFICES ASSUME Inv, [RiverNext]_riverVars PROVE Inv'
    OBVIOUS
  <2>1. DataStep
    BY RiverDataStep
  <2>2. TypeOK'
    BY <2>1, TypeParts, DataTypesStep, RiverCallTypesStep
  <2> QED BY <2>1, <2>2, ContentStep, RiverLocalsStep, HeldStep
<1>3. Inv => RiverIInv
  BY DEF Held, RiverIInv
<1> QED BY <1>1, <1>2, <1>3, PTL DEF RiverSpec

\* Commit and crash recovery are those of an MMR: every read below mmr_size gives
\* what push put there until a commit fails, both lookups agree, and a committed
\* position keeps its item.
THEOREM RiverReadsSeePushes ==
  RiverSpec => [](ReadYourWrites /\ SameLookup /\ DurablePrefix)
<1>1. RiverIInv => ReadYourWrites /\ SameLookup /\ DurablePrefix
  BY BatchOrStore, BothLookups DEF RiverIInv, Held
<1> QED BY <1>1, RiverInvariantHolds, PTL

-----------------------------------------------------------------------------
(* push finds the children.                                                *)

\* A node of height g + 1 at position i has its left child 2^(g+1) positions before
\* it, and there are that many; the right child is the node before it.
LEMMA ChildrenExist ==
  ASSUME TypeOK, RiverPushLocals, phase = "pushing", ParentDue
  PROVE  /\ i - 2 * Pow2[g] \in 0..(mmr_size + Len(elems) - 1)
         /\ i - 1 \in mmr_size..(mmr_size + Len(elems) - 1)
<1> DEFINE h == index_height_mmriver(i)
<1>1. /\ i \in Nat /\ g \in Nat /\ i = mmr_size + Len(elems) /\ g = Len(elems) - 1
      /\ mmr_size \in Nat /\ Len(elems) \in Nat
  BY DEF RiverPushLocals, TypeOK
<1>2. h \in Nat /\ h > g /\ Pow2[h + 1] - 1 <= i + 1
  BY <1>1, NodeHeight DEF ParentDue
<1>3. /\ Pow2[g] \in Nat \ {0} /\ Pow2[g + 1] = 2 * Pow2[g]
      /\ Pow2[(g + 1) + 1] = 2 * Pow2[g + 1]
  <2>1. \A k \in Nat : /\ Pow2[k] \in Nat \ {0} /\ Pow2[k + 1] = 2 * Pow2[k]
                       /\ Pow2[(k + 1) + 1] = 2 * Pow2[k + 1]
    BY Pow2Doubles
  <2>2. g \in Nat
    BY <1>1
  <2> QED BY <2>1, <2>2
<1>4. Pow2[(g + 1) + 1] <= Pow2[h + 1]
  <2>1. (g + 1) + 1 \in Nat /\ h + 1 \in Nat /\ (g + 1) + 1 <= h + 1
    BY <1>1, <1>2
  <2> QED BY <2>1, Pow2Grows
<1>5. Pow2[h + 1] \in Nat
  BY <1>2, Pow2Doubles
<1> HIDE DEF h
<1>6. 2 * Pow2[g] <= i
  BY <1>1, <1>2, <1>3, <1>4, <1>5
<1> QED BY <1>1, <1>3, <1>6

\* push never reports an inconsistent store unless a commit has failed.
THEOREM ChildrenFound == RiverSpec => []RiverFindsChildren
<1>1. RiverInit => RiverFindsChildren
  BY DEF RiverInit, Init, RiverFindsChildren
<1>2. RiverIInv /\ RiverFindsChildren /\ [RiverNext]_riverVars => RiverFindsChildren'
  <2> SUFFICES ASSUME RiverIInv, RiverFindsChildren, [RiverNext]_riverVars,
                      returned' = "push_inconsistent", intact'
               PROVE  FALSE
    BY DEF RiverFindsChildren
  <2>1. CASE RiverPushInconsistent
    <3>1. /\ phase = "pushing" /\ ParentDue /\ intact
          /\ left_child = None \/ right_child = None
      BY <2>1 DEF RiverPushInconsistent, history
    <3>2. /\ i - 2 * Pow2[g] \in 0..(mmr_size + Len(elems) - 1)
          /\ i - 1 \in 0..(mmr_size + Len(elems) - 1)
      <4>1. mmr_size \in Nat
        BY DEF RiverIInv, TypeOK
      <4> QED BY <3>1, <4>1, ChildrenExist DEF RiverIInv
    <3>3. left_child # None /\ right_child # None
      BY <3>1, <3>2, FoundBelow DEF RiverIInv, Held, left_child, right_child
    <3> QED BY <3>1, <3>3
  <2>2. CASE UNCHANGED <<returned, intact>>
    BY <2>2 DEF RiverFindsChildren
  <2>3. RiverPushInconsistent \/ UNCHANGED <<returned, intact>>
    BY DEF RiverNext, RiverPushStep, RiverPushBegin, RiverPushMerge, RiverPushFail,
           RiverPushEnd, RiverReturn, Shared, PushRefused, CommitBegin, CommitStep,
           CommitAppend, CommitFail, CommitEnd, RiverRestart, Restart, Return,
           riverVars, vars, history
  <2> QED BY <2>1, <2>2, <2>3
<1> QED BY <1>1, <1>2, RiverInvariantHolds, PTL DEF RiverSpec

-----------------------------------------------------------------------------

\* An MMRIVER and its store are the log that NodeLog describes.
THEOREM RiverLogRefined == RiverSpec => IsNodeLog
<1>1. RiverInit => Log!Init
  BY LogInit DEF RiverInit
<1>2. RiverIInv => ReadsAs
  BY InvariantReads DEF RiverIInv, Held
<1>3. RiverIInv /\ ReadsAs /\ ReadsAs' /\ [RiverNext]_riverVars
        => [Log!Next]_(Log!logVars)
  BY RiverDataStep, LogStep DEF RiverIInv, Held
<1> QED BY <1>1, <1>2, <1>3, RiverInvariantHolds, PTL
        DEF RiverSpec, IsNodeLog, Log!Spec

-----------------------------------------------------------------------------
(* The tree.                                                               *)

\* Positions counted from one.
OwnNumber == [p \in Nat |-> p + 1]

RiverTree ==
  /\ TreeBuilt(OwnNumber)
  /\ phase = "pushing" => NewNodes(OwnNumber)

\* ParentDue, which MMRIVER's push tests, tells whether a parent comes next.
LEMMA ParentNext ==
  ASSUME TypeOK, ContentComplete, RiverPushLocals, phase = "pushing",
         NewNodes(OwnNumber)
  PROVE  LET next == mmr_size + Len(elems)
         IN  /\ ParentDue => index_height_mmriver(next) = Len(elems)
             /\ ~ParentDue => index_height_mmriver(next) = 0
<1>1. elems # <<>> /\ i = mmr_size + Len(elems) /\ g = Len(elems) - 1
  BY DEF TypeOK, RiverPushLocals
<1>2. /\ index_height_mmriver(mmr_size + Len(elems)) \in {0, Len(elems)}
      /\ Len(elems) \in Nat \ {0}
  BY <1>1, AfterNewNodes
<1>3. ParentDue <=> index_height_mmriver(mmr_size + Len(elems)) > Len(elems) - 1
  BY <1>1 DEF ParentDue
<1> QED BY <1>2, <1>3

\* A merge by MMRIVER's push adds the parent of the node before and of its sibling.
LEMMA RiverMerge ==
  ASSUME RiverIInv, RiverIInv', NewNodes(OwnNumber), RiverPushMerge
  PROVE  NewNodes(OwnNumber)'
<1> DEFINE n == Len(elems)
           left == find_elem(mmr_size + n - Pow2[n], elems)
           right == find_elem(mmr_size + n - 1, elems)
<1>1. /\ TypeOK /\ ContentComplete /\ Held /\ RiverPushLocals
      /\ TypeOK' /\ ContentComplete'
      /\ phase = "pushing" /\ ParentDue /\ elems # <<>>
      /\ UNCHANGED <<mmr_size, content, intact>>
  BY DEF RiverIInv, Held, RiverPushMerge, history, TypeOK
<1>2. n \in Nat \ {0} /\ mmr_size \in Nat
  BY <1>1, AfterNewNodes
<1>3. i = mmr_size + n /\ g = n - 1
  BY <1>1 DEF RiverPushLocals
<1>4. Pow2[n] = 2 * Pow2[g] /\ Pow2[g] \in Nat
  <2>1. n - 1 \in Nat /\ (n - 1) + 1 = n
    BY <1>2
  <2> QED BY <1>3, <2>1, TreeSizes
<1>5. left_child = left /\ right_child = right
  <2>1. i - 2 * Pow2[g] = mmr_size + n - Pow2[n] /\ i - 1 = mmr_size + n - 1
    BY <1>2, <1>3, <1>4
  <2> QED BY ONLY <2>1 DEF left_child, right_child
<1>6. OwnNumber[mmr_size + n] = i + 1
  BY <1>2, <1>3 DEF OwnNumber
<1>7. elems' = Append(elems, merge_pos(OwnNumber[mmr_size + n], left, right))
  BY <1>5, <1>6 DEF RiverPushMerge
<1>8. index_height_mmriver(mmr_size + n) = n
  BY <1>1, ParentNext
<1> QED BY <1>1, <1>7, <1>8, MergedNode

\* Steps of an MMRIVER keep every node in its place.
LEMMA RiverTreeStep ==
  ASSUME RiverIInv, RiverIInv', RiverTree, [RiverNext]_riverVars
  PROVE  RiverTree'
<1>1. TypeOK /\ ContentComplete /\ RiverPushLocals /\ TypeOK' /\ ContentComplete'
  BY DEF RiverIInv
<1>2. TreeBuilt(OwnNumber)
  BY DEF RiverTree
<1>3. ASSUME NEW d \in Data, RiverPushBegin(d) PROVE RiverTree'
  <2>1. /\ elems' = <<leaf_hash(d)>> /\ UNCHANGED mmr_size /\ Quiet
    BY <1>3 DEF RiverPushBegin, Quiet, history
  <2> QED BY <1>1, <1>2, <2>1, FirstNode, TreeKept DEF RiverTree
<1>4. CASE RiverPushMerge
  <2>1. phase = "pushing" /\ Quiet
    BY <1>4 DEF RiverPushMerge, Quiet, history
  <2>2. NewNodes(OwnNumber)
    BY <2>1 DEF RiverTree
  <2> QED BY <1>1, <1>2, <1>4, <2>1, <2>2, RiverMerge, TreeKept DEF RiverTree
<1>5. CASE RiverPushEnd
  <2>1. phase = "pushing" /\ ~ParentDue /\ phase' # "pushing"
    BY <1>5 DEF RiverPushEnd, RiverReturn, Return
  <2>2. NewNodes(OwnNumber)
    BY <2>1 DEF RiverTree
  <2>3. Pushed
    <3>1. elems # <<>> /\ i = mmr_size + Len(elems)
      BY <1>1, <2>1 DEF TypeOK, RiverPushLocals
    <3> QED BY <1>5, <3>1 DEF RiverPushEnd, Pushed
  <2>4. index_height_mmriver(mmr_size + Len(elems)) = 0
    BY <1>1, <2>1, <2>2, ParentNext
  <2>5. TreeBuilt(OwnNumber)'
    BY <1>1, <1>2, <2>2, <2>3, <2>4, NodesPushed
  <2> QED BY <2>1, <2>5 DEF RiverTree
<1>6. CASE /\ Quiet \/ CommitStep \/ \E size \in FinishedSizes : Restart(size)
           /\ phase' # "pushing"
  BY <1>1, <1>2, <1>6, TreeKept DEF RiverTree
<1>7. CASE UNCHANGED riverVars
  <2>1. Quiet /\ UNCHANGED <<phase, elems>>
    BY <1>7 DEF riverVars, vars, Quiet, history, callVars
  <2>2. TreeBuilt(OwnNumber)'
    BY <1>1, <1>2, <2>1, TreeKept
  <2> QED BY <2>1, <2>2 DEF RiverTree, NewNodes, Quiet, IsNode
<1>8. CASE PushRefused \/ RiverPushInconsistent \/ RiverPushFail \/ CommitBegin
  <2>1. Quiet /\ phase' # "pushing"
    BY <1>8 DEF PushRefused, RiverPushInconsistent, RiverPushFail, RiverReturn,
                CommitBegin, Quiet, Return, history
  <2> QED BY <1>6, <2>1
<1>9. CASE CommitStep
  <2>1. phase' # "pushing"
    BY <1>9 DEF CommitStep, CommitAppend, CommitFail, CommitEnd, Return
  <2> QED BY <1>6, <1>9, <2>1
<1>10. ASSUME NEW size \in FinishedSizes, RiverRestart(size) PROVE RiverTree'
  <2>1. Restart(size) /\ phase' # "pushing"
    BY <1>10 DEF RiverRestart, Restart, Return
  <2> QED BY <1>6, <2>1
<1> QED BY <1>3, <1>4, <1>5, <1>7, <1>8, <1>9, <1>10
        DEF RiverNext, RiverPushStep, Shared

\* The same of an MMRIVER, where the position of every inner node is in its hash.
THEOREM RiverTreesMerged == RiverSpec => []RiverNodesMerged
<1>1. RiverInit => RiverTree
  BY TreeInit DEF RiverInit, RiverTree, Init
<1>2. RiverIInv /\ RiverIInv' /\ RiverTree /\ [RiverNext]_riverVars => RiverTree'
  BY RiverTreeStep
<1>3. RiverTree => RiverNodesMerged
  <2> SUFFICES ASSUME RiverTree, NEW p \in Sound
               PROVE  LET h == index_height_mmriver(p)
                      IN  IF h = 0 THEN \E d \in Data : content[p + 1] = leaf_hash(d)
                          ELSE content[p + 1]
                                 = merge_pos(p + 1, content[p - Pow2[h] + 1], content[p])
    BY DEF RiverNodesMerged
  <2>1. p \in Nat
    BY DEF Sound
  <2>2. IsNode(content, p, OwnNumber[p]) /\ OwnNumber[p] = p + 1
    BY <2>1 DEF RiverTree, TreeBuilt, OwnNumber
  <2> QED BY <2>2 DEF IsNode
<1> QED BY <1>1, <1>2, <1>3, RiverInvariantHolds, PTL DEF RiverSpec

-----------------------------------------------------------------------------
(* Items as terms: an item can be taken apart in one way only.             *)

\* The items that merging makes of leaves: prefix notation that is complete at its
\* end and nowhere before.  weight[k] is how many items are missing after k symbols.
Weighs(x, weight) ==
  /\ weight \in [0..Len(x) -> Int]
  /\ weight[0] = 1 /\ weight[Len(x)] = 0
  /\ \A k \in 1..Len(x) :
       /\ weight[k - 1] > 0
       /\ weight[k] = weight[k - 1] + (IF x[k] \in Nat THEN 1 ELSE -1)

Term == {x \in Item : \E weight : Weighs(x, weight)}

\* A leaf is a term.
LEMMA LeafIsTerm ==
  ASSUME NEW d \in Data
  PROVE  leaf_hash(d) \in Term
<1> DEFINE x == <<d>>
           weight == [k \in 0..1 |-> IF k = 0 THEN 1 ELSE 0]
<1>1. x \in Item /\ Len(x) = 1 /\ x[1] = d
  BY DEF Item
<1>2. d \notin Nat
  BY DataAssumption
<1>3. \A k \in 1..1 : k = 1
  OBVIOUS
<1>4. weight \in [0..1 -> Int] /\ weight[0] = 1 /\ weight[1] = 0
  OBVIOUS
<1> HIDE DEF x, weight
<1>5. Weighs(x, weight)
  <2>1. \A k \in 1..1 :
          /\ weight[k - 1] > 0
          /\ weight[k] = weight[k - 1] + (IF x[k] \in Nat THEN 1 ELSE -1)
    <3> TAKE k \in 1..1
    <3>1. k = 1 /\ k - 1 = 0
      OBVIOUS
    <3>2. x[k] \notin Nat
      BY <1>1, <1>2, <3>1
    <3> QED BY <1>4, <3>1, <3>2
  <2> QED BY <1>1, <1>4, <2>1 DEF Weighs
<1> QED BY <1>1, <1>5 DEF Term, leaf_hash, x

\* Where the elements of s and of t are in r.
Joint(r, s, t) ==
  /\ Len(s) \in Nat /\ Len(t) \in Nat /\ Len(r) = Len(s) + Len(t)
  /\ \A k \in 1..Len(s) : r[k] = s[k]
  /\ \A k \in 1..Len(t) : r[Len(s) + k] = t[k]

\* They are there when two sequences are joined.
LEMMA Joined ==
  ASSUME NEW T, NEW s \in Seq(T), NEW t \in Seq(T)
  PROVE  s \o t \in Seq(T) /\ Joint(s \o t, s, t)
<1>1. Len(s) \in Nat /\ Len(t) \in Nat /\ s \o t \in Seq(T) /\ Len(s \o t) = Len(s) + Len(t)
  OBVIOUS
<1>2. \A k \in 1..Len(s) : (s \o t)[k] = s[k]
  BY <1>1
<1>3. \A k \in 1..Len(t) : (s \o t)[Len(s) + k] = t[k]
  BY <1>1
<1> QED BY <1>1, <1>2, <1>3 DEF Joint

\* Where the parts of an inner node are.
Parts(x, n, a, b) ==
  /\ Len(a) \in Nat /\ Len(b) \in Nat
  /\ Len(x) = 1 + Len(a) + Len(b)
  /\ x[1] = n
  /\ \A k \in 1..Len(a) : x[1 + k] = a[k]
  /\ \A k \in 1..Len(b) : x[1 + Len(a) + k] = b[k]

\* They are there in the notation that merging makes.
LEMMA MergeParts ==
  ASSUME NEW n \in Nat, NEW a \in Item, NEW b \in Item
  PROVE  merge_pos(n, a, b) \in Item /\ Parts(merge_pos(n, a, b), n, a, b)
<1> DEFINE T == Data \cup Nat
           s == <<n>>
           y == s \o a
           x == y \o b
<1>1. a \in Seq(T) /\ b \in Seq(T) /\ s \in Seq(T) /\ Len(s) = 1 /\ s[1] = n
  BY DEF Item
<1> HIDE DEF T, s
<1>2. y \in Seq(T) /\ Joint(y, s, a)
  BY <1>1, Joined
<1> HIDE DEF y
<1>3. x \in Seq(T) /\ Joint(x, y, b)
  BY <1>1, <1>2, Joined
<1>4. 1 \in 1..(1 + Len(a)) /\ \A k \in 1..Len(a) : 1 + k \in 1..(1 + Len(a))
  BY <1>2 DEF Joint
<1> HIDE DEF x
<1>5. Parts(x, n, a, b)
  <2>1. Len(y) = 1 + Len(a) /\ y[1] = n /\ \A k \in 1..Len(a) : y[1 + k] = a[k]
    <3>1. 1 \in 1..Len(s)
      BY <1>1
    <3> QED BY <1>1, <1>2, <3>1 DEF Joint
  <2>2. /\ Len(a) \in Nat /\ Len(b) \in Nat /\ Len(x) = 1 + Len(a) + Len(b)
        /\ \A k \in 1..(1 + Len(a)) : x[k] = y[k]
        /\ \A k \in 1..Len(b) : x[1 + Len(a) + k] = b[k]
    BY <1>2, <1>3, <2>1 DEF Joint
  <2> QED BY <1>4, <2>1, <2>2 DEF Parts
<1>6. merge_pos(n, a, b) = x
  BY DEF merge_pos, x, y, s
<1> QED BY <1>3, <1>5, <1>6 DEF Item, T

\* So is an inner node over two terms.
LEMMA MergeIsTerm ==
  ASSUME NEW n \in Nat, NEW a \in Term, NEW b \in Term
  PROVE  merge_pos(n, a, b) \in Term
<1> DEFINE x == merge_pos(n, a, b)
           la == Len(a)
           lb == Len(b)
<1>1. PICK wa, wb : Weighs(a, wa) /\ Weighs(b, wb)
  BY DEF Term
<1>2. /\ x \in Item /\ la \in Nat /\ lb \in Nat /\ Len(x) = 1 + la + lb
      /\ x[1] = n
      /\ \A k \in 1..la : x[1 + k] = a[k]
      /\ \A k \in 1..lb : x[1 + la + k] = b[k]
  <2>1. a \in Item /\ b \in Item
    BY DEF Term
  <2>2. x \in Item /\ Parts(x, n, a, b)
    BY <2>1, MergeParts
  <2> HIDE DEF x
  <2> QED BY <2>2 DEF Parts
<1> DEFINE w(k) == IF k = 0 THEN 1 ELSE IF k <= 1 + la THEN wa[k - 1] + 1
                   ELSE wb[k - (1 + la)]
           weight == [k \in 0..(1 + la + lb) |-> w(k)]
<1>3. /\ \A k \in 0..la : wa[k] \in Int
      /\ \A k \in 0..lb : wb[k] \in Int
      /\ wa[0] = 1 /\ wa[la] = 0 /\ wb[0] = 1 /\ wb[lb] = 0
      /\ \A k \in 1..la : /\ wa[k - 1] > 0
                          /\ wa[k] = wa[k - 1] + (IF a[k] \in Nat THEN 1 ELSE -1)
      /\ \A k \in 1..lb : /\ wb[k - 1] > 0
                          /\ wb[k] = wb[k - 1] + (IF b[k] \in Nat THEN 1 ELSE -1)
  BY <1>1 DEF Weighs
<1> HIDE DEF x, la, lb
<1>4. \A k \in 0..(1 + la + lb) : w(k) \in Int
  <2> TAKE k \in 0..(1 + la + lb)
  <2>1. CASE k = 0
    BY <2>1
  <2>2. CASE k # 0 /\ k <= 1 + la
    <3>1. k - 1 \in 0..la
      BY <1>2, <2>2
    <3>2. wa[k - 1] + 1 \in Int
      BY <1>3, <3>1
    <3> QED BY <2>2, <3>2
  <2>3. CASE k # 0 /\ ~(k <= 1 + la)
    <3>1. k - (1 + la) \in 0..lb
      BY <1>2, <2>3
    <3> QED BY <1>3, <2>3, <3>1
  <2> QED BY <2>1, <2>2, <2>3
<1>5. w(0) = 1
  OBVIOUS
<1>6. w(1 + la + lb) = 0
  <2>1. CASE lb = 0
    BY <1>3, <2>1
  <2>2. CASE lb # 0
    <3>1. 1 + la + lb # 0 /\ ~(1 + la + lb <= 1 + la) /\ (1 + la + lb) - (1 + la) = lb
      BY <1>2, <2>2
    <3> QED BY <1>3, <3>1
  <2> QED BY <2>1, <2>2
<1>7. ASSUME NEW k \in 1..(1 + la + lb)
      PROVE  w(k - 1) > 0 /\ w(k) = w(k - 1) + (IF x[k] \in Nat THEN 1 ELSE -1)
  <2>1. CASE k = 1
    <3>1. w(0) = 1 /\ w(1) = 2
      BY <1>2, <1>3
    <3>2. x[1] \in Nat
      BY <1>2
    <3> HIDE DEF w
    <3> QED BY <2>1, <3>1, <3>2
  <2>2. CASE k # 1 /\ k <= 1 + la
    <3> DEFINE j == k - 1
    <3>1. j \in 1..la /\ k = 1 + j /\ j - 1 \in 0..la /\ j \in 0..la
      BY <1>2, <2>2
    <3>2. w(k - 1) = wa[j - 1] + 1 /\ w(k) = wa[j] + 1
      BY <1>2, <2>2
    <3>3. x[k] = a[j]
      BY <1>2, <3>1
    <3> HIDE DEF w, j
    <3>4. /\ wa[j - 1] > 0 /\ wa[j - 1] \in Int
          /\ wa[j] = wa[j - 1] + (IF a[j] \in Nat THEN 1 ELSE -1)
      BY <1>3, <3>1
    <3>5. CASE a[j] \in Nat
      BY <3>2, <3>3, <3>4, <3>5
    <3>6. CASE a[j] \notin Nat
      BY <3>2, <3>3, <3>4, <3>6
    <3> QED BY <3>5, <3>6
  <2>3. CASE k > 1 + la
    <3> DEFINE j == k - (1 + la)
    <3>1. j \in 1..lb /\ k = 1 + la + j /\ j - 1 \in 0..lb /\ j \in 0..lb
      BY <1>2, <2>3
    <3>2. w(k) = wb[j]
      BY <1>2, <2>3
    <3>3. w(k - 1) = wb[j - 1]
      <4>1. CASE j = 1
        <5>1. k - 1 = 1 + la /\ k - 1 # 0 /\ (k - 1) - 1 = la /\ j - 1 = 0
          BY <1>2, <3>1, <4>1
        <5> HIDE DEF j
        <5>2. w(k - 1) = wa[la] + 1
          BY <1>2, <5>1
        <5> QED BY <1>3, <5>1, <5>2
      <4>2. CASE j # 1
        <5>1. k - 1 # 0 /\ ~(k - 1 <= 1 + la) /\ (k - 1) - (1 + la) = j - 1
          BY <1>2, <3>1, <4>2
        <5> HIDE DEF j
        <5> QED BY <5>1
      <4> QED BY <4>1, <4>2
    <3>4. x[k] = b[j]
      BY <1>2, <3>1
    <3> HIDE DEF w, j
    <3>5. /\ wb[j - 1] > 0
          /\ wb[j] = wb[j - 1] + (IF b[j] \in Nat THEN 1 ELSE -1)
      BY <1>3, <3>1
    <3> QED BY <3>2, <3>3, <3>4, <3>5
  <2> QED BY <1>2, <2>1, <2>2, <2>3
<1>8. Weighs(x, weight)
  <2> HIDE DEF w
  <2>1. weight \in [0..Len(x) -> Int]
    BY <1>2, <1>4
  <2>2. \A k \in 0..(1 + la + lb) : weight[k] = w(k)
    OBVIOUS
  <2>3. 0 \in 0..(1 + la + lb) /\ 1 + la + lb \in 0..(1 + la + lb)
    BY <1>2
  <2>4. \A k \in 1..(1 + la + lb) : k \in 0..(1 + la + lb) /\ k - 1 \in 0..(1 + la + lb)
    BY <1>2
  <2> HIDE DEF weight
  <2>5. weight[0] = 1 /\ weight[Len(x)] = 0
    BY <1>2, <1>5, <1>6, <2>2, <2>3
  <2>6. \A k \in 1..Len(x) :
          /\ weight[k - 1] > 0
          /\ weight[k] = weight[k - 1] + (IF x[k] \in Nat THEN 1 ELSE -1)
    BY <1>2, <1>7, <2>2, <2>4
  <2> QED BY <2>1, <2>5, <2>6 DEF Weighs
<1> HIDE DEF weight
<1>9. x \in Term
  BY <1>2, <1>8 DEF Term
<1> QED BY <1>9 DEF x

\* No term begins another.
LEMMA TermsEnd ==
  ASSUME NEW a \in Term, NEW c \in Term, Len(a) <= Len(c),
         \A k \in 1..Len(a) : a[k] = c[k]
  PROVE  a = c
<1>1. PICK wa, wc : Weighs(a, wa) /\ Weighs(c, wc)
  BY DEF Term
<1>2. a \in Seq(Data \cup Nat) /\ c \in Seq(Data \cup Nat) /\ Len(a) \in Nat /\ Len(c) \in Nat
  BY DEF Term, Item
<1> DEFINE S == {k \in Nat : k <= Len(a) => wa[k] = wc[k]}
<1>3. 0 \in S
  BY <1>1 DEF Weighs
<1>4. ASSUME NEW k \in Nat, k \in S PROVE k + 1 \in S
  <2> SUFFICES ASSUME k + 1 <= Len(a) PROVE wa[k + 1] = wc[k + 1]
    OBVIOUS
  <2>1. k + 1 \in 1..Len(a) /\ k + 1 \in 1..Len(c) /\ k <= Len(a) /\ (k + 1) - 1 = k
    BY <1>2
  <2>2. wa[k] = wc[k] /\ a[k + 1] = c[k + 1]
    BY <1>4, <2>1
  <2>3. /\ wa[k + 1] = wa[k] + (IF a[k + 1] \in Nat THEN 1 ELSE -1)
        /\ wc[k + 1] = wc[k] + (IF c[k + 1] \in Nat THEN 1 ELSE -1)
    BY <1>1, <2>1 DEF Weighs
  <2> QED BY <2>2, <2>3
<1>5. wa[Len(a)] = wc[Len(a)]
  <2>1. Nat \subseteq S
    <3> HIDE DEF S
    <3> QED BY <1>3, <1>4, SetInduction
  <2> QED BY <1>2, <2>1
<1>6. ~(Len(a) < Len(c))
  <2> SUFFICES ASSUME Len(a) < Len(c) PROVE FALSE
    OBVIOUS
  <2>1. Len(a) + 1 \in 1..Len(c) /\ (Len(a) + 1) - 1 = Len(a)
    BY <1>2
  <2>2. wc[Len(a)] > 0 /\ wa[Len(a)] = 0
    BY <1>1, <2>1 DEF Weighs
  <2> QED BY <1>5, <2>2
<1>7. Len(a) = Len(c)
  BY <1>2, <1>6
<1> QED BY <1>2, <1>7

\* Equal inner nodes have the same position and the same children.
LEMMA MergeIsInjective ==
  ASSUME NEW n \in Nat, NEW m \in Nat, NEW a \in Term, NEW b \in Term,
         NEW c \in Term, NEW d \in Term, merge_pos(n, a, b) = merge_pos(m, c, d)
  PROVE  n = m /\ a = c /\ b = d
<1> DEFINE x == merge_pos(n, a, b)
<1>1. a \in Item /\ b \in Item /\ c \in Item /\ d \in Item
  BY DEF Term
<1>2. Parts(x, n, a, b) /\ Parts(x, m, c, d)
  BY <1>1, MergeParts
<1> HIDE DEF x
<1>3. /\ Len(a) \in Nat /\ Len(b) \in Nat /\ Len(c) \in Nat /\ Len(d) \in Nat
      /\ 1 + Len(a) + Len(b) = 1 + Len(c) + Len(d)
      /\ n = m
  BY <1>2 DEF Parts
<1>4. a = c
  <2>1. CASE Len(a) <= Len(c)
    <3>1. \A k \in 1..Len(a) : a[k] = c[k]
      BY <1>2, <1>3, <2>1 DEF Parts
    <3> QED BY <2>1, <3>1, TermsEnd
  <2>2. CASE Len(c) <= Len(a)
    <3>1. \A k \in 1..Len(c) : c[k] = a[k]
      BY <1>2, <1>3, <2>2 DEF Parts
    <3> QED BY <2>2, <3>1, TermsEnd
  <2> QED BY <1>2, <1>3, <2>1, <2>2
<1>5. b = d
  <2>1. Len(b) = Len(d)
    BY <1>2, <1>3, <1>4
  <2>2. \A k \in 1..Len(b) : b[k] = d[k]
    BY <1>2, <1>4, <2>1 DEF Parts
  <2>3. b \in Seq(Data \cup Nat) /\ d \in Seq(Data \cup Nat)
    BY <1>1 DEF Item
  <2> QED BY <2>1, <2>2, <2>3
<1> QED BY <1>2, <1>3, <1>4, <1>5

\* No leaf is an inner node.
LEMMA LeafIsNoMerge ==
  ASSUME NEW datum \in Data, NEW n \in Nat, NEW a \in Item, NEW b \in Item
  PROVE  leaf_hash(datum) # merge_pos(n, a, b)
<1>1. leaf_hash(datum)[1] = datum
  BY DEF leaf_hash
<1>2. merge_pos(n, a, b)[1] = n
  BY MergeParts DEF Parts
<1> QED BY <1>1, <1>2, DataAssumption

-----------------------------------------------------------------------------
(* What an instance reads between two calls.                               *)

\* The items c are those of a finished MMRIVER of n nodes.
Finished(c, n) ==
  /\ n \in Nat /\ H(n) = 0
  /\ c \in Seq(Item) /\ Len(c) >= n
  /\ \A p \in 0..(n - 1) : IsNode(c, p, p + 1)

Invariants == RiverIInv /\ RiverTree

\* Both are invariants.
LEMMA InvariantsHold == RiverSpec => []Invariants
<1>1. RiverInit => RiverTree
  BY TreeInit DEF RiverInit, RiverTree, Init
<1>2. RiverIInv /\ RiverIInv' /\ RiverTree /\ [RiverNext]_riverVars => RiverTree'
  BY RiverTreeStep
<1> QED BY <1>1, <1>2, RiverInvariantHolds, PTL DEF RiverSpec, Invariants

\* An instance that answers has a finished MMR and reads all of it.
LEMMA AnswersContent ==
  ASSUME Invariants, Answering
  PROVE  /\ Finished(content, mmr_size) /\ Len(content) = mmr_size
         /\ \A p \in 0..(mmr_size - 1) : get_elems(p) = content[p + 1]
<1>1. /\ TypeOK /\ ContentComplete /\ Held /\ intact /\ TreeBuilt(OwnNumber)
      /\ mmr_size \in Nat /\ content \in Seq(Item) /\ Len(content) = mmr_size
  BY DEF Invariants, RiverIInv, Answering, RiverTree, Held, TypeOK, ContentComplete
<1>2. ASSUME NEW p \in 0..(mmr_size - 1) PROVE IsNode(content, p, p + 1)
  <2>1. p \in Sound /\ p \in Nat
    BY <1>1 DEF Sound
  <2>2. IsNode(content, p, OwnNumber[p]) /\ OwnNumber[p] = p + 1
    BY <1>1, <2>1 DEF TreeBuilt, OwnNumber
  <2> QED BY <2>2
<1>3. ASSUME NEW p \in 0..(mmr_size - 1) PROVE get_elems(p) = content[p + 1]
  <2>1. p \in 0..mmr_size
    BY <1>1
  <2>2. get_elem(p) = get_elems(p)
    BY <1>1, <2>1, BothLookups DEF SameLookup
  <2>3. get_elem(p) = content[p + 1]
    BY <1>1, BatchOrStore DEF ReadYourWrites
  <2> QED BY <2>2, <2>3
<1>4. H(mmr_size) = 0
  BY <1>1 DEF TreeBuilt, H
<1>5. mmr_size <= mmr_size
  BY <1>1
<1>6. Finished(content, mmr_size)
  BY <1>1, <1>2, <1>4, <1>5 DEF Finished
<1> QED BY <1>1, <1>3, <1>6

\* Every node is the item of its place, and above a node is the merge of that node
\* and its sibling.
LEMMA NodeAndParent ==
  ASSUME NEW c, NEW n, Finished(c, n), NEW p \in 0..(n - 1), iparent(p, H(p)) < n
  PROVE  LET up == iparent(p, H(p))
             sibling == isibling(p, H(p))
         IN  /\ up \in 0..(n - 1) /\ sibling \in 0..(n - 1)
             /\ c[up + 1] = IF is_right(p, H(p))
                            THEN merge_pos(up + 1, c[sibling + 1], c[p + 1])
                            ELSE merge_pos(up + 1, c[p + 1], c[sibling + 1])
<1> DEFINE h == H(p)
           up == iparent(p, h)
           sibling == isibling(p, h)
<1>1. /\ h \in Nat /\ up \in Nat /\ sibling \in Nat
      /\ H(up) = h + 1 /\ p < up /\ sibling < up
      /\ Pow2[h + 1] \in Nat
      /\ IF is_right(p, h)
         THEN up = p + 1 /\ sibling = up - Pow2[h + 1]
         ELSE p = up - Pow2[h + 1] /\ sibling = up - 1
      /\ n \in Nat /\ p \in Nat /\ up < n
  <2>1. p \in Nat /\ n \in Nat
    BY DEF Finished
  <2> QED BY <2>1, ParentIsHigher
<1> HIDE DEF h, up, sibling
<1>2. up \in 0..(n - 1) /\ sibling \in 0..(n - 1)
  BY <1>1
<1>3. c[up + 1] = merge_pos(up + 1, c[up - Pow2[h + 1] + 1], c[up])
  <2>1. IsNode(c, up, up + 1)
    BY <1>2 DEF Finished
  <2>2. index_height_mmriver(up) = h + 1 /\ h + 1 # 0
    BY <1>1 DEF H
  <2> QED BY <2>1, <2>2 DEF IsNode
<1>4. CASE is_right(p, h)
  BY <1>1, <1>2, <1>3, <1>4 DEF h, up, sibling
<1>5. CASE ~is_right(p, h)
  <2>1. up - Pow2[h + 1] + 1 = p + 1 /\ up = sibling + 1
    BY <1>1, <1>5
  <2> QED BY <1>2, <1>3, <1>5, <2>1 DEF h, up, sibling
<1> QED BY <1>4, <1>5

\* The items of a finished MMR are terms.
LEMMA ContentIsTerms ==
  ASSUME NEW c, NEW n, Finished(c, n)
  PROVE  \A p \in 0..(n - 1) : c[p + 1] \in Term
<1> DEFINE S == {m \in Nat : \A p \in 0..(n - 1) : p < m => c[p + 1] \in Term}
<1>1. 0 \in S
  OBVIOUS
<1>2. ASSUME NEW m \in Nat, m \in S PROVE m + 1 \in S
  <2> SUFFICES ASSUME NEW p \in 0..(n - 1), p < m + 1 PROVE c[p + 1] \in Term
    OBVIOUS
  <2> DEFINE h == index_height_mmriver(p)
             left == p - Pow2[h]
  <2>1. n \in Nat /\ p \in Nat /\ IsNode(c, p, p + 1)
    BY DEF Finished
  <2>2. CASE h = 0
    <3>1. PICK d \in Data : c[p + 1] = leaf_hash(d)
      BY <2>1, <2>2 DEF IsNode
    <3> QED BY <3>1, LeafIsTerm
  <2>3. CASE h # 0
    <3>1. c[p + 1] = merge_pos(p + 1, c[left + 1], c[p])
      BY <2>1, <2>3 DEF IsNode
    <3>2. left \in Nat /\ p - 1 \in Nat
      BY <2>1, <2>3, ChildrenHeights
    <3>3. Pow2[h] \in Nat \ {0}
      <4>1. h \in Nat
        BY <2>1, NodeHeight
      <4> QED BY <4>1, Pow2Doubles
    <3> HIDE DEF h
    <3>4. left \in 0..(n - 1) /\ left < m /\ p - 1 \in 0..(n - 1) /\ p - 1 < m
      BY <2>1, <3>2, <3>3
    <3> HIDE DEF left
    <3>5. c[left + 1] \in Term /\ c[(p - 1) + 1] \in Term
      BY <1>2, <3>4
    <3>6. (p - 1) + 1 = p /\ p + 1 \in Nat
      BY <2>1
    <3> QED BY <3>1, <3>5, <3>6, MergeIsTerm
  <2> QED BY <2>2, <2>3
<1>3. Nat \subseteq S
  <2> HIDE DEF S
  <2> QED BY <1>1, <1>2, SetInduction
<1>4. ASSUME NEW p \in 0..(n - 1) PROVE c[p + 1] \in Term
  <2>1. n \in Nat /\ n \in S /\ p < n
    BY <1>3 DEF Finished
  <2> QED BY <2>1
<1> QED BY <1>4

-----------------------------------------------------------------------------
(* included_root climbs from a position, whatever items the path has.      *)

\* r[k] is the item for the kth ancestor of p, given x at p and the path.
ClimbsBy(r, p, x, path) ==
  /\ r \in [0..Len(path) -> Item] /\ r[0] = x
  /\ \A k \in 1..Len(path) :
       r[k] = IF is_right(Ancestor(p, k - 1), H(p) + (k - 1))
              THEN merge_pos(Ancestor(p, k) + 1, path[k], r[k - 1])
              ELSE merge_pos(Ancestor(p, k) + 1, r[k - 1], path[k])

\* included_root is the item for the last one.
LEMMA IncludedRootClimbs ==
  ASSUME NEW p \in Nat, NEW x \in Item, NEW path \in Seq(Item)
  PROVE  \E r : ClimbsBy(r, p, x, path) /\ included_root(p, x, path) = r[Len(path)]
<1> DEFINE n == Len(path)
           D == 0..n
           T == [pos : Nat, root : Item]
           height == index_height_mmriver(p)
           Parent(k, below) ==
             LET right == below.pos + 1
                 left == below.pos + 2 * Pow2[height + k - 1]
             IN  IF index_height_mmriver(right) > height + k - 1
                 THEN [pos |-> right, root |-> merge_pos(right + 1, path[k], below.root)]
                 ELSE [pos |-> left, root |-> merge_pos(left + 1, below.root, path[k])]
           stop == {0}
           next == [k \in D |-> IF k = 0 THEN 0 ELSE k - 1]
           exit == [k \in D |-> [pos |-> p, root |-> x]]
           join == [call \in D \X T |-> IF call[1] = 0 THEN [pos |-> p, root |-> x]
                                        ELSE Parent(call[1], call[2])]
           rank == [k \in D |-> k]
<1>1. n \in Nat /\ height \in Nat /\ \A k \in 1..n : path[k] \in Item
  <2>1. index_height_mmriver(p) \in Nat
    BY NodeHeight
  <2>2. Len(path) \in Nat /\ \A k \in 1..Len(path) : path[k] \in Item
    <3> DEFINE I == Item
    <3>1. path \in Seq(I)
      OBVIOUS
    <3> HIDE DEF I
    <3>2. Len(path) \in Nat /\ \A k \in 1..Len(path) : path[k] \in I
      BY <3>1
    <3> QED BY <3>2 DEF I
  <2> QED BY <2>1, <2>2
<1>2. ASSUME NEW k \in 1..n, NEW below \in T
      PROVE  /\ Parent(k, below) \in T
             /\ Parent(k, below).pos = iparent(below.pos, height + (k - 1))
             /\ Parent(k, below).root =
                  IF is_right(below.pos, height + (k - 1))
                  THEN merge_pos(Parent(k, below).pos + 1, path[k], below.root)
                  ELSE merge_pos(Parent(k, below).pos + 1, below.root, path[k])
  <2> DEFINE right == below.pos + 1
             left == below.pos + 2 * Pow2[height + k - 1]
             l == height + k - 1
  <2>1. below.pos \in Nat /\ below.root \in Item /\ l \in Nat /\ l = height + (k - 1)
        /\ path[k] \in Item
    BY <1>1
  <2>2. Pow2[l] \in Nat
    BY <2>1, Pow2Doubles
  <2>3. right \in Nat /\ left \in Nat /\ right + 1 \in Nat /\ left + 1 \in Nat
    <3> DEFINE pow == Pow2[l]
               q == below.pos
    <3>1. q \in Nat /\ pow \in Nat /\ right = q + 1 /\ left = q + 2 * pow
      BY <2>1, <2>2
    <3> HIDE DEF pow, q, right, left
    <3> QED BY ONLY <3>1
  <2>4. /\ is_right(below.pos, l) <=> index_height_mmriver(right) > l
        /\ iparent(below.pos, l) = IF is_right(below.pos, l) THEN right ELSE left
    BY DEF is_right, iparent
  <2> HIDE DEF right, left, height
  <2>5. CASE is_right(below.pos, l)
    <3>1. Parent(k, below) = [pos |-> right, root |-> merge_pos(right + 1, path[k], below.root)]
      BY <2>4, <2>5 DEF right
    <3>2. merge_pos(right + 1, path[k], below.root) \in Item
      BY <2>1, <2>3, MergePosIsItem
    <3> HIDE DEF Parent, l
    <3> QED BY <2>1, <2>3, <2>4, <2>5, <3>1, <3>2
  <2>6. CASE ~is_right(below.pos, l)
    <3>1. Parent(k, below) = [pos |-> left, root |-> merge_pos(left + 1, below.root, path[k])]
      BY <2>4, <2>6 DEF right, left
    <3>2. merge_pos(left + 1, below.root, path[k]) \in Item
      BY <2>1, <2>3, MergePosIsItem
    <3> HIDE DEF Parent, l
    <3> QED BY <2>1, <2>3, <2>4, <2>6, <3>1, <3>2
  <2> QED BY <2>5, <2>6
<1>3. [pos |-> p, root |-> x] \in T
  OBVIOUS
<1> HIDE DEF Parent, T
<1>4. IsLoop(D, T, stop, next, exit, join, rank)
  <2>1. next \in [D -> D] /\ rank \in [D -> Nat]
    BY <1>1
  <2>2. exit \in [D -> T]
    BY <1>3
  <2>3. join \in [D \X T -> T]
    <3>1. \A k \in D : k = 0 \/ k \in 1..n
      BY <1>1
    <3>2. ASSUME NEW call \in D \X T
          PROVE  (IF call[1] = 0 THEN [pos |-> p, root |-> x]
                  ELSE Parent(call[1], call[2])) \in T
      <4>1. call[1] \in D /\ call[2] \in T
        OBVIOUS
      <4> HIDE DEF D
      <4> QED BY <1>2, <1>3, <3>1, <4>1
    <3> HIDE DEF D
    <3> QED BY <3>2
  <2>4. \A k \in D \ stop : rank[next[k]] < rank[k]
    BY <1>1
  <2> HIDE DEF D, stop, next, exit, join, rank
  <2> QED BY <2>1, <2>2, <2>3, <2>4 DEF IsLoop
<1>5. PICK f \in [D -> T] : Loop(f, D, stop, next, exit, join)
  <2> HIDE DEF D, stop, next, exit, join, rank
  <2> QED BY <1>4, LoopHasResult
<1>6. \A k \in D : f[k] = IF k = 0 THEN [pos |-> p, root |-> x] ELSE Parent(k, f[k - 1])
  <2> TAKE k \in D
  <2>1. f[k] = IF k \in stop THEN exit[k] ELSE join[<<k, f[next[k]]>>]
    <3> HIDE DEF D, stop, next, exit, join, rank
    <3> QED BY <1>5 DEF Loop
  <2>2. CASE k = 0
    BY <2>1, <2>2
  <2>3. CASE k # 0
    <3>1. next[k] = k - 1 /\ k - 1 \in D /\ k \notin stop
      BY <1>1, <2>3
    <3>2. f[k - 1] \in T
      BY <3>1
    <3>3. <<k, f[k - 1]>> \in D \X T
      BY <3>2
    <3> HIDE DEF D, next, stop
    <3>4. join[<<k, f[k - 1]>>] = Parent(k, f[k - 1])
      BY <2>3, <3>3
    <3> HIDE DEF join
    <3> QED BY <2>1, <2>3, <3>1, <3>4
  <2> QED BY <2>2, <2>3
<1> DEFINE at[k \in D] == IF k = 0 THEN [pos |-> p, root |-> x] ELSE Parent(k, at[k - 1])
<1>7. at = [k \in D |-> IF k = 0 THEN [pos |-> p, root |-> x] ELSE Parent(k, at[k - 1])]
  <2>1. f = [k \in D |-> IF k = 0 THEN [pos |-> p, root |-> x] ELSE Parent(k, f[k - 1])]
    <3> HIDE DEF D
    <3> QED BY <1>5, <1>6
  <2> HIDE DEF D
  <2> QED BY <2>1
<1>8. included_root(p, x, path) = at[n].root
  BY DEF included_root, Parent
<1> HIDE DEF at
<1>9. at[0] = [pos |-> p, root |-> x]
  <2>1. 0 \in D
    BY <1>1
  <2> HIDE DEF D
  <2> QED BY <1>7, <2>1
<1>10. ASSUME NEW k \in 1..n PROVE at[k] = Parent(k, at[k - 1])
  <2>1. k \in D /\ k # 0
    BY <1>1
  <2> HIDE DEF D
  <2> QED BY <1>7, <2>1
<1> DEFINE S == {k \in Nat : k <= n => at[k] \in T /\ at[k].pos = Ancestor(p, k)}
<1>11. 0 \in S
  <2>1. at[0].pos = p
    BY <1>9
  <2> QED BY <1>3, <1>9, <2>1, AncestorsClimb
<1>12. ASSUME NEW k \in Nat, k \in S PROVE k + 1 \in S
  <2> SUFFICES ASSUME k + 1 <= n PROVE at[k + 1] \in T /\ at[k + 1].pos = Ancestor(p, k + 1)
    OBVIOUS
  <2>1. k + 1 \in 1..n /\ (k + 1) - 1 = k /\ k <= n
    BY <1>1
  <2>2. at[k] \in T /\ at[k].pos = Ancestor(p, k)
    BY <1>12, <2>1
  <2>3. at[k + 1] = Parent(k + 1, at[k])
    BY <1>10, <2>1
  <2>4. at[k + 1] \in T /\ at[k + 1].pos = iparent(at[k].pos, height + ((k + 1) - 1))
    <3> DEFINE l == k + 1
    <3>1. l \in 1..n /\ at[l] = Parent(l, at[k])
      BY <2>1, <2>3
    <3> HIDE DEF l, height
    <3>2. at[l] \in T /\ at[l].pos = iparent(at[k].pos, height + (l - 1))
      BY <1>2, <2>2, <3>1
    <3> QED BY <3>2 DEF l
  <2>5. Ancestor(p, k + 1) = iparent(Ancestor(p, k), H(p) + k)
    BY AncestorsClimb
  <2> QED BY <2>1, <2>2, <2>4, <2>5 DEF H
<1>13. \A k \in 0..n : at[k] \in T /\ at[k].pos = Ancestor(p, k)
  <2>1. Nat \subseteq S
    <3> HIDE DEF S
    <3> QED BY <1>11, <1>12, SetInduction
  <2> QED BY <1>1, <2>1
<1> DEFINE r == [k \in 0..n |-> at[k].root]
<1>14. r \in [0..n -> Item] /\ r[0] = x /\ at[n].root = r[n]
  <2>1. \A k \in 0..n : at[k].root \in Item
    BY <1>13 DEF T
  <2>2. 0 \in 0..n /\ n \in 0..n /\ at[0].root = x
    BY <1>1, <1>9
  <2> HIDE DEF n
  <2> QED BY <2>1, <2>2
<1>15. ASSUME NEW k \in 1..n
       PROVE  r[k] = IF is_right(Ancestor(p, k - 1), H(p) + (k - 1))
                     THEN merge_pos(Ancestor(p, k) + 1, path[k], r[k - 1])
                     ELSE merge_pos(Ancestor(p, k) + 1, r[k - 1], path[k])
  <2>1. k \in 0..n /\ k - 1 \in 0..n
    BY <1>1
  <2>2. r[k] = at[k].root /\ r[k - 1] = at[k - 1].root
    BY <2>1
  <2>3. at[k - 1] \in T /\ at[k - 1].pos = Ancestor(p, k - 1) /\ at[k].pos = Ancestor(p, k)
    BY <1>13, <2>1
  <2>4. at[k] = Parent(k, at[k - 1])
    BY <1>10
  <2> HIDE DEF r, n
  <2> QED BY <1>2, <2>2, <2>3, <2>4 DEF H
<1>16. ClimbsBy(r, p, x, path)
  <2> HIDE DEF r
  <2> QED BY <1>14, <1>15 DEF ClimbsBy
<1> QED BY <1>8, <1>14, <1>16
-----------------------------------------------------------------------------
(* Every generated inclusion proof is accepted.                            *)

\* The items of the first l siblings on the way up from p.
SiblingItems(c, p, l) == [k \in 1..l |-> c[SiblingAt(p, k - 1) + 1]]

\* They are items, and at positions inside.
LEMMA SiblingsAreItems ==
  ASSUME NEW c, NEW n, Finished(c, n), NEW p \in 0..(n - 1), NEW l, ClimbEnds(p, l, n - 1)
  PROVE  /\ l \in Nat /\ SiblingItems(c, p, l) \in Seq(Item)
         /\ Len(SiblingItems(c, p, l)) = l
         /\ \A k \in 1..l : /\ SiblingAt(p, k - 1) \in 0..(n - 1)
                            /\ SiblingItems(c, p, l)[k] = c[SiblingAt(p, k - 1) + 1]
                            /\ SiblingItems(c, p, l)[k] \in Item
<1>1. n \in Nat /\ p \in Nat /\ l \in Nat
  BY DEF Finished, ClimbEnds
<1>2. ASSUME NEW k \in 1..l PROVE SiblingAt(p, k - 1) \in 0..(n - 1)
  <2>1. k - 1 \in 0..(l - 1) /\ k - 1 \in Nat
    BY <1>1
  <2>2. SiblingAt(p, k - 1) \in Nat
    BY <1>1, <2>1, AncestorsClimb
  <2>3. SiblingAt(p, k - 1) <= n - 1
    BY <2>1 DEF ClimbEnds
  <2> QED BY <1>1, <2>2, <2>3
<1>3. \A q \in 0..(n - 1) : c[q + 1] \in Item
  <2>1. \A q \in 0..(n - 1) : q + 1 \in 1..Len(c)
    BY <1>1 DEF Finished
  <2> QED BY <2>1 DEF Finished
<1>4. \A k \in 1..l : c[SiblingAt(p, k - 1) + 1] \in Item
  BY <1>2, <1>3
<1> DEFINE t == SiblingItems(c, p, l)
<1>5. t = [k \in 1..l |-> c[SiblingAt(p, k - 1) + 1]]
  BY DEF SiblingItems
<1> HIDE DEF t
<1>6. t \in Seq(Item) /\ Len(t) = l
  <2> DEFINE I == Item
  <2>1. \A k \in 1..l : c[SiblingAt(p, k - 1) + 1] \in I
    BY <1>4
  <2> HIDE DEF I
  <2>2. t \in Seq(I) /\ Len(t) = l
    BY <1>1, <1>5, <2>1
  <2> QED BY <2>2 DEF I
<1>7. \A k \in 1..l : t[k] = c[SiblingAt(p, k - 1) + 1] /\ t[k] \in Item
  BY <1>4, <1>5
<1> QED BY <1>1, <1>2, <1>6, <1>7 DEF t

\* With the item at p and those of the siblings, the climb passes the items there are.
LEMMA ClimbPassesItems ==
  ASSUME NEW c, NEW n, Finished(c, n), NEW p \in 0..(n - 1), NEW l, ClimbEnds(p, l, n - 1),
         NEW r, ClimbsBy(r, p, c[p + 1], SiblingItems(c, p, l))
  PROVE  \A k \in 0..l : r[k] = c[Ancestor(p, k) + 1]
<1> DEFINE path == SiblingItems(c, p, l)
           S == {k \in Nat : k <= l => r[k] = c[Ancestor(p, k) + 1]}
<1>1. /\ n \in Nat /\ H(n) = 0 /\ p \in Nat /\ l \in Nat /\ Len(path) = l
      /\ \A k \in 1..l : path[k] = c[SiblingAt(p, k - 1) + 1]
  <2>1. n \in Nat /\ H(n) = 0 /\ p \in Nat
    BY DEF Finished
  <2>2. l \in Nat /\ Len(path) = l /\ \A k \in 1..l : path[k] = c[SiblingAt(p, k - 1) + 1]
    BY SiblingsAreItems
  <2> QED BY <2>1, <2>2
<1>2. \A k \in 0..l : Ancestor(p, k) \in 0..(n - 1)
  BY <1>1, NodeClimbs
<1>3. 0 \in S
  <2>1. Ancestor(p, 0) = p /\ r[0] = c[p + 1]
    BY <1>1, AncestorsClimb DEF ClimbsBy
  <2> QED BY <2>1
<1> HIDE DEF path
<1>4. ASSUME NEW k \in Nat, k \in S PROVE k + 1 \in S
  <2> SUFFICES ASSUME k + 1 <= l PROVE r[k + 1] = c[Ancestor(p, k + 1) + 1]
    OBVIOUS
  <2> DEFINE q == Ancestor(p, k)
             h == H(p) + k
             up == Ancestor(p, k + 1)
             sibling == SiblingAt(p, k)
  <2>1. k \in 0..l /\ k + 1 \in 0..l /\ k + 1 \in 1..l /\ (k + 1) - 1 = k /\ k <= l
    BY <1>1
  <2>2. q \in 0..(n - 1) /\ up \in 0..(n - 1) /\ H(q) = h /\ up = iparent(q, h)
        /\ sibling = isibling(q, h)
    BY <1>1, <1>2, <2>1, AncestorsClimb DEF SiblingAt
  <2>3. r[k] = c[q + 1] /\ path[k + 1] = c[sibling + 1]
    BY <1>1, <1>4, <2>1
  <2>4. r[k + 1] = IF is_right(q, h) THEN merge_pos(up + 1, path[k + 1], r[k])
                   ELSE merge_pos(up + 1, r[k], path[k + 1])
    BY <1>1, <2>1 DEF ClimbsBy, path
  <2> HIDE DEF q, h, up, sibling
  <2>5. up < n
    BY <1>1, <2>2
  <2>6. c[up + 1] = IF is_right(q, h) THEN merge_pos(up + 1, c[sibling + 1], c[q + 1])
                    ELSE merge_pos(up + 1, c[q + 1], c[sibling + 1])
    BY <2>2, <2>5, NodeAndParent
  <2>7. r[k + 1] = c[up + 1]
    BY <2>3, <2>4, <2>6
  <2> QED BY <2>7 DEF up
<1>5. Nat \subseteq S
  <2> HIDE DEF S
  <2> QED BY <1>3, <1>4, SetInduction
<1> QED BY <1>1, <1>5

\* What gen_inclusion_proof answers.
LEMMA PathGenerated ==
  ASSUME Invariants, Answering, NEW p \in 0..(mmr_size - 1), NEW l,
         ClimbEnds(p, l, mmr_size - 1)
  PROVE  /\ gen_inclusion_proof(p) = SiblingItems(content, p, l)
         /\ gen_inclusion_proof(p) # None
<1> DEFINE path == inclusion_proof_path(p, mmr_size - 1)
           t == SiblingItems(content, p, l)
<1>1. /\ Finished(content, mmr_size) /\ mmr_size \in Nat /\ p \in Nat
      /\ \A q \in 0..(mmr_size - 1) : get_elems(q) = content[q + 1]
  BY AnswersContent DEF Finished
<1>2. /\ l \in Nat /\ t \in Seq(Item) /\ Len(t) = l
      /\ \A k \in 1..l : SiblingAt(p, k - 1) \in 0..(mmr_size - 1) /\ t[k] \in Item
  BY <1>1, SiblingsAreItems
<1>3. path = [k \in 1..l |-> SiblingAt(p, k - 1)]
  <2>1. mmr_size - 1 \in Nat
    BY <1>1
  <2> QED BY <1>1, <2>1, PathListsSiblings
<1> HIDE DEF t
<1>4. PathItems(p) = t
  <2>1. PathItems(p) = [k \in DOMAIN path |-> get_elems(path[k])]
    BY DEF PathItems
  <2>2. DOMAIN path = 1..l /\ \A k \in 1..l : path[k] = SiblingAt(p, k - 1)
    BY <1>3
  <2> HIDE DEF path
  <2>3. t = [k \in 1..l |-> content[SiblingAt(p, k - 1) + 1]]
    BY DEF t, SiblingItems
  <2>4. \A k \in 1..l : get_elems(path[k]) = content[SiblingAt(p, k - 1) + 1]
    BY <1>1, <1>2, <2>2
  <2> QED BY <2>1, <2>2, <2>3, <2>4
<1>5. ~(p >= mmr_size)
  BY <1>1
<1>6. \A k \in DOMAIN t : t[k] # None
  <2>1. DOMAIN t = 1..l
    BY <1>2
  <2> QED BY <1>2, <2>1, NoneAssumption
<1>7. gen_inclusion_proof(p) = t
  BY <1>4, <1>5, <1>6 DEF gen_inclusion_proof
<1>8. t # None
  BY <1>2, NoneIsNoVec
<1> QED BY <1>7, <1>8 DEF t

\* The accumulator that is answered is that of the content, and no Err.
LEMMA AccumulatorAnswered ==
  ASSUME Invariants, Answering, mmr_size # 0
  PROVE  LET ps == PeaksMMRIVERIter(mmr_size - 1)
         IN  /\ get_accumulator = AccumulatorAt(mmr_size)
             /\ DOMAIN get_accumulator = DOMAIN ps
             /\ \A k \in DOMAIN ps : /\ ps[k] \in 0..(mmr_size - 1)
                                     /\ get_accumulator[k] = content[ps[k] + 1]
<1> DEFINE ps == PeaksMMRIVERIter(mmr_size - 1)
           t == [k \in DOMAIN ps |-> content[ps[k] + 1]]
           items == [k \in DOMAIN ps |-> get_elems(ps[k])]
<1>1. /\ Finished(content, mmr_size) /\ mmr_size \in Nat \ {0}
      /\ content \in Seq(Item) /\ Len(content) = mmr_size
      /\ \A q \in 0..(mmr_size - 1) : get_elems(q) = content[q + 1]
  BY AnswersContent DEF Finished
<1>2. \A k \in DOMAIN ps : ps[k] \in 0..(mmr_size - 1)
  BY <1>1, PeaksAreRow
<1>3. AccumulatorAt(mmr_size) = t
  BY DEF AccumulatorAt
<1>4. get_accumulator = IF mmr_size = 0 \/ \E k \in DOMAIN items : items[k] = None THEN None
                        ELSE items
  BY DEF get_accumulator
<1> HIDE DEF ps
<1>5. \A q \in 0..(mmr_size - 1) : content[q + 1] \in Item
  <2>1. \A q \in 0..(mmr_size - 1) : q + 1 \in 1..Len(content)
    BY <1>1
  <2> QED BY <1>1, <2>1
<1>6. items = t
  BY <1>1, <1>2
<1>7. \A k \in DOMAIN t : t[k] # None
  BY <1>2, <1>5, NoneAssumption
<1>8. get_accumulator = t
  <2> HIDE DEF items, t
  <2> QED BY <1>1, <1>4, <1>6, <1>7
<1>9. DOMAIN t = DOMAIN ps /\ \A k \in DOMAIN ps : t[k] = content[ps[k] + 1]
  OBVIOUS
<1> HIDE DEF t
<1> QED BY <1>2, <1>3, <1>8, <1>9 DEF ps

\* A number other than zero has a bit that is set.
LEMMA SomeOnes ==
  ASSUME NEW n \in Nat \ {0}
  PROVE  count_ones(n) # 0
<1> DEFINE k == BitLength(n) - 1
           m == n - Pow2[k]
<1>1. k \in Nat /\ Pow2[k] <= n /\ n < Pow2[k + 1] /\ BitLength(n) = k + 1
  BY BitLengthBounds
<1> HIDE DEF k
<1>2. m \in Nat /\ m < Pow2[k] /\ Pow2[k] + m = n
  <2>1. Pow2[k] \in Nat /\ Pow2[k + 1] = 2 * Pow2[k]
    BY <1>1, TreeSizes
  <2> QED BY <1>1, <2>1
<1> HIDE DEF m
<1>3. count_ones(m) \in Nat /\ count_ones(n) = count_ones(m) + 1
  BY <1>1, <1>2, CountSplit
<1> QED BY <1>3

\* In every state: an inclusion proof is generated for every node, leaf or not, and
\* it verifies for that node.  The climb of included_root passes the ancestors'
\* items and ends at a peak.
THEOREM InclusionsVerify == RiverSpec => []InclusionVerifies
<1>1. ASSUME Invariants PROVE InclusionVerifies
  <2> SUFFICES ASSUME Answering, NEW p \in 0..(mmr_size - 1)
               PROVE  /\ gen_inclusion_proof(p) # None
                      /\ inclusion_verify(p, gen_inclusion_proof(p), content[p + 1],
                                          get_accumulator)
    BY DEF InclusionVerifies
  <2>1. /\ Finished(content, mmr_size) /\ mmr_size \in Nat /\ mmr_size # 0
        /\ mmr_size - 1 \in Nat /\ p \in Nat /\ H(mmr_size) = 0
        /\ content \in Seq(Item) /\ p + 1 \in 1..Len(content)
    BY <1>1, AnswersContent DEF Finished
  <2>2. PICK l \in Nat : ClimbEnds(p, l, mmr_size - 1)
    BY <2>1, ClimbHasEnd
  <2> DEFINE path == SiblingItems(content, p, l)
             ps == PeaksMMRIVERIter(mmr_size - 1)
  <2>3. gen_inclusion_proof(p) = path /\ gen_inclusion_proof(p) # None
    BY <1>1, <2>2, PathGenerated
  <2>4. path \in Seq(Item) /\ Len(path) = l
    BY <2>1, <2>2, SiblingsAreItems
  <2>5. content[p + 1] \in Item
    BY <2>1
  <2>6. PICK r : /\ ClimbsBy(r, p, content[p + 1], path)
                 /\ included_root(p, content[p + 1], path) = r[Len(path)]
    <3> HIDE DEF path
    <3> QED BY <2>1, <2>4, <2>5, IncludedRootClimbs
  <2>7. r[l] = content[Ancestor(p, l) + 1]
    <3>1. l \in 0..l
      OBVIOUS
    <3> QED BY <2>1, <2>2, <2>6, <3>1, ClimbPassesItems
  <2>8. PICK j \in DOMAIN ps : ps[j] = Ancestor(p, l)
    BY <2>1, <2>2, NodeClimbs
  <2>9. j \in DOMAIN get_accumulator /\ get_accumulator[j] = r[l]
    BY <1>1, <2>1, <2>7, <2>8, AccumulatorAnswered
  <2>10. included_root(p, content[p + 1], path) \in Range(get_accumulator)
    BY <2>4, <2>6, <2>9 DEF Range
  <2>11. PeaksMMRIVERIterLen(p) # 0
    <3>1. p + 1 \in Nat \ {0}
      BY <2>1
    <3> QED BY <3>1, SomeOnes DEF PeaksMMRIVERIterLen
  <2> HIDE DEF path
  <2> QED BY <2>3, <2>10, <2>11 DEF inclusion_verify
<1> QED BY <1>1, InvariantsHold, PTL

-----------------------------------------------------------------------------
(* Nothing else is accepted.                                               *)

\* Terms are items.
LEMMA TermsAreItems ==
  /\ Term \subseteq Item
  /\ \A path \in Seq(Term) : path \in Seq(Item)
<1>1. Term \subseteq Item
  BY DEF Term
<1> DEFINE T == Term
           I == Item
<1>2. \A path \in Seq(T) : path \in Seq(I)
  <2>1. T \subseteq I
    BY <1>1
  <2> HIDE DEF T, I
  <2> TAKE path \in Seq(T)
  <2>2. /\ Len(path) \in Nat /\ path = [k \in 1..Len(path) |-> path[k]]
        /\ \A k \in 1..Len(path) : path[k] \in I
    BY <2>1
  <2> QED BY <2>2
<1> QED BY <1>1, <1>2

\* Terms climb to terms.
LEMMA ClimbsToTerms ==
  ASSUME NEW p \in Nat, NEW x \in Term, NEW path \in Seq(Term), NEW r, ClimbsBy(r, p, x, path)
  PROVE  /\ Len(path) \in Nat /\ \A k \in 1..Len(path) : path[k] \in Term
         /\ \A k \in 0..Len(path) : r[k] \in Term
<1> DEFINE S == {k \in Nat : k <= Len(path) => r[k] \in Term}
<1>1. Len(path) \in Nat /\ \A k \in 1..Len(path) : path[k] \in Term
  <2> DEFINE T == Term
  <2>1. path \in Seq(T)
    OBVIOUS
  <2> HIDE DEF T
  <2>2. Len(path) \in Nat /\ \A k \in 1..Len(path) : path[k] \in T
    BY <2>1
  <2> QED BY <2>2 DEF T
<1>2. 0 \in S
  BY DEF ClimbsBy
<1>3. ASSUME NEW k \in Nat, k \in S PROVE k + 1 \in S
  <2> SUFFICES ASSUME k + 1 <= Len(path) PROVE r[k + 1] \in Term
    OBVIOUS
  <2>1. k + 1 \in 1..Len(path) /\ (k + 1) - 1 = k /\ k <= Len(path) /\ k + 1 \in Nat
    BY <1>1
  <2>2. r[k] \in Term /\ path[k + 1] \in Term
    BY <1>1, <1>3, <2>1
  <2> DEFINE up == Ancestor(p, k + 1)
  <2>3. up + 1 \in Nat
    <3>1. up \in Nat
      BY AncestorsClimb
    <3> HIDE DEF up
    <3> QED BY <3>1
  <2>4. r[k + 1] = merge_pos(up + 1, path[k + 1], r[k])
          \/ r[k + 1] = merge_pos(up + 1, r[k], path[k + 1])
    BY <2>1 DEF ClimbsBy
  <2> QED BY <2>2, <2>3, <2>4, MergeIsTerm
<1>4. Nat \subseteq S
  <2> HIDE DEF S
  <2> QED BY <1>2, <1>3, SetInduction
<1> QED BY <1>1, <1>4

\* A climb of at least one step to the item of a node ends at that node's position.
LEMMA ClimbEndsThere ==
  ASSUME NEW c, NEW n, Finished(c, n), NEW q \in 0..(n - 1),
         NEW p \in Nat, NEW x \in Term, NEW path \in Seq(Term), path # <<>>,
         NEW r, ClimbsBy(r, p, x, path), r[Len(path)] = c[q + 1]
  PROVE  Ancestor(p, Len(path)) = q
<1> DEFINE l == Len(path)
           up == Ancestor(p, l)
           h == index_height_mmriver(q)
           left == q - Pow2[h]
<1>1. /\ l \in Nat /\ \A k \in 1..l : path[k] \in Term
      /\ \A k \in 0..l : r[k] \in Term
  BY ClimbsToTerms
<1>2. l # 0
  <2> DEFINE T == Term
  <2>1. path \in Seq(T) /\ path # <<>>
    OBVIOUS
  <2> HIDE DEF T
  <2> QED BY <2>1
<1>3. l \in 1..l /\ l - 1 \in 0..l /\ up \in Nat /\ up + 1 \in Nat
  <2>1. up \in Nat
    BY <1>1, AncestorsClimb
  <2> HIDE DEF up, l
  <2> QED BY <1>1, <1>2, <2>1
<1>4. PICK a \in Term, b \in Term : r[l] = merge_pos(up + 1, a, b)
  <2>1. r[l] = merge_pos(up + 1, path[l], r[l - 1])
          \/ r[l] = merge_pos(up + 1, r[l - 1], path[l])
    BY <1>3 DEF ClimbsBy
  <2> QED BY <1>1, <1>3, <2>1
<1>5. n \in Nat /\ q \in Nat /\ IsNode(c, q, q + 1)
  BY DEF Finished
<1> HIDE DEF l, up
<1>6. h # 0
  <2> SUFFICES ASSUME h = 0 PROVE FALSE
    OBVIOUS
  <2>1. PICK d \in Data : c[q + 1] = leaf_hash(d)
    BY <1>5 DEF IsNode
  <2>2. leaf_hash(d) # merge_pos(up + 1, a, b)
    BY <1>3, TermsAreItems, LeafIsNoMerge
  <2> QED BY <1>4, <2>1, <2>2 DEF l
<1>7. c[q + 1] = merge_pos(q + 1, c[left + 1], c[q])
  BY <1>5, <1>6 DEF IsNode
<1>8. left \in 0..(n - 1) /\ q - 1 \in 0..(n - 1)
  <2>1. h \in Nat /\ Pow2[h] \in Nat
    <3>1. h \in Nat
      BY <1>5, NodeHeight
    <3> QED BY <3>1, Pow2Doubles
  <2>2. left \in Nat /\ q - 1 \in Nat
    BY <1>5, <1>6, ChildrenHeights
  <2> HIDE DEF h
  <2> QED BY <1>5, <2>1, <2>2
<1> HIDE DEF left
<1>9. c[left + 1] \in Term /\ c[q] \in Term
  <2>1. c[left + 1] \in Term /\ c[(q - 1) + 1] \in Term
    BY <1>8, ContentIsTerms
  <2>2. (q - 1) + 1 = q
    BY <1>5
  <2> QED BY <2>1, <2>2
<1>10. merge_pos(up + 1, a, b) = merge_pos(q + 1, c[left + 1], c[q])
  BY <1>4, <1>7 DEF l
<1>11. up + 1 = q + 1
  <2> DEFINE s == up + 1
             t == q + 1
             y == c[left + 1]
             z == c[q]
  <2>1. /\ s \in Nat /\ t \in Nat /\ y \in Term /\ z \in Term
        /\ merge_pos(s, a, b) = merge_pos(t, y, z)
    BY <1>3, <1>5, <1>9, <1>10
  <2> HIDE DEF s, t, y, z
  <2>2. s = t
    BY <2>1, MergeIsInjective
  <2> QED BY <2>2 DEF s, t
<1>12. up = q
  BY <1>3, <1>5, <1>11
<1> QED BY <1>12 DEF up, l

\* A climb that ends at a peak and with its item has passed the items there are.
LEMMA ClimbBinds ==
  ASSUME NEW c, NEW n, Finished(c, n), n # 0, NEW j \in DOMAIN PeaksMMRIVERIter(n - 1),
         NEW p \in Nat, NEW x \in Term, NEW path \in Seq(Term),
         NEW r, ClimbsBy(r, p, x, path),
         Ancestor(p, Len(path)) = PeaksMMRIVERIter(n - 1)[j],
         r[Len(path)] = c[PeaksMMRIVERIter(n - 1)[j] + 1]
  PROVE  /\ ClimbEnds(p, Len(path), n - 1) /\ p \in 0..(n - 1)
         /\ x = c[p + 1]
         /\ path = SiblingItems(c, p, Len(path))
<1> DEFINE l == Len(path)
           A(k) == Ancestor(p, k)
           Same(k) == r[k] = c[A(k) + 1]
           S == {d \in Nat : d <= l => Same(l - d)}
<1>1. /\ l \in Nat /\ \A k \in 1..l : path[k] \in Term
      /\ \A k \in 0..l : r[k] \in Term
  BY ClimbsToTerms
<1>2. n \in Nat \ {0} /\ H(n) = 0
  BY DEF Finished
<1>3. ClimbEnds(p, l, n - 1) /\ \A k \in 0..l : A(k) \in 0..(n - 1)
  BY <1>1, <1>2, ClimbToPeak
<1>4. Same(l)
  OBVIOUS
<1> HIDE DEF l
<1>5. ASSUME NEW k \in 0..(l - 1), Same(k + 1)
      PROVE  Same(k) /\ path[k + 1] = c[SiblingAt(p, k) + 1]
  <2> DEFINE q == A(k)
             h == H(p) + k
             up == A(k + 1)
             sibling == SiblingAt(p, k)
             symbol == path[k + 1]
  <2>1. k \in Nat /\ k \in 0..l /\ k + 1 \in 0..l /\ k + 1 \in 1..l /\ (k + 1) - 1 = k
    BY <1>1
  <2>2. q \in 0..(n - 1) /\ up \in 0..(n - 1)
    BY <1>3, <2>1
  <2>3. H(q) = h /\ up = iparent(q, h) /\ sibling = isibling(q, h)
    BY <2>1, AncestorsClimb DEF SiblingAt
  <2>4. r[k + 1] = IF is_right(q, h) THEN merge_pos(up + 1, symbol, r[k])
                   ELSE merge_pos(up + 1, r[k], symbol)
    BY <2>1 DEF ClimbsBy, l
  <2>5. r[k + 1] = c[up + 1] /\ symbol \in Term /\ r[k] \in Term
    BY <1>1, <1>5, <2>1
  <2> HIDE DEF q, h, up, sibling, symbol, A
  <2>6. up < n /\ up + 1 \in Nat
    BY <1>2, <2>2
  <2>7. /\ sibling \in 0..(n - 1)
        /\ c[up + 1] = IF is_right(q, h) THEN merge_pos(up + 1, c[sibling + 1], c[q + 1])
                       ELSE merge_pos(up + 1, c[q + 1], c[sibling + 1])
    BY <2>2, <2>3, <2>6, NodeAndParent
  <2>8. c[sibling + 1] \in Term /\ c[q + 1] \in Term
    BY <2>2, <2>7, ContentIsTerms
  <2>9. r[k] = c[q + 1] /\ symbol = c[sibling + 1]
    <3>1. CASE is_right(q, h)
      <4>1. merge_pos(up + 1, symbol, r[k]) = merge_pos(up + 1, c[sibling + 1], c[q + 1])
        BY <2>4, <2>5, <2>7, <3>1
      <4> QED BY <2>5, <2>6, <2>8, <4>1, MergeIsInjective
    <3>2. CASE ~is_right(q, h)
      <4>1. merge_pos(up + 1, r[k], symbol) = merge_pos(up + 1, c[q + 1], c[sibling + 1])
        BY <2>4, <2>5, <2>7, <3>2
      <4> QED BY <2>5, <2>6, <2>8, <4>1, MergeIsInjective
    <3> QED BY <3>1, <3>2
  <2> QED BY <2>9 DEF q, sibling, symbol
<1> HIDE DEF Same
<1>6. \A k \in 0..l : Same(k)
  <2>1. 0 \in S
    <3>1. l - 0 = l
      BY <1>1
    <3> QED BY <1>4, <3>1
  <2>2. ASSUME NEW d \in Nat, d \in S PROVE d + 1 \in S
    <3> SUFFICES ASSUME d + 1 <= l PROVE Same(l - (d + 1))
      OBVIOUS
    <3> DEFINE k == l - (d + 1)
    <3>1. k \in 0..(l - 1) /\ k + 1 = l - d /\ d <= l
      BY <1>1
    <3>2. Same(k + 1)
      BY <2>2, <3>1
    <3> HIDE DEF k
    <3>3. Same(k)
      BY <1>5, <3>1, <3>2
    <3> QED BY <3>3 DEF k
  <2>3. Nat \subseteq S
    <3> HIDE DEF S
    <3> QED BY <2>1, <2>2, SetInduction
  <2> TAKE k \in 0..l
  <2>4. l - k \in Nat /\ l - k <= l /\ l - (l - k) = k
    BY <1>1
  <2> QED BY <2>3, <2>4
<1>7. p \in 0..(n - 1) /\ x = c[p + 1]
  <2>1. 0 \in 0..l
    BY <1>1
  <2>2. A(0) = p /\ r[0] = x
    BY AncestorsClimb DEF ClimbsBy
  <2>3. A(0) \in 0..(n - 1)
    BY <1>3, <2>1
  <2> QED BY <1>6, <2>1, <2>2, <2>3 DEF Same
<1>8. path = SiblingItems(c, p, l)
  <2>1. \A k \in 1..l : path[k] = c[SiblingAt(p, k - 1) + 1]
    <3> TAKE k \in 1..l
    <3>1. k - 1 \in 0..(l - 1) /\ k \in 0..l /\ (k - 1) + 1 = k
      BY <1>1
    <3> QED BY <1>5, <1>6, <3>1
  <2>2. path = [k \in 1..l |-> path[k]]
    <3> DEFINE T == Term
    <3>1. path \in Seq(T)
      OBVIOUS
    <3> HIDE DEF T
    <3> QED BY <3>1 DEF l
  <2> QED BY <2>1, <2>2 DEF SiblingItems
<1> QED BY <1>3, <1>7, <1>8 DEF l

\* Whatever the position, the path and the item, and whoever made them: a path of at
\* least one item verifies for the node at that position only, and only if it is
\* the one that is generated for it.
LEMMA EverythingBound ==
  ASSUME Invariants, Answering, mmr_size # 0
  PROVE  Binds(Nat, Seq(Term), Term)
<1> SUFFICES ASSUME NEW at \in Nat, NEW path \in Seq(Term), NEW item \in Term,
                    path # <<>>, inclusion_verify(at, path, item, get_accumulator)
             PROVE  /\ at \in 0..(mmr_size - 1)
                    /\ item = content[at + 1]
                    /\ path = gen_inclusion_proof(at)
  BY DEF Binds
<1> DEFINE ps == PeaksMMRIVERIter(mmr_size - 1)
<1>1. Finished(content, mmr_size)
  BY AnswersContent
<1>2. PICK r : ClimbsBy(r, at, item, path) /\ included_root(at, item, path) = r[Len(path)]
  BY TermsAreItems, IncludedRootClimbs
<1>3. PICK j \in DOMAIN ps : /\ r[Len(path)] = content[ps[j] + 1]
                            /\ ps[j] \in 0..(mmr_size - 1)
  <2>1. PICK j \in DOMAIN get_accumulator : r[Len(path)] = get_accumulator[j]
    BY <1>2 DEF inclusion_verify, Range
  <2> QED BY <2>1, AccumulatorAnswered
<1>4. Ancestor(at, Len(path)) = ps[j]
  BY <1>1, <1>2, <1>3, ClimbEndsThere
<1>5. /\ ClimbEnds(at, Len(path), mmr_size - 1) /\ at \in 0..(mmr_size - 1)
      /\ item = content[at + 1]
      /\ path = SiblingItems(content, at, Len(path))
  <2> DEFINE c == content
             n == mmr_size
  <2>1. /\ Finished(c, n) /\ n # 0 /\ j \in DOMAIN PeaksMMRIVERIter(n - 1)
        /\ ClimbsBy(r, at, item, path)
        /\ Ancestor(at, Len(path)) = PeaksMMRIVERIter(n - 1)[j]
        /\ r[Len(path)] = c[PeaksMMRIVERIter(n - 1)[j] + 1]
    BY <1>1, <1>2, <1>3, <1>4
  <2> HIDE DEF c, n
  <2>2. /\ ClimbEnds(at, Len(path), n - 1) /\ at \in 0..(n - 1)
        /\ item = c[at + 1]
        /\ path = SiblingItems(c, at, Len(path))
    BY <2>1, ClimbBinds
  <2> QED BY <2>2 DEF c, n
<1>6. gen_inclusion_proof(at) = SiblingItems(content, at, Len(path))
  <2> DEFINE l == Len(path)
  <2>1. ClimbEnds(at, l, mmr_size - 1)
    BY <1>5
  <2> HIDE DEF l
  <2>2. gen_inclusion_proof(at) = SiblingItems(content, at, l)
    BY <1>5, <2>1, PathGenerated
  <2> QED BY <2>2 DEF l
<1> QED BY <1>5, <1>6

\* In every state: none of the inclusion proofs that are generated is accepted for
\* another position or another node, unless item and proof are the same ones; nor
\* is any other path, of whatever items, except for the empty one of a peak.
THEOREM InclusionsBind ==
  RiverSpec => [](/\ InclusionBinds
                  /\ Answering /\ mmr_size # 0 => Binds(Nat, Seq(Term), Term))
<1>1. ASSUME Invariants, Answering PROVE InclusionBinds
  <2> DEFINE positions == 0..mmr_size
             paths == {gen_inclusion_proof(p) : p \in 0..(mmr_size - 1)}
             items == {content[p + 1] : p \in 0..(mmr_size - 1)}
  <2> SUFFICES Binds(positions, paths, items)
    BY DEF InclusionBinds
  <2>1. Finished(content, mmr_size) /\ mmr_size \in Nat
    BY <1>1, AnswersContent DEF Finished
  <2>2. CASE mmr_size = 0
    <3>1. paths = {}
      BY <2>2
    <3> HIDE DEF paths
    <3> QED BY <3>1 DEF Binds
  <2>3. CASE mmr_size # 0
    <3>1. positions \subseteq Nat
      BY <2>1
    <3>2. items \subseteq Term
      BY <2>1, ContentIsTerms
    <3>3. ASSUME NEW p \in 0..(mmr_size - 1) PROVE gen_inclusion_proof(p) \in Seq(Term)
      <4>1. mmr_size - 1 \in Nat /\ p \in Nat
        BY <2>1, <2>3
      <4>2. PICK l \in Nat : ClimbEnds(p, l, mmr_size - 1)
        BY <4>1, ClimbHasEnd
      <4>3. gen_inclusion_proof(p) = SiblingItems(content, p, l)
        BY <1>1, <4>2, PathGenerated
      <4>4. \A k \in 1..l : SiblingAt(p, k - 1) \in 0..(mmr_size - 1)
        BY <2>1, <4>2, SiblingsAreItems
      <4>5. \A k \in 1..l : content[SiblingAt(p, k - 1) + 1] \in Term
        BY <2>1, <4>4, ContentIsTerms
      <4> DEFINE T == Term
      <4>6. \A k \in 1..l : content[SiblingAt(p, k - 1) + 1] \in T
        BY <4>5
      <4> HIDE DEF T
      <4>7. SiblingItems(content, p, l) \in Seq(T)
        BY <4>6 DEF SiblingItems
      <4> QED BY <4>3, <4>7 DEF T
    <3>4. paths \subseteq Seq(Term)
      BY <3>3
    <3>5. Binds(Nat, Seq(Term), Term)
      BY <1>1, <2>3, EverythingBound
    <3> HIDE DEF positions, paths, items
    <3> QED BY <3>1, <3>2, <3>4, <3>5 DEF Binds
  <2> QED BY <2>2, <2>3
<1>2. Invariants => /\ InclusionBinds
                    /\ Answering /\ mmr_size # 0 => Binds(Nat, Seq(Term), Term)
  BY <1>1, EverythingBound DEF InclusionBinds
<1> QED BY <1>2, InvariantsHold, PTL

-----------------------------------------------------------------------------
(* The same tree and the same root as those of an MMR.                     *)

\* What erasing does to an item.
LEMMA ErasedItem ==
  ASSUME NEW x \in Item
  PROVE  /\ Erased(x) \in Item /\ Len(Erased(x)) = Len(x) /\ Len(x) \in Nat
         /\ \A k \in 1..Len(x) : Erased(x)[k] = IF x[k] \in Data THEN x[k] ELSE 0
<1> DEFINE S == Data \cup Nat
<1>1. x \in Seq(S)
  BY DEF Item
<1>2. \A k \in 1..Len(x) : (IF x[k] \in Data THEN x[k] ELSE 0) \in S
  OBVIOUS
<1>3. Len(x) \in Nat /\ DOMAIN x = 1..Len(x)
  <2> HIDE DEF S
  <2> QED BY <1>1
<1>4. Erased(x) = [k \in 1..Len(x) |-> IF x[k] \in Data THEN x[k] ELSE 0]
  BY <1>3 DEF Erased
<1>5. Erased(x) \in [1..Len(x) -> S]
  <2> HIDE DEF S
  <2> QED BY <1>2, <1>4
<1>6. Erased(x) \in Seq(S) /\ Len(Erased(x)) = Len(x)
  <2>1. PICK e : e = Erased(x)
    OBVIOUS
  <2>2. e \in [1..Len(x) -> S]
    BY <1>5, <2>1
  <2> HIDE DEF S
  <2>3. e \in Seq(S) /\ Len(e) = Len(x)
    BY <1>3, <2>2
  <2> QED BY <2>1, <2>3
<1> QED BY <1>3, <1>4, <1>6 DEF Item

\* A leaf has no position in it.
LEMMA ErasedLeaf ==
  ASSUME NEW d \in Data
  PROVE  Erased(leaf_hash(d)) = leaf_hash(d)
<1>1. DOMAIN <<d>> = 1..1 /\ <<d>>[1] = d
  OBVIOUS
<1>2. Erased(<<d>>) = [k \in 1..1 |-> d]
  BY <1>1 DEF Erased
<1>3. <<d>> = [k \in 1..1 |-> d]
  OBVIOUS
<1> QED BY <1>2, <1>3 DEF leaf_hash

\* An inner node loses its own position and those below it.
LEMMA ErasedMerge ==
  ASSUME NEW n \in Nat, NEW a \in Item, NEW b \in Item
  PROVE  Erased(merge_pos(n, a, b)) = merge_pos(0, Erased(a), Erased(b))
<1> DEFINE S == Data \cup Nat
<1>1. PICK x : x = merge_pos(n, a, b)
  OBVIOUS
<1>2. PICK a1 \in Item : a1 = Erased(a)
  BY ErasedItem
<1>3. PICK b1 \in Item : b1 = Erased(b)
  BY ErasedItem
<1>4. PICK y : y = merge_pos(0, a1, b1)
  OBVIOUS
<1>5. x \in Item /\ Parts(x, n, a, b)
  BY <1>1, MergeParts
<1>6. y \in Item /\ Parts(y, 0, a1, b1)
  BY <1>4, MergeParts
<1>7. PICK z \in Item : z = Erased(x)
  BY <1>5, ErasedItem
<1>8. Len(z) = Len(x) /\ \A k \in 1..Len(x) : z[k] = IF x[k] \in Data THEN x[k] ELSE 0
  BY <1>5, <1>7, ErasedItem
<1>9. /\ Len(a1) = Len(a) /\ \A k \in 1..Len(a) : a1[k] = IF a[k] \in Data THEN a[k] ELSE 0
      /\ Len(a) \in Nat
  BY <1>2, ErasedItem
<1>10. /\ Len(b1) = Len(b) /\ \A k \in 1..Len(b) : b1[k] = IF b[k] \in Data THEN b[k] ELSE 0
       /\ Len(b) \in Nat
  BY <1>3, ErasedItem
<1>11. Len(z) = Len(y) /\ Len(z) = 1 + Len(a) + Len(b)
  BY <1>5, <1>6, <1>8, <1>9, <1>10 DEF Parts
<1>12. ASSUME NEW k \in 1..Len(z) PROVE z[k] = y[k]
  <2>1. CASE k = 1
    <3>1. x[1] = n /\ y[1] = 0 /\ n \notin Data
      BY <1>5, <1>6, DataAssumption DEF Parts
    <3>2. 1 \in 1..Len(x)
      BY <1>8, <2>1
    <3>3. z[1] = 0
      BY <1>8, <3>1, <3>2
    <3> QED BY <2>1, <3>1, <3>3
  <2>2. CASE k \in 2..(1 + Len(a))
    <3>1. PICK j \in 1..Len(a) : k = 1 + j
      <4>1. k - 1 \in 1..Len(a) /\ k = 1 + (k - 1)
        BY <1>9, <2>2
      <4> QED BY <4>1
    <3>2. x[k] = a[j] /\ y[k] = a1[j]
      BY <1>5, <1>6, <1>9, <3>1 DEF Parts
    <3>3. z[k] = IF x[k] \in Data THEN x[k] ELSE 0
      BY <1>8
    <3>4. a1[j] = IF a[j] \in Data THEN a[j] ELSE 0
      BY <1>9
    <3> QED BY <3>2, <3>3, <3>4
  <2>3. CASE k \in (2 + Len(a))..(1 + Len(a) + Len(b))
    <3>1. PICK j \in 1..Len(b) : k = 1 + Len(a) + j
      <4>1. k - 1 - Len(a) \in 1..Len(b) /\ k = 1 + Len(a) + (k - 1 - Len(a))
        BY <1>9, <1>10, <2>3
      <4> QED BY <4>1
    <3>2. x[k] = b[j] /\ y[k] = b1[j]
      <4>1. x[1 + Len(a) + j] = b[j]
        BY <1>5 DEF Parts
      <4>2. y[1 + Len(a1) + j] = b1[j]
        BY <1>6, <1>10 DEF Parts
      <4> QED BY <1>9, <3>1, <4>1, <4>2
    <3>3. z[k] = IF x[k] \in Data THEN x[k] ELSE 0
      BY <1>8
    <3>4. b1[j] = IF b[j] \in Data THEN b[j] ELSE 0
      BY <1>10
    <3> QED BY <3>2, <3>3, <3>4
  <2> QED BY <1>9, <1>10, <1>11, <2>1, <2>2, <2>3
<1>13. z = y
  <2>1. z \in Seq(S) /\ y \in Seq(S)
    BY <1>6 DEF Item
  <2> HIDE DEF S
  <2> QED BY <1>11, <1>12, <2>1, SeqEqual
<1> QED BY <1>1, <1>2, <1>3, <1>4, <1>7, <1>13

\* Erasing position by position.
LEMMA ErasedItems ==
  ASSUME NEW s \in Seq(Item)
  PROVE  /\ AllErased(s) \in Seq(Item) /\ Len(AllErased(s)) = Len(s) /\ Len(s) \in Nat
         /\ \A k \in 1..Len(s) : AllErased(s)[k] = Erased(s[k]) /\ s[k] \in Item
<1> DEFINE I == Item
<1>1. s \in Seq(I)
  OBVIOUS
<1>2. Len(s) \in Nat /\ DOMAIN s = 1..Len(s) /\ \A k \in 1..Len(s) : s[k] \in I
  <2> HIDE DEF I
  <2> QED BY <1>1
<1>3. \A k \in 1..Len(s) : Erased(s[k]) \in I
  BY <1>2, ErasedItem
<1>4. PICK t : t = [k \in 1..Len(s) |-> Erased(s[k])]
  OBVIOUS
<1>5. t \in [1..Len(s) -> I]
  <2> HIDE DEF I
  <2> QED BY <1>3, <1>4
<1>6. t \in Seq(I) /\ Len(t) = Len(s)
  <2> HIDE DEF I
  <2> QED BY <1>2, <1>5
<1>7. AllErased(s) = t
  BY <1>2, <1>4 DEF AllErased
<1> QED BY <1>2, <1>4, <1>6, <1>7

\* The nodes of an MMRIVER without their positions are those of an MMR.
LEMMA ErasedIsForest ==
  ASSUME NEW c, Numbered(c, OwnNumber)
  PROVE  IsForest(AllErased(c))
<1> DEFINE e == AllErased(c)
<1>1. c \in Seq(Item) /\ H(Len(c)) = 0
  BY DEF Numbered
<1>2. e \in Seq(Item) /\ Len(e) = Len(c) /\ Len(c) \in Nat
  BY <1>1, ErasedItems
<1>3. \A k \in 1..Len(c) : e[k] = Erased(c[k]) /\ c[k] \in Item
  BY <1>1, ErasedItems
<1> HIDE DEF e
<1>4. ASSUME NEW p \in 0..(Len(c) - 1) PROVE IsNode(e, p, 0)
  <2>1. p \in Nat /\ p + 1 \in 1..Len(c) /\ H(p) \in Nat
    <3>1. p \in Nat /\ p + 1 \in 1..Len(c)
      BY <1>2
    <3> QED BY <3>1, NodeHeight DEF H
  <2>2. IsNode(c, p, OwnNumber[p]) /\ OwnNumber[p] = p + 1
    BY <2>1 DEF Numbered, OwnNumber
  <2>3. e[p + 1] = Erased(c[p + 1])
    BY <1>3, <2>1
  <2>4. CASE H(p) = 0
    <3>1. PICK d \in Data : c[p + 1] = leaf_hash(d)
      BY <2>2, <2>4 DEF IsNode, H
    <3>2. e[p + 1] = leaf_hash(d)
      BY <2>3, <3>1, ErasedLeaf
    <3> QED BY <2>4, <3>2 DEF IsNode, H
  <2>5. CASE H(p) # 0
    <3> DEFINE l == (p - Pow2[H(p)]) + 1
    <3>1. c[p + 1] = merge_pos(p + 1, c[l], c[p])
      BY <2>2, <2>5 DEF IsNode, H
    <3>2. l \in 1..Len(c) /\ p \in 1..Len(c)
      <4>1. p - 1 \in Nat /\ p - Pow2[H(p)] \in Nat /\ Pow2[H(p)] \in Nat \ {0}
        BY <2>1, <2>5, ChildrenHeights, Pow2Doubles DEF H
      <4> QED BY <1>2, <2>1, <4>1
    <3>3. /\ c[l] \in Item /\ c[p] \in Item
          /\ e[l] = Erased(c[l]) /\ e[p] = Erased(c[p])
      BY <1>3, <3>2
    <3>4. Erased(c[p + 1]) = merge_pos(0, e[l], e[p])
      <4>1. PICK a \in Item : a = c[l]
        BY <3>3
      <4>2. PICK b \in Item : b = c[p]
        BY <3>3
      <4>3. p + 1 \in Nat
        BY <2>1
      <4>4. Erased(merge_pos(p + 1, a, b)) = merge_pos(0, Erased(a), Erased(b))
        BY <4>3, ErasedMerge
      <4> QED BY <3>1, <3>3, <4>1, <4>2, <4>4
    <3> QED BY <2>3, <2>5, <3>4 DEF IsNode, H
  <2> QED BY <2>4, <2>5
<1>5. \A p \in 0..(Len(c) - 1) : NoNumber[p] = 0
  <2>1. \A p \in 0..(Len(c) - 1) : p \in Nat
    BY <1>2
  <2> QED BY <2>1 DEF NoNumber
<1> QED BY <1>1, <1>2, <1>4, <1>5, NoNumberType DEF IsForest, Numbered, e

\* They stand over the same leaves.
LEMMA ErasedLeaves ==
  ASSUME NEW c, Numbered(c, OwnNumber)
  PROVE  LeavesOf(AllErased(c)) = LeavesOf(c)
<1> DEFINE e == AllErased(c)
<1>1. c \in Seq(Item)
  BY DEF Numbered
<1>2. Len(e) = Len(c) /\ \A k \in 1..Len(c) : e[k] = Erased(c[k])
  BY <1>1, ErasedItems
<1>3. Numbered(e, NoNumber)
  BY ErasedIsForest DEF IsForest
<1> HIDE DEF e
<1>4. PICK m \in Nat : SizeOf(m) = Len(c)
  BY ForestSize
<1>5. LeavesOf(c) = LeafItems(c, m) /\ LeavesOf(e) = LeafItems(e, m)
  <2>1. LeavesOf(c) = LeafItems(c, m)
    BY <1>4, LeavesAre
  <2>2. LeavesOf(e) = LeafItems(e, m)
    BY <1>2, <1>3, <1>4, LeavesAre
  <2> QED BY <2>1, <2>2
<1>6. ASSUME NEW k \in 1..m PROVE e[SizeOf(k - 1) + 1] = c[SizeOf(k - 1) + 1]
  <2>1. k - 1 \in Nat /\ k - 1 < m
    OBVIOUS
  <2>2. PICK p \in Nat : p = SizeOf(k - 1) /\ p + 1 <= Len(c) /\ H(p) = 0
    <3>1. SizeOf(k - 1) \in Nat /\ SizeOf(k - 1) + 1 <= SizeOf(m)
      BY <2>1, SizeBelow
    <3>2. H(SizeOf(k - 1)) = 0
      BY <2>1, FinishedHeight DEF H
    <3> QED BY <1>4, <3>1, <3>2
  <2>3. Len(c) \in Nat
    BY <1>1
  <2>4. p \in 0..(Len(c) - 1) /\ p + 1 \in 1..Len(c)
    BY <2>2, <2>3
  <2>5. IsNode(c, p, OwnNumber[p])
    BY <2>4 DEF Numbered
  <2>6. PICK d \in Data : c[p + 1] = leaf_hash(d)
    BY <2>2, <2>5 DEF IsNode, H
  <2>7. Erased(c[p + 1]) = c[p + 1]
    BY <2>6, ErasedLeaf
  <2> QED BY <1>2, <2>2, <2>4, <2>7
<1>7. LeafItems(e, m) = LeafItems(c, m)
  BY <1>6 DEF LeafItems
<1> QED BY <1>5, <1>7 DEF e

\* Bagging and erasing can be done in either order.
LEMMA ErasedBag ==
  ASSUME NEW s \in Seq(Item), Len(s) > 0
  PROVE  Erased(bag_rhs_peaks(s)) = bag_rhs_peaks(AllErased(s))
<1> DEFINE t == AllErased(s)
           n == Len(s)
           B == BagOf(s)
           E == BagOf(t)
           S == {j \in Nat : j < n => Erased(B[n - j]) = E[n - j]}
<1>1. t \in Seq(Item) /\ Len(t) = n /\ n \in Nat \ {0}
  BY ErasedItems
<1>2. \A k \in 1..n : t[k] = Erased(s[k]) /\ s[k] \in Item
  BY ErasedItems
<1>3. /\ bag_rhs_peaks(s) = B[1]
      /\ \A k \in 1..n : /\ B[k] \in Item
                          /\ B[k] = IF k = n THEN s[k] ELSE merge_peaks(B[k + 1], s[k])
  BY BagDefined
<1>4. /\ bag_rhs_peaks(t) = E[1]
      /\ \A k \in 1..n : E[k] = IF k = n THEN t[k] ELSE merge_peaks(E[k + 1], t[k])
  <2> HIDE DEF t, n
  <2>1. Len(t) > 0
    BY <1>1
  <2> QED BY <1>1, <2>1, BagDefined
<1> HIDE DEF t, n, B, E
<1>5. 0 \in S
  <2>1. n \in 1..n /\ n - 0 = n
    BY <1>1
  <2>2. B[n] = s[n] /\ E[n] = t[n] /\ t[n] = Erased(s[n])
    BY <1>2, <1>3, <1>4, <2>1
  <2> QED BY <2>1, <2>2
<1>6. ASSUME NEW j \in S PROVE j + 1 \in S
  <2> SUFFICES ASSUME j + 1 < n PROVE Erased(B[n - (j + 1)]) = E[n - (j + 1)]
    OBVIOUS
  <2>1. PICK k \in 1..n : k = n - (j + 1) /\ k # n /\ k + 1 = n - j /\ k + 1 \in 1..n
    <3>1. j \in Nat
      OBVIOUS
    <3>2. n - (j + 1) \in 1..n /\ n - (j + 1) # n /\ (n - (j + 1)) + 1 = n - j
          /\ (n - (j + 1)) + 1 \in 1..n
      BY <1>1, <3>1
    <3> QED BY <3>2
  <2>2. Erased(B[k + 1]) = E[k + 1]
    <3>1. j < n => Erased(B[n - j]) = E[n - j]
      OBVIOUS
    <3>2. j \in Nat /\ j < n
      BY <1>1
    <3> QED BY <2>1, <3>1, <3>2
  <2>3. B[k] = merge_peaks(B[k + 1], s[k]) /\ E[k] = merge_peaks(E[k + 1], t[k])
    BY <1>3, <1>4, <2>1
  <2>4. t[k] = Erased(s[k]) /\ s[k] \in Item /\ B[k + 1] \in Item
    BY <1>2, <1>3, <2>1
  <2>5. PICK a \in Item : a = B[k + 1]
    BY <2>4
  <2>6. PICK b \in Item : b = s[k]
    BY <2>4
  <2>7. Erased(merge_pos(0, a, b)) = merge_pos(0, Erased(a), Erased(b))
    BY ErasedMerge
  <2> QED BY <2>1, <2>2, <2>3, <2>4, <2>5, <2>6, <2>7 DEF merge_peaks, merge
<1>7. \A j \in Nat : j \in S
  <2>1. S \subseteq Nat
    OBVIOUS
  <2> HIDE DEF S
  <2> QED BY <1>5, <1>6, <2>1, SetInduction
<1>8. Erased(B[n - (n - 1)]) = E[n - (n - 1)] /\ n - (n - 1) = 1
  <2>1. n - 1 \in Nat /\ n - 1 < n /\ n - (n - 1) = 1
    BY <1>1
  <2>2. n - 1 \in S
    BY <1>7, <2>1
  <2> QED BY <2>1, <2>2
<1> QED BY <1>3, <1>4, <1>8 DEF t

LEMMA OwnNumberType == OwnNumber \in [Nat -> Nat]
BY DEF OwnNumber

\* Every node of an MMRIVER is at its place, as in an MMR of the same leaves: the
\* two loops of push build the same tree.  And every inner node is hashed with its
\* own position, counted from one, whatever has failed in the middle of a push.
THEOREM RiverTreeInShape == RiverSpec => []RiverTreeShape
<1>1. Invariants => RiverTreeShape
  <2> SUFFICES ASSUME Invariants, intact
               PROVE  /\ AllErased(content) = Layout(LeavesOf(content))
                      /\ \A p \in DOMAIN content :
                           IsLeaf(content[p]) \/ Head(content[p]) = p
    BY DEF RiverTreeShape
  <2>1. Numbered(content, OwnNumber)
    BY ContentIsForest, OwnNumberType DEF Invariants, RiverIInv, RiverTree
  <2>2. AllErased(content) = Layout(LeavesOf(content))
    BY <2>1, ErasedIsForest, ErasedLeaves, LayoutIsForest
  <2>3. ASSUME NEW p \in DOMAIN content PROVE IsLeaf(content[p]) \/ Head(content[p]) = p
    <3>1. content \in Seq(Item) /\ Len(content) \in Nat /\ DOMAIN content = 1..Len(content)
      BY <2>1 DEF Numbered
    <3>2. PICK q \in Nat : q = p - 1 /\ q + 1 = p /\ q \in 0..(Len(content) - 1)
      <4>1. p - 1 \in Nat /\ (p - 1) + 1 = p /\ p - 1 \in 0..(Len(content) - 1)
        BY <3>1
      <4> QED BY <4>1
    <3>3. IsNode(content, q, OwnNumber[q]) /\ OwnNumber[q] = p
      BY <2>1, <3>2 DEF Numbered, OwnNumber
    <3>4. CASE H(q) = 0
      <4>1. PICK d \in Data : content[p] = leaf_hash(d)
        BY <3>2, <3>3, <3>4 DEF IsNode, H
      <4>2. Len(<<d>>) = 1
        OBVIOUS
      <4> QED BY <4>1, <4>2 DEF IsLeaf, leaf_hash
    <3>5. CASE H(q) # 0
      <4> DEFINE l == (q - Pow2[H(q)]) + 1
      <4>1. content[p] = merge_pos(p, content[l], content[q])
        BY <3>2, <3>3, <3>5 DEF IsNode, H
      <4>2. l \in 1..Len(content) /\ q \in 1..Len(content)
        <5>1. H(q) \in Nat
          BY <3>2, NodeHeight DEF H
        <5>2. q - 1 \in Nat /\ q - Pow2[H(q)] \in Nat /\ Pow2[H(q)] \in Nat \ {0}
          BY <3>2, <3>5, <5>1, ChildrenHeights, Pow2Doubles DEF H
        <5> QED BY <3>1, <3>2, <5>1, <5>2
      <4>3. \A k \in 1..Len(content) : content[k] \in Item
        BY <2>1, ErasedItems DEF Numbered
      <4>4. PICK a \in Item : a = content[l]
        BY <4>2, <4>3
      <4>5. PICK b \in Item : b = content[q]
        BY <4>2, <4>3
      <4>6. PICK x \in Item : x = content[p]
        BY <3>1, <4>3
      <4>7. p \in Nat
        BY <3>2
      <4>8. x[1] = p /\ Len(x) > 0
        <5>1. x = merge_pos(p, a, b)
          BY <4>1, <4>4, <4>5, <4>6
        <5>2. Parts(merge_pos(p, a, b), p, a, b)
          BY <4>7, MergeParts
        <5>3. x[1] = p /\ Len(x) = 1 + Len(a) + Len(b)
          BY <5>1, <5>2 DEF Parts
        <5>4. Len(a) \in Nat /\ Len(b) \in Nat
          BY <5>2 DEF Parts
        <5> QED BY <5>3, <5>4
      <4>9. Head(x) = x[1]
        BY <4>8 DEF Item
      <4> QED BY <4>6, <4>8, <4>9
    <3> QED BY <3>4, <3>5
  <2> QED BY <2>2, <2>3
<1> QED BY <1>1, InvariantsHold, PTL

\* get_root of an MMRIVER is that of an MMR of the same leaves, but for the
\* positions in its hashes.
THEOREM RiverRootIsCorrect == RiverSpec => []RiverRootCorrect
<1>1. Invariants => RiverRootCorrect
  <2> SUFFICES ASSUME Invariants, intact
               PROVE  IF content = <<>> THEN get_root_mmriver = None
                      ELSE Erased(get_root_mmriver) = Bagged(LeavesOf(content))
    BY DEF RiverRootCorrect
  <2>1. /\ TypeOK /\ ContentComplete /\ Held /\ TreeBuilt(OwnNumber)
        /\ content \in Seq(Item) /\ Len(content) = mmr_size /\ mmr_size \in Nat
    BY DEF Invariants, RiverIInv, RiverTree, Held, TypeOK, ContentComplete
  <2>2. CASE content = <<>>
    <3>1. mmr_size = 0
      BY <2>1, <2>2
    <3>2. get_root_mmriver = None
      BY <3>1 DEF get_root_mmriver, get_accumulator
    <3> QED BY <2>2, <3>2
  <2>3. CASE content # <<>>
    <3> DEFINE peaks == PeaksIter(mmr_size)
               e == AllErased(content)
               items == ItemsAt(content, peaks)
    <3>1. Numbered(content, OwnNumber) /\ H(mmr_size) = 0 /\ mmr_size \in Nat \ {0}
      <4>1. Numbered(content, OwnNumber)
        BY <2>1, ContentIsForest, OwnNumberType
      <4>2. mmr_size # 0
        BY <2>1, <2>3, EmptySeq
      <4> QED BY <2>1, <4>1, <4>2 DEF Numbered
    <3>2. /\ peaks = PeaksMMRIVERIter(mmr_size - 1) /\ peaks # <<>>
          /\ peaks \in Seq(0..(mmr_size - 1))
          /\ \A k \in DOMAIN peaks : peaks[k] \in 0..(mmr_size - 1)
      BY <3>1, PeaksExist
    <3>3. IsForest(e) /\ LeavesOf(e) = LeavesOf(content)
      BY <3>1, ErasedIsForest, ErasedLeaves
    <3>4. Len(e) = mmr_size /\ \A k \in 1..mmr_size : e[k] = Erased(content[k])
      BY <2>1, ErasedItems
    <3> HIDE DEF e
    <3>5. Bagged(LeavesOf(content)) = bag_rhs_peaks(ItemsAt(e, peaks))
      BY <3>1, <3>3, <3>4, RootOfForest
    <3> HIDE DEF peaks
    <3>6. \A k \in DOMAIN peaks : /\ get_elems(peaks[k]) = content[peaks[k] + 1]
                                  /\ content[peaks[k] + 1] \in Item
      BY <2>1, <3>2, ReadsContent
    <3>7. [k \in DOMAIN peaks |-> get_elems(peaks[k])] = items
      BY <3>6 DEF ItemsAt
    <3>8. items \in Seq(Item) /\ Len(items) > 0
      <4>1. Len(peaks) \in Nat \ {0} /\ DOMAIN peaks = 1..Len(peaks)
        BY <3>2, EmptySeq
      <4>2. items \in [1..Len(peaks) -> Item]
        BY <3>6, <4>1 DEF ItemsAt
      <4> DEFINE I == Item
      <4>3. items \in [1..Len(peaks) -> I]
        BY <4>2
      <4> HIDE DEF I, items
      <4>4. items \in Seq(I) /\ Len(items) = Len(peaks)
        BY <4>1, <4>3
      <4> QED BY <4>1, <4>4 DEF I
    <3>9. get_accumulator = items
      <4>1. ~\E k \in DOMAIN items : items[k] = None
        BY <3>6, NoneAssumption DEF ItemsAt
      <4> QED BY <3>1, <3>2, <3>7, <4>1 DEF get_accumulator
    <3>10. items # None
      BY <3>8, NoneIsNoVec
    <3>11. get_root_mmriver = bag_rhs_peaks(items)
      BY <3>9, <3>10 DEF get_root_mmriver
    <3>12. Erased(bag_rhs_peaks(items)) = bag_rhs_peaks(AllErased(items))
      <4> HIDE DEF items
      <4> QED BY <3>8, ErasedBag
    <3>13. AllErased(items) = ItemsAt(e, peaks)
      <4>1. \A k \in DOMAIN peaks : e[peaks[k] + 1] = Erased(content[peaks[k] + 1])
        <5>1. \A k \in DOMAIN peaks : peaks[k] + 1 \in 1..mmr_size
          BY <2>1, <3>2
        <5> QED BY <3>4, <5>1
      <4> QED BY <4>1 DEF ItemsAt, AllErased
    <3> QED BY <2>3, <3>5, <3>11, <3>12, <3>13
  <2> QED BY <2>2, <2>3
<1> QED BY <1>1, InvariantsHold, PTL

=============================================================================
