--------------------------- MODULE MountainsProofs ---------------------------
(***************************************************************************)
(* That the formulas of helper.rs describe the range that Mountains grows, *)
(* at every size.  The range is a row of mountains.                        *)
(***************************************************************************)
EXTENDS Mountains, RowProofs

-----------------------------------------------------------------------------
(* The range is such a row, and its nodes are as high as helper.rs says.   *)

Grown ==
  /\ heights \in Seq(Nat)
  /\ Row(peaks) /\ size = Nodes(peaks)
  /\ \A p \in 0..(size - 1) : HeightOf(p) = H(p)

\* MergeIsDue, which looks at the heights written down, is Due, which calculates them.
LEMMA GrownDue ==
  /\ Grown => /\ size \in Nat /\ Len(peaks) \in Nat
              /\ \A k \in 1..Len(peaks) : HeightOf(peaks[k]) = H(peaks[k])
              /\ MergeIsDue <=> Due(peaks)
  /\ Grown' => (MergeIsDue' <=> Due(peaks'))
<1>1. ASSUME Grown
      PROVE  /\ size \in Nat /\ Len(peaks) \in Nat
             /\ \A k \in 1..Len(peaks) : HeightOf(peaks[k]) = H(peaks[k])
             /\ MergeIsDue <=> Due(peaks)
  <2>1. Row(peaks) /\ size = Nodes(peaks) /\ size \in Nat /\ Len(peaks) \in Nat
    BY <1>1, RowTypes DEF Grown
  <2>2. \A p \in 0..(Nodes(peaks) - 1) : heights[p + 1] = H(p)
    BY <1>1, <2>1 DEF Grown, HeightOf
  <2> QED BY <2>1, <2>2, PeakHeightsAre DEF MergeIsDue, HeightOf
<1>2. ASSUME Grown' PROVE MergeIsDue' <=> Due(peaks')
  <2>1. Row(peaks') /\ \A p \in 0..(Nodes(peaks') - 1) : heights'[p + 1] = H(p)
    BY <1>2 DEF Grown, HeightOf
  <2> QED BY <2>1, PeakHeightsAre DEF MergeIsDue, HeightOf
<1> QED BY <1>1, <1>2

\* The empty range is a row.
LEMMA GrownInit == Init => Grown
<1> SUFFICES ASSUME Init PROVE Grown
  OBVIOUS
<1>1. heights = <<>> /\ peaks = <<>> /\ Len(peaks) = 0 /\ Len(heights) = 0
  BY DEF Init
<1>2. Row(peaks)
  BY <1>1 DEF Row
<1>3. Nodes(peaks) = 0
  BY <1>1 DEF Nodes, Before
<1> QED BY <1>1, <1>2, <1>3 DEF Grown, size

\* What a node that comes next adds.
LEMMA NodeAdded ==
  ASSUME Grown, NEW h, h = H(size), heights' = Append(heights, h),
         Row(peaks'), Nodes(peaks') = Nodes(peaks) + 1
  PROVE  Grown'
<1>1. heights \in Seq(Nat) /\ size \in Nat /\ size = Len(heights) /\ size = Nodes(peaks)
  BY GrownDue DEF Grown, size
<1>2. h \in Nat
  BY <1>1, NodeHeight DEF H
<1>3. /\ heights' \in Seq(Nat) /\ Len(heights') = Len(heights) + 1
      /\ \A k \in 1..Len(heights) : heights'[k] = heights[k]
      /\ heights'[Len(heights) + 1] = h
  <2>1. \A s \in Seq(Nat), x \in Nat :
          /\ Append(s, x) \in Seq(Nat) /\ Len(Append(s, x)) = Len(s) + 1
          /\ \A k \in 1..Len(s) : Append(s, x)[k] = s[k]
          /\ Append(s, x)[Len(s) + 1] = x
    BY AppendProperties
  <2> QED BY <1>1, <1>2, <2>1
<1>4. size' = size + 1 /\ size' = Nodes(peaks')
  BY <1>1, <1>3 DEF size
<1>5. ASSUME NEW p \in 0..(size' - 1) PROVE heights'[p + 1] = H(p)
  <2>1. CASE p = size
    BY <1>1, <1>3, <2>1
  <2>2. CASE p # size
    <3>1. p \in 0..(size - 1) /\ p + 1 \in 1..Len(heights)
      BY <1>1, <1>4, <2>2
    <3> QED BY <1>3, <3>1 DEF Grown, HeightOf
  <2> QED BY <2>1, <2>2
<1> QED BY <1>3, <1>4, <1>5 DEF Grown, HeightOf

\* Each step leaves a row, and writes down the height that is calculated.
LEMMA GrownStep == Grown /\ [Next]_vars => Grown'
<1> SUFFICES ASSUME Grown, [Next]_vars PROVE Grown'
  OBVIOUS
<1>1. Row(peaks) /\ size = Nodes(peaks) /\ (MergeIsDue <=> Due(peaks))
  BY GrownDue DEF Grown
<1>2. CASE AddLeaf
  <2>1. ~Due(peaks) /\ heights' = Append(heights, 0) /\ peaks' = Append(peaks, Nodes(peaks))
    BY <1>1, <1>2 DEF AddLeaf
  <2>2. H(size) = 0
    BY <1>1, <2>1, HeightAfterRow
  <2>3. Row(peaks') /\ Nodes(peaks') = Nodes(peaks) + 1
    BY <1>1, <2>1, LeafAdded
  <2> QED BY <2>1, <2>2, <2>3, NodeAdded
<1>3. CASE AddParent
  <2> DEFINE h == H(peaks[Len(peaks)]) + 1
  <2>1. /\ Due(peaks)
        /\ heights' = Append(heights, HeightOf(peaks[Len(peaks)]) + 1)
        /\ peaks' = Append(SubSeq(peaks, 1, Len(peaks) - 2), Nodes(peaks))
    BY <1>1, <1>3 DEF AddParent
  <2>2. H(size) = h
    BY <1>1, <2>1, HeightAfterRow
  <2>3. Row(peaks') /\ Nodes(peaks') = Nodes(peaks) + 1
    BY <1>1, <2>1, ParentAdded
  <2>4. heights' = Append(heights, h)
    <3>1. Len(peaks) \in 1..Len(peaks)
      BY <1>1, <2>1, RowTypes DEF Due
    <3> QED BY <2>1, <3>1, GrownDue
  <2> HIDE DEF h
  <2> QED BY <2>2, <2>3, <2>4, NodeAdded
<1>4. CASE UNCHANGED vars
  BY <1>4 DEF vars, Grown, size, HeightOf
<1> QED BY <1>2, <1>3, <1>4 DEF Next

\* The range is a row whenever it is looked at, with the heights that are calculated.
LEMMA RangeGrows == Spec => []Grown
<1> QED BY GrownInit, GrownStep, PTL DEF Spec

\* pos_height_in_tree and index_height_mmriver give every node its height, in a range
\* of any size.
THEOREM HeightsGrown == Spec => []HeightsAgree
<1>1. Grown => HeightsAgree
  <2> SUFFICES ASSUME Grown, size > 0 PROVE HeightsAgree
    BY DEF HeightsAgree
  <2>1. size - 1 \in Nat /\ size - 1 \in 0..(size - 1)
    BY GrownDue
  <2>2. HeightOf(size - 1) = H(size - 1)
    BY <2>1 DEF Grown
  <2> QED BY <2>1, <2>2, HeightsSame DEF HeightsAgree, H
<1> QED BY <1>1, RangeGrows, PTL

\* PeaksMMRIVERIter yields the roots of every range, also in the middle of a push.
THEOREM RiverPeaksGrown == Spec => []MMRIVERPeaksAgree
<1>1. Grown => MMRIVERPeaksAgree
  <2> SUFFICES ASSUME Grown, size > 0 PROVE PeaksMMRIVERIter(size - 1) = peaks
    BY DEF MMRIVERPeaksAgree
  <2>1. Row(peaks) /\ size = Nodes(peaks) /\ Len(peaks) \in Nat
    BY RowTypes DEF Grown
  <2>2. Len(peaks) > 0
    <3>1. Len(peaks) = 0 => Nodes(peaks) = 0
      BY DEF Nodes, Before
    <3> QED BY <2>1, <3>1
  <2> QED BY <2>1, <2>2, RiverPeaksOfRow
<1> QED BY <1>1, RangeGrows, PTL

-----------------------------------------------------------------------------
(* Leaves.                                                                 *)

Counted ==
  /\ leaves \in Nat /\ 2 * leaves = size + Len(peaks)
  /\ leaves > 0 => lastLeaf = SizeOf(leaves - 1)
  /\ settled.leaves \in Nat /\ SizeOf(settled.leaves) = settled.size

\* Nothing is counted yet.
LEMMA CountedInit == Init => Counted
<1> SUFFICES ASSUME Init PROVE Counted
  OBVIOUS
<1>1. leaves = 0 /\ size = 0 /\ Len(peaks) = 0 /\ settled.leaves = 0 /\ settled.size = 0
  BY DEF Init, size
<1> QED BY <1>1, NoLeaves DEF Counted

\* A leaf adds one leaf, one node and one peak; a parent adds a node and removes a peak.
LEMMA CountedStep == Grown /\ Grown' /\ Counted /\ [Next]_vars => Counted'
<1> SUFFICES ASSUME Grown, Grown', Counted, [Next]_vars PROVE Counted'
  OBVIOUS
<1>1. /\ Row(peaks) /\ size = Nodes(peaks) /\ (MergeIsDue <=> Due(peaks))
      /\ size \in Nat /\ Len(peaks) \in Nat
  BY GrownDue DEF Grown
<1>2. /\ Row(peaks') /\ size' = Nodes(peaks') /\ (MergeIsDue' <=> Due(peaks'))
  BY GrownDue DEF Grown
<1>3. /\ leaves \in Nat /\ 2 * leaves = size + Len(peaks)
      /\ leaves > 0 => lastLeaf = SizeOf(leaves - 1)
      /\ settled.leaves \in Nat /\ SizeOf(settled.leaves) = settled.size
  BY DEF Counted
<1>4. ASSUME leaves' \in Nat, 2 * leaves' = size' + Len(peaks'), Settle
      PROVE  settled'.leaves \in Nat /\ SizeOf(settled'.leaves) = settled'.size
  <2>1. CASE MergeIsDue'
    BY <1>3, <1>4, <2>1 DEF Settle
  <2>2. CASE ~MergeIsDue'
    <3>1. settled'.leaves = leaves' /\ settled'.size = size'
      BY <1>4, <2>2 DEF Settle
    <3>2. SizeOf(leaves') = Nodes(peaks')
      BY <1>2, <1>4, <2>2, SizeOfRow
    <3> QED BY <1>2, <1>4, <3>1, <3>2
  <2> QED BY <2>1, <2>2
<1>5. CASE AddLeaf
  <2>1. /\ ~Due(peaks) /\ peaks' = Append(peaks, Nodes(peaks)) /\ leaves' = leaves + 1
        /\ lastLeaf' = size /\ Settle
    BY <1>1, <1>5 DEF AddLeaf
  <2>2. Nodes(peaks') = Nodes(peaks) + 1 /\ Len(peaks') = Len(peaks) + 1
    BY <1>1, <2>1, LeafAdded
  <2>3. leaves' \in Nat /\ 2 * leaves' = size' + Len(peaks') /\ leaves' - 1 = leaves
    <3> DEFINE s == size  sp == size'  n == Len(peaks)  np == Len(peaks')
               lp == leaves'
    <3>1. /\ s \in Nat /\ n \in Nat /\ leaves \in Nat /\ 2 * leaves = s + n
          /\ sp = s + 1 /\ np = n + 1 /\ lp = leaves + 1
      BY <1>1, <1>2, <1>3, <2>1, <2>2
    <3> HIDE DEF s, sp, n, np, lp
    <3>2. lp \in Nat /\ 2 * lp = sp + np /\ lp - 1 = leaves
      BY ONLY <3>1
    <3> QED BY <3>2 DEF sp, np, lp
  <2>4. lastLeaf' = SizeOf(leaves' - 1)
    <3>1. SizeOf(leaves) = Nodes(peaks)
      BY <1>1, <1>3, <2>1, SizeOfRow
    <3> QED BY <1>1, <2>1, <2>3, <3>1
  <2> QED BY <1>4, <2>1, <2>3, <2>4 DEF Counted
<1>6. CASE AddParent
  <2>1. /\ Due(peaks) /\ peaks' = Append(SubSeq(peaks, 1, Len(peaks) - 2), Nodes(peaks))
        /\ UNCHANGED <<leaves, lastLeaf>> /\ Settle
    BY <1>1, <1>6 DEF AddParent
  <2>2. Nodes(peaks') = Nodes(peaks) + 1 /\ Len(peaks') = Len(peaks) - 1
    BY <1>1, <2>1, ParentAdded
  <2>3. leaves' \in Nat /\ 2 * leaves' = size' + Len(peaks')
    <3> DEFINE s == size  sp == size'  n == Len(peaks)  np == Len(peaks')
               lp == leaves'
    <3>1. /\ s \in Nat /\ n \in Nat /\ leaves \in Nat /\ 2 * leaves = s + n
          /\ sp = s + 1 /\ np = n - 1 /\ lp = leaves
      BY <1>1, <1>2, <1>3, <2>1, <2>2
    <3> HIDE DEF s, sp, n, np, lp
    <3>2. lp \in Nat /\ 2 * lp = sp + np
      BY ONLY <3>1
    <3> QED BY <3>2 DEF sp, np, lp
  <2> QED BY <1>3, <1>4, <2>1, <2>3 DEF Counted
<1>7. CASE UNCHANGED vars
  BY <1>7 DEF vars, Counted, size
<1> QED BY <1>5, <1>6, <1>7 DEF Next

\* Leaves, nodes and peaks keep their relation.
LEMMA LeavesCounted == Spec => []Counted
<1> QED BY CountedInit, CountedStep, RangeGrows, PTL DEF Spec

\* A leaf index is the position at which that leaf was added, and the size when its push
\* was over, for every leaf.
THEOREM LeafIndicesGrown == Spec => []LeafIndicesAgree
<1>1. Counted => LeafIndicesAgree
  <2> SUFFICES ASSUME Counted, leaves > 0
               PROVE  /\ leaf_index_to_pos(leaves - 1) = lastLeaf
                      /\ settled.leaves > 0 =>
                           leaf_index_to_mmr_size(settled.leaves - 1) = settled.size
    BY DEF LeafIndicesAgree
  <2>1. leaf_index_to_pos(leaves - 1) = lastLeaf
    <3>1. leaves - 1 \in Nat /\ lastLeaf = SizeOf(leaves - 1)
      BY DEF Counted
    <3> QED BY <3>1, LeafPosition
  <2>2. leaf_index_to_mmr_size(settled.leaves - 1) = settled.size
    <3>1. (settled.leaves - 1) + 1 = settled.leaves /\ SizeOf(settled.leaves) = settled.size
      BY DEF Counted
    <3> QED BY <3>1 DEF leaf_index_to_mmr_size, SizeOf
  <2> QED BY <2>1, <2>2
<1> QED BY <1>1, LeavesCounted, PTL

-----------------------------------------------------------------------------
(* Families.                                                               *)

Related ==
  \A p \in DOMAIN family : p \in 0..(size - 1) /\ family[p] = Relatives(p, H(p))

\* No node has a parent yet.
LEMMA RelatedInit == Init => Related
<1> QED BY DEF Init, Related

\* A parent is written down for the two nodes whose offsets lead to it.
LEMMA RelatedStep == Grown /\ Grown' /\ Related /\ [Next]_vars => Related'
<1> SUFFICES ASSUME Grown, Grown', Related, [Next]_vars PROVE Related'
  OBVIOUS
<1>1. Row(peaks) /\ size = Nodes(peaks) /\ (MergeIsDue <=> Due(peaks)) /\ size \in Nat
  BY GrownDue DEF Grown
<1>2. size' = Nodes(peaks')
  BY DEF Grown
<1>3. CASE AddLeaf
  <2>1. ~Due(peaks) /\ peaks' = Append(peaks, Nodes(peaks)) /\ family' = family
    BY <1>1, <1>3 DEF AddLeaf
  <2>2. size' = size + 1
    BY <1>1, <1>2, <2>1, LeafAdded
  <2>3. \A p \in 0..(size - 1) : p \in 0..(size' - 1)
    BY <1>1, <2>2
  <2> QED BY <2>1, <2>3 DEF Related
<1>4. CASE AddParent
  <2> DEFINE right == peaks[Len(peaks)]
             left == peaks[Len(peaks) - 1]
  <2>1. /\ Due(peaks) /\ peaks' = Append(SubSeq(peaks, 1, Len(peaks) - 2), Nodes(peaks))
        /\ family' = [p \in DOMAIN family \cup {left, right} |->
                        IF p = left THEN [sibling |-> right, parent |-> size]
                        ELSE IF p = right THEN [sibling |-> left, parent |-> size]
                        ELSE family[p]]
    BY <1>1, <1>4 DEF AddParent
  <2>2. size' = size + 1
    BY <1>1, <1>2, <2>1, ParentAdded
  <2>3. \A p \in 0..(size - 1) : p \in 0..(size' - 1)
    BY <1>1, <2>2
  <2>4. /\ left \in 0..(size - 1) /\ right \in 0..(size - 1)
        /\ Relatives(left, H(left)) = [sibling |-> right, parent |-> size]
        /\ Relatives(right, H(right)) = [sibling |-> left, parent |-> size]
    BY <1>1, <2>1, TwinsAreRelatives
  <2> HIDE DEF left, right
  <2> SUFFICES ASSUME NEW p \in DOMAIN family'
               PROVE  p \in 0..(size' - 1) /\ family'[p] = Relatives(p, H(p))
    BY DEF Related
  <2>5. CASE p = left
    BY <2>1, <2>3, <2>4, <2>5
  <2>6. CASE p # left /\ p = right
    BY <2>1, <2>3, <2>4, <2>6
  <2>7. CASE p # left /\ p # right
    <3>1. p \in DOMAIN family /\ family'[p] = family[p]
      BY <2>1, <2>7
    <3> QED BY <2>3, <3>1 DEF Related
  <2> QED BY <2>5, <2>6, <2>7
<1>5. CASE UNCHANGED vars
  BY <1>5 DEF vars, Related, size
<1> QED BY <1>3, <1>4, <1>5 DEF Next

\* What is written down as a family is where the offsets lead.
LEMMA FamiliesRelated == Spec => []Related
<1> QED BY RelatedInit, RelatedStep, RangeGrows, PTL DEF Spec

\* The test for a right child, and the offsets walked by then, lead from every node to
\* its sibling and its parent, in a range of any size.
THEOREM FamiliesGrown == Spec => []OffsetsLeadToFamily
<1>1. Grown /\ Related => OffsetsLeadToFamily
  <2> SUFFICES ASSUME Grown, Related, NEW p \in DOMAIN family
               PROVE  LET h == HeightOf(p)
                          isRight == pos_height_in_tree(p + 1) > h
                      IN  family[p] =
                            IF isRight
                            THEN [sibling |-> p - sibling_offset(h), parent |-> p + 1]
                            ELSE [sibling |-> p + sibling_offset(h),
                                  parent |-> p + parent_offset(h)]
    BY DEF OffsetsLeadToFamily
  <2>1. p \in 0..(size - 1) /\ family[p] = Relatives(p, H(p)) /\ size \in Nat
    BY GrownDue DEF Related
  <2>2. HeightOf(p) = H(p)
    BY <2>1 DEF Grown
  <2>3. pos_height_in_tree(p + 1) = H(p + 1)
    <3>1. p + 1 \in Nat
      BY <2>1
    <3> QED BY <3>1, HeightsSame DEF H
  <2> QED BY <2>1, <2>2, <2>3 DEF Relatives
<1> QED BY <1>1, RangeGrows, FamiliesRelated, PTL

-----------------------------------------------------------------------------
(* PeaksIter and get_peak_map go through what the scan takes off.           *)

ScanSettled == PeaksIter(size) = settled.peaks /\ get_peak_map(size) = settled.leaves

\* Nothing is yielded of the empty range.
LEMMA ScanInit == Init => ScanSettled
<1> SUFFICES ASSUME Init PROVE ScanSettled
  OBVIOUS
<1>1. Row(peaks) /\ size = Nodes(peaks) /\ peaks = <<>> /\ Len(peaks) = 0 /\ size = 0
      /\ settled.peaks = <<>> /\ settled.leaves = 0
  BY GrownInit DEF Init, Grown, size
<1>2. ~Due(peaks)
  BY <1>1 DEF Due
<1>3. PeaksIter(size) = peaks /\ 2 * get_peak_map(size) = 0
  BY <1>1, <1>2, RowScan
<1>4. get_peak_map(size) \in Nat
  BY <1>1, PeakMapBits
<1> QED BY <1>1, <1>3, <1>4 DEF ScanSettled

\* What a step leaves settled: all of the row, or what was settled before.
LEMMA ScanAfter ==
  ASSUME Row(peaks'), size \in Nat, size' = size + 1, size' = Nodes(peaks'),
         MergeIsDue' <=> Due(peaks'), leaves' \in Nat, 2 * leaves' = size' + Len(peaks'),
         ScanSettled, Settle
  PROVE  ScanSettled'
<1>1. CASE MergeIsDue'
  <2>1. settled' = settled
    BY <1>1 DEF Settle
  <2>2. H(size') > 0
    <3>1. Len(peaks') \in 1..Len(peaks') /\ Due(peaks')
      BY <1>1, RowTypes DEF Due
    <3>2. H(size') = H(peaks'[Len(peaks')]) + 1
      BY <3>1, HeightAfterRow
    <3>3. H(peaks'[Len(peaks')]) \in Nat
      BY <3>1, RowTypes
    <3> QED BY <3>2, <3>3
  <2>3. PeaksIter(size') = PeaksIter(size) /\ get_peak_map(size') = get_peak_map(size)
    BY <2>2, SameScan
  <2> QED BY <2>1, <2>3 DEF ScanSettled
<1>2. CASE ~MergeIsDue'
  <2>1. settled'.peaks = peaks' /\ settled'.leaves = leaves'
    BY <1>2 DEF Settle
  <2>2. PeaksIter(size') = peaks' /\ 2 * get_peak_map(size') = size' + Len(peaks')
    BY <1>2, RowScan
  <2>3. get_peak_map(size') \in Nat
    <3>1. size' \in Nat
      OBVIOUS
    <3> QED BY <3>1, PeakMapBits
  <2>4. get_peak_map(size') = leaves'
    <3> DEFINE m == get_peak_map(size')
               two == size' + Len(peaks')
    <3>1. m \in Nat /\ leaves' \in Nat /\ 2 * m = two /\ 2 * leaves' = two
      BY <2>2, <2>3
    <3> HIDE DEF m, two
    <3>2. m = leaves'
      BY <3>1
    <3> QED BY <3>2 DEF m
  <2> QED BY <2>1, <2>2, <2>4 DEF ScanSettled
<1> QED BY <1>1, <1>2

\* The scan of the new size gives what is settled after the step.
LEMMA ScanStep ==
  Grown /\ Grown' /\ Counted' /\ ScanSettled /\ [Next]_vars => ScanSettled'
<1> SUFFICES ASSUME Grown, Grown', Counted', ScanSettled, [Next]_vars PROVE ScanSettled'
  OBVIOUS
<1>1. Row(peaks) /\ size = Nodes(peaks) /\ (MergeIsDue <=> Due(peaks)) /\ size \in Nat
  BY GrownDue DEF Grown
<1>2. Row(peaks') /\ size' = Nodes(peaks') /\ (MergeIsDue' <=> Due(peaks'))
  BY GrownDue DEF Grown
<1>3. leaves' \in Nat /\ 2 * leaves' = size' + Len(peaks')
  BY DEF Counted
<1>4. CASE AddLeaf
  <2>1. ~Due(peaks) /\ peaks' = Append(peaks, Nodes(peaks)) /\ Settle
    BY <1>1, <1>4 DEF AddLeaf
  <2>2. size' = size + 1
    BY <1>1, <1>2, <2>1, LeafAdded
  <2> QED BY <1>1, <1>2, <1>3, <2>1, <2>2, ScanAfter
<1>5. CASE AddParent
  <2>1. Due(peaks) /\ peaks' = Append(SubSeq(peaks, 1, Len(peaks) - 2), Nodes(peaks))
        /\ Settle
    BY <1>1, <1>5 DEF AddParent
  <2>2. size' = size + 1
    BY <1>1, <1>2, <2>1, ParentAdded
  <2> QED BY <1>1, <1>2, <1>3, <2>1, <2>2, ScanAfter
<1>6. CASE UNCHANGED vars
  BY <1>6 DEF vars, ScanSettled, size
<1> QED BY <1>4, <1>5, <1>6 DEF Next

\* PeaksIter yields the roots of the last finished range, and get_peak_map counts its
\* leaves, at every size that is reached, those in the middle of a push included.
THEOREM PeaksGrown == Spec => []PeaksAgree
<1>1. ScanSettled => PeaksAgree
  BY DEF ScanSettled, PeaksAgree
<1> QED BY <1>1, ScanInit, ScanStep, RangeGrows, LeavesCounted, PTL DEF Spec

-----------------------------------------------------------------------------
(* The path of a node goes from sibling to sibling up to its peak.         *)

\* The sibling and the parent of a node are inside the range, the parent after it.
Inside(fam, n, p) ==
  /\ fam[p].sibling \in 0..(n - 1) /\ fam[p].parent \in 0..(n - 1)
  /\ p < fam[p].parent /\ H(fam[p].parent) = H(p) + 1

Kin ==
  /\ \A p \in DOMAIN family : Inside(family, size, p)
  /\ \A p \in 0..(size - 1) : p \in DOMAIN family \/ IsPeak(peaks, p)

\* There are no nodes yet.
LEMMA KinInit == Init => Kin
<1> SUFFICES ASSUME Init PROVE Kin
  OBVIOUS
<1>1. size = 0 /\ DOMAIN family = {}
  BY DEF Init, size
<1> QED BY <1>1 DEF Kin

\* Each node that stops being a peak gets a sibling and a parent inside the range.
LEMMA KinStep == Grown /\ Grown' /\ Kin /\ [Next]_vars => Kin'
<1> SUFFICES ASSUME Grown, Grown', Kin, [Next]_vars PROVE Kin'
  OBVIOUS
<1>1. Row(peaks) /\ size = Nodes(peaks) /\ (MergeIsDue <=> Due(peaks)) /\ size \in Nat
      /\ Len(peaks) \in Nat
  BY GrownDue DEF Grown
<1>2. size' = Nodes(peaks')
  BY DEF Grown
<1>3. CASE AddLeaf
  <2>1. ~Due(peaks) /\ peaks' = Append(peaks, Nodes(peaks)) /\ family' = family
    BY <1>1, <1>3 DEF AddLeaf
  <2>2. size' = size + 1 /\ Len(peaks') = Len(peaks) + 1
    BY <1>1, <1>2, <2>1, LeafAdded
  <2>3. /\ \A k \in 1..Len(peaks) : peaks'[k] = peaks[k]
        /\ peaks'[Len(peaks) + 1] = size
    <3>1. peaks \in Seq(Nat) /\ Nodes(peaks) \in Nat
      BY <1>1 DEF Row
    <3> QED BY <1>1, <2>1, <3>1, AppendProperties
  <2>4. \A q \in 0..(size - 1) : q \in 0..(size' - 1)
    BY <1>1, <2>2
  <2>5. \A p \in DOMAIN family' : Inside(family', size', p)
    BY <2>1, <2>4 DEF Kin, Inside
  <2>6. ASSUME NEW p \in 0..(size' - 1) PROVE p \in DOMAIN family' \/ IsPeak(peaks', p)
    <3>1. CASE p = size
      <4>1. Len(peaks) + 1 \in 1..Len(peaks')
        BY <1>1, <2>2
      <4> QED BY <2>3, <3>1, <4>1 DEF IsPeak
    <3>2. CASE p # size
      <4>1. p \in 0..(size - 1)
        BY <1>1, <2>2, <3>2
      <4>2. ASSUME NEW k \in 1..Len(peaks), peaks[k] = p
            PROVE  k \in 1..Len(peaks') /\ peaks'[k] = p
        BY <1>1, <2>2, <2>3, <4>2
      <4> QED BY <2>1, <4>1, <4>2 DEF Kin, IsPeak
    <3> QED BY <3>1, <3>2
  <2> QED BY <2>5, <2>6 DEF Kin
<1>4. CASE AddParent
  <2> DEFINE n == Len(peaks)
             right == peaks[n]
             left == peaks[n - 1]
  <2>1. /\ Due(peaks) /\ peaks' = Append(SubSeq(peaks, 1, Len(peaks) - 2), Nodes(peaks))
        /\ family' = [p \in DOMAIN family \cup {left, right} |->
                        IF p = left THEN [sibling |-> right, parent |-> size]
                        ELSE IF p = right THEN [sibling |-> left, parent |-> size]
                        ELSE family[p]]
    BY <1>1, <1>4 DEF AddParent
  <2>2. /\ size' = size + 1 /\ Len(peaks') = n - 1
        /\ \A k \in 1..(n - 2) : peaks'[k] = peaks[k]
        /\ peaks'[n - 1] = size
    BY <1>1, <1>2, <2>1, ParentAdded
  <2>3. n > 1 /\ n \in Nat /\ n \in 1..n /\ n - 1 \in 1..n /\ n - 1 \in 1..(n - 1)
        /\ H(left) = H(right)
    BY <1>1, <2>1 DEF Due
  <2>4. left \in 0..(size - 1) /\ right \in 0..(size - 1) /\ H(size) = H(right) + 1
    BY <1>1, <2>1, <2>3, PeaksInside, HeightAfterRow
  <2>5. size \in 0..(size' - 1) /\ \A q \in 0..(size - 1) : q \in 0..(size' - 1) /\ q < size
    BY <1>1, <2>2
  <2> HIDE DEF left, right
  <2>6. ASSUME NEW p \in DOMAIN family' PROVE Inside(family', size', p)
    <3>1. CASE p = left
      <4>1. family'[p] = [sibling |-> right, parent |-> size]
        BY <2>1, <3>1
      <4>2. family'[p].sibling = right /\ family'[p].parent = size
        BY <4>1
      <4> QED BY <2>3, <2>4, <2>5, <3>1, <4>2 DEF Inside
    <3>2. CASE p # left /\ p = right
      <4>1. family'[p] = [sibling |-> left, parent |-> size]
        BY <2>1, <3>2
      <4>2. family'[p].sibling = left /\ family'[p].parent = size
        BY <4>1
      <4> QED BY <2>4, <2>5, <3>2, <4>2 DEF Inside
    <3>3. CASE p # left /\ p # right
      <4>1. p \in DOMAIN family /\ family'[p] = family[p]
        BY <2>1, <3>3
      <4>2. Inside(family, size, p)
        BY <4>1 DEF Kin
      <4> QED BY <2>5, <4>1, <4>2 DEF Inside
    <3> QED BY <3>1, <3>2, <3>3
  <2>7. ASSUME NEW p \in 0..(size' - 1) PROVE p \in DOMAIN family' \/ IsPeak(peaks', p)
    <3>1. CASE p \in DOMAIN family \cup {left, right}
      BY <2>1, <3>1
    <3>2. CASE p = size
      BY <2>2, <2>3, <3>2 DEF IsPeak
    <3>3. CASE p \notin DOMAIN family \cup {left, right} /\ p # size
      <4>1. p \in 0..(size - 1) /\ p \notin DOMAIN family
        BY <1>1, <2>2, <3>3
      <4>2. PICK k \in 1..n : peaks[k] = p
        BY <4>1 DEF Kin, IsPeak
      <4>3. k # n /\ k # n - 1
        BY <3>3, <4>2 DEF left, right
      <4>4. k \in 1..(n - 2) /\ k \in 1..(n - 1)
        BY <2>3, <4>3
      <4> QED BY <2>2, <4>2, <4>4 DEF IsPeak
    <3> QED BY <3>1, <3>2, <3>3
  <2> QED BY <2>6, <2>7 DEF Kin
<1>5. CASE UNCHANGED vars
  BY <1>5 DEF vars, Kin, size
<1> QED BY <1>3, <1>4, <1>5 DEF Next

\* Every node is a peak or has a sibling and a parent inside the range.
LEMMA KinKept == Spec => []Kin
<1> QED BY KinInit, KinStep, RangeGrows, PTL DEF Spec

\* The path that the family relation describes is one: parents come later.
FamilyPaths ==
  LET path[p \in 0..(size - 1)] ==
        IF p \notin DOMAIN family THEN <<>>
        ELSE <<family[p].sibling>> \o path[family[p].parent]
  IN  path

\* The equations of the path hold: there is such a function.
LEMMA FamilyPathsDefined ==
  ASSUME size \in Nat, Kin
  PROVE  \A p \in 0..(size - 1) :
           FamilyPaths[p] = IF p \notin DOMAIN family THEN <<>>
                            ELSE <<family[p].sibling>> \o FamilyPaths[family[p].parent]
<1> DEFINE D == 0..(size - 1)
           stop == D \ DOMAIN family
           next == [p \in D |-> IF p \in DOMAIN family THEN family[p].parent ELSE p]
           part == [p \in D |-> IF p \in DOMAIN family THEN <<family[p].sibling>> ELSE <<>>]
           rank == [p \in D |-> size - 1 - p]
<1>1. \A p \in D : p \in DOMAIN family =>
        family[p].sibling \in D /\ family[p].parent \in D /\ p < family[p].parent
  BY DEF Kin, Inside
<1>2. IsCollection(D, D, stop, next, part, rank)
  <2>1. next \in [D -> D] /\ part \in [D -> Seq(D)]
    <3> HIDE DEF D
    <3>1. next \in [D -> D]
      BY <1>1
    <3>2. \A p \in D : (IF p \in DOMAIN family THEN <<family[p].sibling>> ELSE <<>>) \in Seq(D)
      BY <1>1
    <3>3. part \in [D -> Seq(D)]
      BY <3>2
    <3> QED BY <3>1, <3>3
  <2>2. rank \in [D -> Nat]
    OBVIOUS
  <2>3. \A p \in D \ stop : rank[next[p]] < rank[p]
    <3> SUFFICES ASSUME NEW p \in D, p \in DOMAIN family PROVE rank[next[p]] < rank[p]
      OBVIOUS
    <3> DEFINE up == family[p].parent
    <3>1. up \in D /\ p < up /\ next[p] = up
      BY <1>1
    <3> HIDE DEF up, next
    <3> QED BY <3>1
  <2> HIDE DEF D, stop, next, part, rank
  <2> QED BY <2>1, <2>2, <2>3 DEF IsCollection
<1> DEFINE path[p \in D] ==
             IF p \notin DOMAIN family THEN <<>>
             ELSE <<family[p].sibling>> \o path[family[p].parent]
<1>3. path = [p \in D |-> IF p \notin DOMAIN family THEN <<>>
                          ELSE <<family[p].sibling>> \o path[family[p].parent]]
  <2>1. PICK f \in [D -> Seq(D)] : Collects(f, D, stop, next, part)
    <3> HIDE DEF D, stop, next, part, rank
    <3> QED BY <1>2, CollectionExists
  <2>2. \A p \in D : f[p] = IF p \notin DOMAIN family THEN <<>>
                            ELSE <<family[p].sibling>> \o f[family[p].parent]
    <3> TAKE p \in D
    <3>1. f[p] = IF p \in stop THEN <<>> ELSE part[p] \o f[next[p]]
      <4> HIDE DEF D, stop, next, part
      <4> QED BY <2>1 DEF Collects
    <3>2. CASE p \in DOMAIN family
      <4>1. p \notin stop /\ part[p] = <<family[p].sibling>> /\ next[p] = family[p].parent
        BY <3>2
      <4> HIDE DEF D, stop, next, part
      <4> QED BY <3>1, <3>2, <4>1
    <3>3. CASE p \notin DOMAIN family
      BY <3>1, <3>3
    <3> QED BY <3>2, <3>3
  <2>3. f = [p \in D |-> IF p \notin DOMAIN family THEN <<>>
                         ELSE <<family[p].sibling>> \o f[family[p].parent]]
    <3> HIDE DEF D
    <3> QED BY <2>1, <2>2
  <2> HIDE DEF D
  <2> QED BY <2>3
<1>4. FamilyPaths = path
  BY DEF FamilyPaths
<1> HIDE DEF path, D
<1>5. \A p \in D : path[p] = IF p \notin DOMAIN family THEN <<>>
                             ELSE <<family[p].sibling>> \o path[family[p].parent]
  BY <1>3
<1> QED BY <1>4, <1>5 DEF D

\* inclusion_proof_path lists the siblings of every node up to its peak, in every
\* finished range, and ends there.
THEOREM PathsGrown == Spec => []PathsAgree
<1>1. ASSUME Grown, Related, Kin, ~MergeIsDue, NEW p0 \in 0..(size - 1)
      PROVE  inclusion_proof_path(p0, size - 1) = FamilyPaths[p0]
  <2> DEFINE c == size - 1
             At(p) == [i |-> p, g |-> H(p)]
             Same(p) == Paths(c)[At(p)] = FamilyPaths[p]
             S == {d \in Nat : \A p \in 0..c : p + d > c => Same(p)}
  <2>1. Row(peaks) /\ size = Nodes(peaks) /\ ~Due(peaks) /\ size \in Nat /\ c \in Nat
        /\ p0 \in Nat
    BY <1>1, GrownDue DEF Grown
  <2>2. /\ inclusion_proof_path(p0, c) = Paths(c)[At(p0)]
        /\ \A at \in [i : Nat, g : Nat] :
             Paths(c)[at] =
               IF isibling(at.i, at.g) > c THEN <<>>
               ELSE <<isibling(at.i, at.g)>>
                      \o Paths(c)[[i |-> iparent(at.i, at.g), g |-> at.g + 1]]
    <3> HIDE DEF c
    <3> QED BY <2>1, PathsDefined DEF H
  <2>3. \A p \in 0..c : p \in Nat /\ H(p) \in Nat /\ At(p) \in [i : Nat, g : Nat]
    <3>1. \A p \in Nat : H(p) \in Nat
      BY NodeHeight DEF H
    <3> QED BY <2>1, <3>1
  <2>4. \A p \in 0..c :
          Paths(c)[At(p)] =
            IF isibling(p, H(p)) > c THEN <<>>
            ELSE <<isibling(p, H(p))>>
                   \o Paths(c)[[i |-> iparent(p, H(p)), g |-> H(p) + 1]]
    <3> TAKE p \in 0..c
    <3>1. At(p) \in [i : Nat, g : Nat] /\ At(p).i = p /\ At(p).g = H(p)
      BY <2>3
    <3> HIDE DEF At, c
    <3> QED BY <2>2, <3>1
  <2>5. \A p \in 0..c : p \in DOMAIN family \/ isibling(p, H(p)) > c
    <3> TAKE p \in 0..c
    <3>1. ASSUME NEW k \in 1..Len(peaks), peaks[k] = p PROVE isibling(p, H(p)) > c
      BY <2>1, <3>1, PeaksHaveNoSibling
    <3> QED BY <1>1, <3>1 DEF Kin, IsPeak
  <2>6. ASSUME NEW p \in DOMAIN family
        PROVE  /\ family[p].sibling = isibling(p, H(p))
               /\ family[p].parent = iparent(p, H(p))
    <3> DEFINE h == H(p)
               pow == Pow2[h]
    <3>1. p \in Nat /\ h \in Nat /\ family[p] = Relatives(p, h) /\ p \in 0..c
      BY <1>1, <2>3 DEF Related
    <3>2. pow \in Nat
      BY <3>1, Pow2Doubles
    <3>3. sibling_offset(h) = 2 * pow - 1 /\ parent_offset(h) = 2 * pow
      BY DEF sibling_offset, parent_offset
    <3>4. /\ isibling(p, h) = IF H(p + 1) > h THEN p - 2 * pow + 1 ELSE p + 2 * pow - 1
          /\ iparent(p, h) = IF H(p + 1) > h THEN p + 1 ELSE p + 2 * pow
      BY DEF isibling, iparent, is_right, H
    <3> HIDE DEF pow, h
    <3>5. CASE H(p + 1) > h
      <4>1. family[p].sibling = p - (2 * pow - 1) /\ family[p].parent = p + 1
        BY <3>1, <3>3, <3>5 DEF Relatives
      <4>2. p - (2 * pow - 1) = p - 2 * pow + 1
        BY <3>1, <3>2
      <4> QED BY <3>4, <3>5, <4>1, <4>2 DEF h
    <3>6. CASE ~(H(p + 1) > h)
      <4>1. family[p].sibling = p + (2 * pow - 1) /\ family[p].parent = p + 2 * pow
        BY <3>1, <3>3, <3>6 DEF Relatives
      <4>2. p + (2 * pow - 1) = p + 2 * pow - 1
        BY <3>1, <3>2
      <4> QED BY <3>4, <3>6, <4>1, <4>2 DEF h
    <3> QED BY <3>5, <3>6
  <2>7. \A p \in DOMAIN family :
          /\ ~(isibling(p, H(p)) > c) /\ iparent(p, H(p)) \in 0..c
          /\ p < iparent(p, H(p)) /\ H(iparent(p, H(p))) = H(p) + 1
    <3> TAKE p \in DOMAIN family
    <3>1. Inside(family, size, p)
      BY <1>1 DEF Kin
    <3>2. family[p].sibling \in 0..c => ~(family[p].sibling > c)
      BY <2>1
    <3> QED BY <2>6, <3>1, <3>2 DEF Inside
  <2>8. \A p \in 0..c :
          FamilyPaths[p] = IF p \notin DOMAIN family THEN <<>>
                           ELSE <<isibling(p, H(p))>> \o FamilyPaths[iparent(p, H(p))]
    <3>1. \A p \in 0..c :
            FamilyPaths[p] = IF p \notin DOMAIN family THEN <<>>
                             ELSE <<family[p].sibling>> \o FamilyPaths[family[p].parent]
      BY <1>1, <2>1, FamilyPathsDefined
    <3> QED BY <2>6, <3>1
  <2>9. ASSUME NEW p \in 0..c, p \notin DOMAIN family PROVE Same(p)
    BY <2>4, <2>5, <2>8, <2>9
  <2>10. ASSUME NEW p \in 0..c, p \in DOMAIN family, Same(iparent(p, H(p))) PROVE Same(p)
    <3> DEFINE up == iparent(p, H(p))
    <3>1. At(up) = [i |-> up, g |-> H(p) + 1]
      BY <2>7, <2>10
    <3>2. Paths(c)[At(p)] = <<isibling(p, H(p))>> \o Paths(c)[At(up)]
      <4>1. ~(isibling(p, H(p)) > c)
        BY <2>7, <2>10
      <4> HIDE DEF At, c
      <4> QED BY <2>4, <3>1, <4>1
    <3>3. FamilyPaths[p] = <<isibling(p, H(p))>> \o FamilyPaths[up]
      BY <2>8, <2>10
    <3>4. Paths(c)[At(up)] = FamilyPaths[up]
      BY <2>10
    <3> HIDE DEF At, c, up
    <3> QED BY <3>2, <3>3, <3>4
  <2> HIDE DEF Same
  <2>11. 0 \in S
    BY <2>1
  <2>12. ASSUME NEW d \in Nat, d \in S PROVE d + 1 \in S
    <3> SUFFICES ASSUME NEW p \in 0..c, p + (d + 1) > c PROVE Same(p)
      OBVIOUS
    <3>1. CASE p \in DOMAIN family
      <4> DEFINE up == iparent(p, H(p))
      <4>1. up \in 0..c /\ p < up
        BY <2>7, <3>1
      <4> HIDE DEF up
      <4>2. up + d > c
        BY <2>1, <4>1
      <4>3. Same(up)
        BY <2>12, <4>1, <4>2
      <4> QED BY <2>10, <3>1, <4>3 DEF up
    <3>2. CASE p \notin DOMAIN family
      BY <2>9, <3>2
    <3> QED BY <3>1, <3>2
  <2>13. Nat \subseteq S
    <3> HIDE DEF S
    <3> QED BY <2>11, <2>12, SetInduction
  <2>14. Same(p0)
    <3>1. p0 \in 0..c /\ p0 + size > c
      <4> DEFINE s == size
      <4>1. s \in Nat /\ p0 \in Nat /\ p0 \in 0..(s - 1)
        BY <2>1
      <4> HIDE DEF s
      <4>2. p0 + s > s - 1
        BY <4>1
      <4> QED BY <4>1, <4>2 DEF s
    <3>2. size \in S
      <4> HIDE DEF S
      <4> QED BY <2>1, <2>13
    <3> HIDE DEF c
    <3> QED BY <3>1, <3>2
  <2> QED BY <2>2, <2>14 DEF Same
<1>2. Grown /\ Related /\ Kin => PathsAgree
  BY <1>1 DEF PathsAgree, FamilyPaths
<1> QED BY <1>2, RangeGrows, FamiliesRelated, KinKept, PTL

=============================================================================
