----------------------------- MODULE Mountains ------------------------------
(***************************************************************************)
(* A reference for the position arithmetic of module Positions: the        *)
(* mountain range grown one node at a time, with every height, parent and  *)
(* sibling written down as the node appears.  No arithmetic on positions   *)
(* is used to grow it, so the closed formulas of src/helper.rs are checked *)
(* against something that does not share their reasoning.                  *)
(*                                                                         *)
(* A node is appended for every step, so the sizes run through all natural *)
(* numbers up to MaxPositions: those of a finished MMR ("settled") and     *)
(* those in the middle of a push, which get_peak_map and PeaksIter promise *)
(* to treat like the last finished one.                                    *)
(***************************************************************************)
EXTENDS Positions

CONSTANT MaxPositions   \* bound: the range is grown up to this many nodes

VARIABLES
  heights,  \* heights[p + 1] is the height of the node at position p
  peaks,    \* the positions of the roots not merged yet, left to right
  leaves,   \* how many leaves there are
  lastLeaf, \* the position of the last leaf
  family,   \* position -> its sibling and parent, for nodes with a parent
  settled   \* size, leaves and peaks when no merge was left to do

vars == <<heights, peaks, leaves, lastLeaf, family, settled>>

size == Len(heights)

HeightOf(p) == heights[p + 1]

\* The two rightmost roots are equally high: a parent has to follow.
MergeIsDue ==
  /\ Len(peaks) > 1
  /\ HeightOf(peaks[Len(peaks)]) = HeightOf(peaks[Len(peaks) - 1])

Init ==
  /\ heights = <<>>
  /\ peaks = <<>>
  /\ leaves = 0
  /\ lastLeaf = -1
  /\ family = [p \in {} |-> p]
  /\ settled = [size |-> 0, leaves |-> 0, peaks |-> <<>>]

Settle ==
  settled' = IF MergeIsDue' THEN settled
             ELSE [size |-> size', leaves |-> leaves', peaks |-> peaks']

AddLeaf ==
  /\ ~MergeIsDue
  /\ size < MaxPositions
  /\ heights' = Append(heights, 0)
  /\ peaks' = Append(peaks, size)
  /\ leaves' = leaves + 1
  /\ lastLeaf' = size
  /\ UNCHANGED family
  /\ Settle

AddParent ==
  LET right == peaks[Len(peaks)]
      left == peaks[Len(peaks) - 1]
  IN  /\ MergeIsDue
      /\ size < MaxPositions
      /\ heights' = Append(heights, HeightOf(right) + 1)
      /\ peaks' = Append(SubSeq(peaks, 1, Len(peaks) - 2), size)
      /\ family' = [p \in DOMAIN family \cup {left, right} |->
                      IF p = left THEN [sibling |-> right, parent |-> size]
                      ELSE IF p = right THEN [sibling |-> left, parent |-> size]
                      ELSE family[p]]
      /\ UNCHANGED <<leaves, lastLeaf>>
      /\ Settle

Next == AddLeaf \/ AddParent

Spec == Init /\ [][Next]_vars

-----------------------------------------------------------------------------

\* pos_height_in_tree and index_height_mmriver both give the height of every
\* node (checked for the newest node, hence for each of them in turn).
HeightsAgree ==
  size > 0 =>
    /\ pos_height_in_tree(size - 1) = HeightOf(size - 1)
    /\ index_height_mmriver(size - 1) = HeightOf(size - 1)

\* PeaksIter and get_peak_map describe the range, and for a size in the middle
\* of a push the last finished range (helper.rs, "Invalid MMR Sizes").
PeaksAgree ==
  /\ PeaksIter(size) = settled.peaks
  /\ get_peak_map(size) = settled.leaves

\* PeaksMMRIVERIter yields the roots of the first size nodes, whether or not
\* the last push is complete.
MMRIVERPeaksAgree ==
  size > 0 => PeaksMMRIVERIter(size - 1) = peaks

\* A leaf index is converted to the position push gives that leaf, and to the
\* size push leaves behind.
LeafIndicesAgree ==
  leaves > 0 =>
    /\ leaf_index_to_pos(leaves - 1) = lastLeaf
    /\ settled.leaves > 0 =>
         leaf_index_to_mmr_size(settled.leaves - 1) = settled.size

\* The test "next_height > height" with which proof generation, proof
\* verification and included_root tell a right child from a left one, and the
\* offsets they then walk by, lead to the sibling and the parent of every node.
OffsetsLeadToFamily ==
  \A p \in DOMAIN family :
    LET h == HeightOf(p)
        isRight == pos_height_in_tree(p + 1) > h
    IN  family[p] =
          IF isRight THEN [sibling |-> p - sibling_offset(h), parent |-> p + 1]
          ELSE [sibling |-> p + sibling_offset(h),
                parent |-> p + parent_offset(h)]

\* inclusion_proof_path lists the siblings on the way from any node, leaf or
\* not, up to its peak, and stops exactly there.
PathsAgree ==
  LET path[p \in 0..(size - 1)] ==
        IF p \notin DOMAIN family THEN <<>>
        ELSE <<family[p].sibling>> \o path[family[p].parent]
  IN  ~MergeIsDue =>
        \A p \in 0..(size - 1) : inclusion_proof_path(p, size - 1) = path[p]

\* PeaksIter and PeaksMMRIVERIter are ExactSizeIterators (helper.rs): len() is the
\* number of peaks that next() goes on to yield.  At least, one of the two is
\* right about it at every size.
OneLenIsExact ==
  size > 0 =>
    \/ PeaksIterLen(size) = Len(PeaksIter(size))
    \/ PeaksMMRIVERIterLen(size - 1) = Len(PeaksMMRIVERIter(size - 1))

=============================================================================
