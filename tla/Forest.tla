------------------------------- MODULE Forest -------------------------------
(***************************************************************************)
(* The mountains over a list of leaves, their nodes in order and their     *)
(* bagged root: the reference for what pushes build and get_root returns.  *)
(* It pairs nodes level by level and knows no positions.                   *)
(***************************************************************************)
EXTENDS MergeTerms, Positions

\* The nodes of each height: two neighbours of one level are merged in the next,
\* and one that is left over is the peak of its mountain.
Levels(leaves) ==
  LET level[h \in Nat] ==
        IF h = 0 THEN leaves
        ELSE LET below == level[h - 1]
             IN  [k \in 1..(Len(below) \div 2) |-> merge(below[2 * k - 1], below[2 * k])]
  IN  level

\* The nth leaf and the nodes it is the last leaf of.
Column(leaves, n) ==
  [k \in 1..(trailing_zeros(n) + 1) |-> Levels(leaves)[k - 1][n \div Pow2[k - 1]]]

\* All nodes, each after its children.
Layout(leaves) ==
  LET nodes[n \in 0..Len(leaves)] ==
        IF n = 0 THEN <<>> ELSE nodes[n - 1] \o Column(leaves, n)
  IN  nodes[Len(leaves)]

\* The root of the mountains lower than each height: every peak is merged with
\* what is bagged of the lower ones.
Bags(leaves) ==
  LET bag[h \in Nat] ==
        IF h = 0 THEN None
        ELSE LET level == Levels(leaves)[h - 1]
                 lower == bag[h - 1]
             IN  IF Len(level) % 2 = 0 THEN lower
                 ELSE IF lower = None THEN level[Len(level)]
                 ELSE merge_peaks(lower, level[Len(level)])
  IN  bag

\* The root of all of them, None if there are no leaves.
Bagged(leaves) == Bags(leaves)[Len(leaves)]

\* The leaves among some nodes.  Only a leaf is a term of length one.
LeavesOf(items) ==
  LET leaves[n \in 0..Len(items)] ==
        IF n = 0 THEN <<>>
        ELSE IF Len(items[n]) = 1 THEN Append(leaves[n - 1], items[n])
        ELSE leaves[n - 1]
  IN  leaves[Len(items)]

=============================================================================
