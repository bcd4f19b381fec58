----------------------------- MODULE Positions ------------------------------
(***************************************************************************)
(* The position arithmetic of src/helper.rs.  Positions, sizes and bitmaps *)
(* are natural numbers; the models stay far below 2^64, so no operation    *)
(* wraps.                                                                  *)
(***************************************************************************)
EXTENDS Integers, Sequences, FiniteSets, FiniteSetsExt

-----------------------------------------------------------------------------
(* The u64 primitives the helpers are written with.                        *)

\* 1 << k
Pow2[k \in Nat] == IF k = 0 THEN 1 ELSE 2 * Pow2[k - 1]

\* 64 - n.leading_zeros()
BitLength(n) ==
  LET bits[m \in 0..n] == IF m = 0 THEN 0 ELSE bits[m \div 2] + 1
  IN  bits[n]

\* (n & bit) != 0, for bit a power of two.
HasBit(n, bit) == (n \div bit) % 2 = 1

count_ones(n) == Cardinality({k \in 0..BitLength(n) : HasBit(n, Pow2[k])})

\* Only called with n > 0.
trailing_zeros(n) == CHOOSE k \in 0..n : n % Pow2[k] = 0 /\ HasBit(n, Pow2[k])

-----------------------------------------------------------------------------
(* Leaf indices.                                                           *)

\* Mutant: the index is not turned into a count.
leaf_index_to_mmr_size_ofIndex(index) == 2 * index - count_ones(index)

leaf_index_to_mmr_size(index) == 2 * (index + 1) - count_ones(index + 1)

leaf_index_to_pos(index) ==
  leaf_index_to_mmr_size(index) - trailing_zeros(index + 1) - 1

-----------------------------------------------------------------------------
(* The scan shared by pos_height_in_tree, get_peak_map and PeaksIter.      *)
(* peak_size runs through 2^k - 1, ..., 3, 1 and every mountain that still *)
(* fits is taken off.  Unscanned(n)[k] is what is left of n when mountains *)
(* of 2^k - 1 nodes and smaller ones are still to be tried.                *)

Unscanned(n) ==
  LET K == BitLength(n)
      rest[k \in 0..K] ==
        IF k = K THEN n
        ELSE LET before == rest[k + 1]
                 peak_size == Pow2[k + 1] - 1
             IN  IF before >= peak_size THEN before - peak_size ELSE before
  IN  rest

\* The heights of the mountains the scan of n takes off.
PeakHeights(n) ==
  LET rest == Unscanned(n)
  IN  {h \in 0..(BitLength(n) - 1) : rest[h] # rest[h + 1]}

\* Mutant: positions are counted from one.
pos_height_in_tree_fromOne(pos) == Unscanned(pos + 1)[0]

\* The remainder of the scan is the height of the node.
pos_height_in_tree(pos) == Unscanned(pos)[0]

\* Mutant: the size is taken for that of one perfect tree.
get_peak_map_onePeak(mmr_size) == (mmr_size + 1) \div 2

\* A bit is shifted in for every mountain that is tried.
get_peak_map(mmr_size) ==
  LET K == BitLength(mmr_size)
      heights == PeakHeights(mmr_size)
      peak_map[k \in 0..K] ==
        IF k = K THEN 0
        ELSE 2 * peak_map[k + 1] + (IF k \in heights THEN 1 ELSE 0)
  IN  peak_map[0]

\* Everything PeaksIter::new(mmr_size) yields: the last position of each
\* mountain taken off, highest mountain first.
PeaksIter(mmr_size) ==
  LET heights == PeakHeights(mmr_size)
      rest == Unscanned(mmr_size)
      yielded[k \in 0..BitLength(mmr_size)] ==
        IF k = 0 THEN <<>>
        ELSE (IF k - 1 \in heights THEN <<mmr_size - rest[k - 1] - 1>> ELSE <<>>)
               \o yielded[k - 1]
  IN  yielded[BitLength(mmr_size)]

\* PeaksIter::new(mmr_size).len(), that is size_hint before the first next().
PeaksIterLen(mmr_size) ==
  LET peak_size == Pow2[BitLength(mmr_size)] - 1
  IN  IF mmr_size = 0 THEN 0 ELSE count_ones(mmr_size \div peak_size + 1)

parent_offset(height) == 2 * Pow2[height]

\* Mutant: the shift is one short.
sibling_offset_short(height) == Pow2[height]

sibling_offset(height) == 2 * Pow2[height] - 1

-----------------------------------------------------------------------------
(* The MMRIVER flavour of the same arithmetic.                             *)

all_ones(pos) == pos # 0 /\ pos = Pow2[BitLength(pos)] - 1

most_sig_bit(pos) == IF pos = 0 THEN 0 ELSE Pow2[BitLength(pos) - 1]

index_height_mmriver(i) ==
  LET height[pos \in 1..(i + 1)] ==
        IF all_ones(pos) THEN BitLength(pos) - 1
        ELSE height[pos - (most_sig_bit(pos) - 1)]
  IN  height[i + 1]

\* Mutant: sizes are yielded for positions.
PeaksMMRIVERIter_sizes(i) ==
  LET yielded[remaining \in 0..(i + 1)] ==
        IF remaining = 0 THEN <<>>
        ELSE LET highest_size == Pow2[BitLength(remaining + 1) - 1] - 1
                 peak == (i + 1 - remaining) + highest_size
             IN  <<peak>> \o yielded[remaining - highest_size]
  IN  yielded[i + 1]

\* Everything PeaksMMRIVERIter::new(i) yields.
PeaksMMRIVERIter(i) ==
  LET yielded[remaining \in 0..(i + 1)] ==
        IF remaining = 0 THEN <<>>
        ELSE LET highest_size == Pow2[BitLength(remaining + 1) - 1] - 1
                 peak == (i + 1 - remaining) + highest_size
             IN  <<peak - 1>> \o yielded[remaining - highest_size]
  IN  yielded[i + 1]

\* PeaksMMRIVERIter::new(i).len()
PeaksMMRIVERIterLen(i) == count_ones(i + 1)

\* What comes next after a node of height g is its parent, if it is a right child.
is_right(i, g) == index_height_mmriver(i + 1) > g

isibling(i, g) ==
  IF is_right(i, g) THEN i - 2 * Pow2[g] + 1 ELSE i + 2 * Pow2[g] - 1

iparent(i, g) == IF is_right(i, g) THEN i + 1 ELSE i + 2 * Pow2[g]

\* Mutant: c is taken for the size, one more than the last position.
inclusion_proof_path_ofSize(i, c) ==
  LET path[at \in [i : Nat, g : Nat]] ==
        IF isibling(at.i, at.g) > c + 1 THEN <<>>
        ELSE <<isibling(at.i, at.g)>>
               \o path[[i |-> iparent(at.i, at.g), g |-> at.g + 1]]
  IN  path[[i |-> i, g |-> index_height_mmriver(i)]]

inclusion_proof_path(i, c) ==
  LET path[at \in [i : Nat, g : Nat]] ==
        IF isibling(at.i, at.g) > c THEN <<>>
        ELSE <<isibling(at.i, at.g)>>
               \o path[[i |-> iparent(at.i, at.g), g |-> at.g + 1]]
  IN  path[[i |-> i, g |-> index_height_mmriver(i)]]

\* The positions gen_consistency_proof needs: a path for each older peak.
consistency_paths(mmr_size_from, mmr_size) ==
  LET peaks == PeaksMMRIVERIter(mmr_size_from - 1)
  IN  [k \in DOMAIN peaks |-> inclusion_proof_path(peaks[k], mmr_size - 1)]

=============================================================================
