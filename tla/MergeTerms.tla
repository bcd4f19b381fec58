----------------------------- MODULE MergeTerms -----------------------------
(***************************************************************************)
(* The hashing strategy of src/merge.rs, as a free term algebra.           *)
(*                                                                         *)
(* The library never looks inside a hash: it stores, compares and merges   *)
(* values of M::Item.  An item is therefore the prefix (Polish) notation   *)
(* of the tree it commits to: a leaf is its datum, an inner node is the    *)
(* position passed to merge_pos followed by the left and the right child.  *)
(* Two items are equal exactly if they commit to the same data in the same *)
(* shape, which is what DigestMerge provides up to hash collisions: the    *)
(* domain prefixes 0x00 and 0x01 are the disjointness of Data and Nat.     *)
(***************************************************************************)
EXTENDS Naturals, Sequences

CONSTANTS
  Data,   \* what an application pushes
  None    \* the None of Option<Elem>: no element at that position

ASSUME DataAssumption == Data \cap Nat = {}

Item == Seq(Data \cup Nat)

ASSUME NoneAssumption == None \notin Item

leaf_hash(d) == <<d>>

\* Mutant: the left child is hashed twice.
merge_pos_leftTwice(pos, left, right) == <<pos>> \o left \o left

merge_pos(pos, left, right) == <<pos>> \o left \o right

merge(left, right) == merge_pos(0, left, right)

merge_peaks(left, right) == merge(left, right)

=============================================================================
