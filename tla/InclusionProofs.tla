-------------------------- MODULE InclusionProofs --------------------------
(***************************************************************************)
(* The inclusion proofs of src/mmr.rs: an MMR that grows (module MMR), a   *)
(* proof generated from it at some size, and the verifier's calculations.  *)
(*                                                                         *)
(* gen_proof and the verifier walk from the leaves to the peaks with a     *)
(* queue each and must consume proof items in the order they were made.    *)
(* Leaves to verify are a function from positions to items: the code sorts *)
(* them and drops duplicates.  None stands for any Err.                    *)
(***************************************************************************)
EXTENDS MMR, SequencesExt

CONSTANT Panic   \* the outcome of indexing past the end of a vector

VARIABLE proof   \* an InclusionProof, and the leaves it was generated for

RECURSIVE ProofWalk(_, _, _), RootWalk(_, _, _), PeaksWalk(_, _, _, _)

-----------------------------------------------------------------------------
(* What both walks share.                                                  *)

\* pos is a right child: the next position is higher.
IsRightChild(p, height) == pos_height_in_tree(p + 1) > height

Sibling(p, height) ==
  IF IsRightChild(p, height) THEN p - sibling_offset(height)
  ELSE p + sibling_offset(height)

Parent(p, height) ==
  IF IsRightChild(p, height) THEN p + 1 ELSE p + parent_offset(height)

\* (SetToSortSeq would enumerate the permutations.)
Ascending(positions) ==
  [i \in 1..Cardinality(positions) |->
     CHOOSE p \in positions : Cardinality({q \in positions : q < p}) = i - 1]

-----------------------------------------------------------------------------
(* Generating a proof.                                                     *)

\* The loop of gen_proof_for_peak over its queue of [pos, height].
ProofWalk(queue, peak_pos, items) ==
  IF queue = <<>> THEN items
  ELSE
    LET node == Head(queue)
        rest == Tail(queue)
        sib_pos == Sibling(node.pos, node.height)
        parent_pos == Parent(node.pos, node.height)
        paired == rest # <<>> /\ Head(rest).pos = sib_pos
        others == IF paired THEN Tail(rest) ELSE rest
    IN  IF node.pos = peak_pos THEN IF rest = <<>> THEN items ELSE None
        ELSE IF ~paired /\ get_elem(sib_pos) = None THEN None
        ELSE ProofWalk(IF parent_pos < peak_pos
                         THEN Append(others, [pos |-> parent_pos,
                                              height |-> node.height + 1])
                         ELSE others,
                       peak_pos,
                       IF paired THEN items ELSE Append(items, get_elem(sib_pos)))

gen_proof_for_peak(positions, peak_pos) ==
  IF positions = {} THEN IF get_elem(peak_pos) = None THEN None
                         ELSE <<get_elem(peak_pos)>>
  ELSE LET leaves == Ascending(positions)
       IN  ProofWalk([i \in DOMAIN leaves |-> [pos |-> leaves[i], height |-> 0]],
                     peak_pos, <<>>)

\* The first position below peak i that no earlier peak covers.
First(peaks, i) == IF i = 1 THEN 0 ELSE peaks[i - 1] + 1

\* Mutant: bagging_track is not reset at a peak with leaves to prove.
bagging_track_neverReset(positions) ==
  LET peaks == PeaksIter(mmr_size)
  IN  Cardinality({i \in DOMAIN peaks :
                     positions \cap First(peaks, i)..peaks[i] = {}})

\* The number of peaks right of the last leaf to prove.
bagging_track(positions) ==
  LET peaks == PeaksIter(mmr_size)
  IN  Cardinality({i \in DOMAIN peaks : \A p \in positions : p < First(peaks, i)})

gen_proof(positions) ==
  LET peaks == PeaksIter(mmr_size)
      part == [i \in DOMAIN peaks |->
                 gen_proof_for_peak(positions \cap First(peaks, i)..peaks[i],
                                    peaks[i])]
      kept == Len(peaks) - bagging_track(positions)
      rhs_peaks == FlattenSeq(SubSeq(part, kept + 1, Len(part)))
  IN  IF \/ positions = {}
         \/ \E p \in positions : \/ pos_height_in_tree(p) > 0
                                 \/ \A i \in DOMAIN peaks : p > peaks[i]
         \/ \E i \in DOMAIN part : part[i] = None
      THEN None
      ELSE FlattenSeq(SubSeq(part, 1, kept))
             \o IF bagging_track(positions) > 1 THEN <<bag_rhs_peaks(rhs_peaks)>>
                ELSE rhs_peaks

-----------------------------------------------------------------------------
(* Calculating a root.                                                     *)

\* calculate_peak_root: the root of one mountain and the items not consumed.
RootWalk(queue, peak_pos, items) ==
  LET node == Head(queue)
      rest == Tail(queue)
      sib_pos == Sibling(node.pos, node.height)
      parent_pos == Parent(node.pos, node.height)
      paired == rest # <<>> /\ Head(rest).pos = sib_pos
      sibling_item == IF paired THEN Head(rest).item ELSE Head(items)
      parent_item == IF IsRightChild(node.pos, node.height)
                     THEN merge(sibling_item, node.item)
                     ELSE merge(node.item, sibling_item)
  IN  IF node.pos = peak_pos
      THEN IF rest = <<>> THEN [root |-> node.item, left |-> items] ELSE None
      ELSE IF (~paired /\ items = <<>>) \/ parent_pos > peak_pos THEN None
      ELSE RootWalk(Append(IF paired THEN Tail(rest) ELSE rest,
                           [pos |-> parent_pos, item |-> parent_item,
                            height |-> node.height + 1]),
                    peak_pos,
                    IF paired THEN items ELSE Tail(items))

\* The loop of calculate_peaks_hashes over the peaks, and what follows it.
PeaksWalk(peaks, leaves, items, peaks_hashes) ==
  LET here == {p \in DOMAIN leaves : peaks # <<>> /\ p <= Head(peaks)}
      beyond == [p \in DOMAIN leaves \ here |-> leaves[p]]
      order == Ascending(here)
      mountain == RootWalk([i \in DOMAIN order |->
                              [pos |-> order[i], item |-> leaves[order[i]],
                               height |-> 0]],
                           Head(peaks), items)
  IN  IF peaks = <<>> \/ (here = {} /\ items = <<>>)
      THEN IF DOMAIN beyond # {} \/ Len(items) > 1 THEN None
           ELSE peaks_hashes \o items
      ELSE IF here = {}
      THEN PeaksWalk(Tail(peaks), beyond, Tail(items),
                     Append(peaks_hashes, Head(items)))
      ELSE IF mountain = None THEN None
      ELSE PeaksWalk(Tail(peaks), beyond, mountain.left,
                     Append(peaks_hashes, mountain.root))

calculate_peaks_hashes(leaves, size, items) ==
  IF \E p \in DOMAIN leaves : pos_height_in_tree(p) > 0 THEN None
  ELSE IF size = 1 /\ DOMAIN leaves = {0} THEN <<leaves[0]>>
  ELSE PeaksWalk(PeaksIter(size), leaves, items, <<>>)

bagging_peaks_hashes(peaks_hashes) ==
  IF peaks_hashes = None \/ peaks_hashes = <<>> THEN None
  ELSE bag_rhs_peaks(peaks_hashes)

calculate_root(leaves, size, items) ==
  bagging_peaks_hashes(calculate_peaks_hashes(leaves, size, items))

\* Mutant: the vector is split one item later.
ReversedFrom_late(hashes, n) ==
  SubSeq(hashes, 1, n + 1) \o Reverse(SubSeq(hashes, n + 2, Len(hashes)))

\* The vector with all but its first n items reversed: what were peaks, left to
\* right, become siblings of a new node, bottom up.
ReversedFrom(hashes, n) ==
  SubSeq(hashes, 1, n) \o Reverse(SubSeq(hashes, n + 1, Len(hashes)))

\* What the proof of size `size` gives for the MMR with one more leaf.
calculate_root_with_new_leaf(leaves, size, items, new_pos, new_elem, new_size) ==
  LET new_leaf == [p \in {new_pos} |-> new_elem]
      peaks_hashes == calculate_peaks_hashes(leaves, size, items)
      peaks == PeaksIter(new_size)
      kept == Cardinality({i \in DOMAIN peaks : peaks[i] < new_pos})
  IN  IF ~IsRightChild(new_pos, pos_height_in_tree(new_pos))
      THEN calculate_root(leaves @@ new_leaf, new_size, items)
      ELSE IF peaks_hashes = None THEN None
      ELSE IF kept = Len(peaks) \/ kept > Len(peaks_hashes) THEN Panic
      ELSE calculate_root(new_leaf, new_size, ReversedFrom(peaks_hashes, kept))

\* Mutant: the loop over the peaks never breaks.
reverse_index_last(prev_peaks, current_peaks) == Len(prev_peaks) - 1

\* The number of peaks that both sizes have.  (Indexing current_peaks at it
\* panics if they are all there is.)
reverse_index(prev_peaks, current_peaks) ==
  LET merged == {i \in DOMAIN prev_peaks :
                   i > Len(current_peaks) \/ prev_peaks[i] < current_peaks[i]}
  IN  IF merged = {} THEN Len(prev_peaks) - 1 ELSE Min(merged) - 1

\* A proof for the last Len(incremental) leaves also holds all peaks of the
\* MMR without them.
verify_incremental(size, items, root, prev_root, incremental) ==
  LET current_leaves_count == get_peak_map(size)
      prev_leaves_count == current_leaves_count - Len(incremental)
      prev_peaks == PeaksIter(leaf_index_to_mmr_size(prev_leaves_count - 1))
      current_peaks == PeaksIter(size)
      unchanged == reverse_index(prev_peaks, current_peaks)
      LeafAt(i) == leaf_index_to_pos(prev_leaves_count + i - 1)
      leaves == [p \in {LeafAt(i) : i \in DOMAIN incremental} |->
                   incremental[CHOOSE i \in DOMAIN incremental : LeafAt(i) = p]]
      calculated == calculate_root(leaves, size, items)
  IN  IF \/ current_leaves_count <= Len(incremental)
         \/ Len(prev_peaks) # Len(items)
      THEN None
      ELSE IF unchanged >= Len(current_peaks) THEN Panic
      ELSE IF bagging_peaks_hashes(ReversedFrom(items, unchanged)) # prev_root
      THEN FALSE
      ELSE IF calculated = None THEN None
      ELSE calculated = root

-----------------------------------------------------------------------------
(* A prover that grows an MMR and generates a proof now and then.          *)

\* The empty proof, for no leaf.
NoProof == [size |-> 0, items |-> <<>>, leaves |-> [p \in {} |-> None]]

LeafPositions(size) == {p \in 0..(size - 1) : pos_height_in_tree(p) = 0}

\* Every leaf gets its own datum, so that no two subtrees are equal.
FreshData == CHOOSE d \in Data : \A i \in DOMAIN content : content[i] # leaf_hash(d)

ProofInit == Init /\ proof = NoProof

\* A proof is kept until the MMR has at most one leaf more.
Grow ==
  /\ \/ proof.size \in {0, mmr_size} /\ PushBegin(FreshData)
     \/ PushMerge
     \/ PushEnd
  /\ UNCHANGED proof

GenProof ==
  \E positions \in SUBSET LeafPositions(mmr_size) \ {{}} :
    /\ phase = "idle"
    /\ proof = NoProof
    /\ proof' = [size |-> mmr_size, items |-> gen_proof(positions),
                 leaves |-> [p \in positions |-> content[p + 1]]]
    /\ UNCHANGED vars

DropProof ==
  /\ phase = "idle"
  /\ proof # NoProof
  /\ proof' = NoProof
  /\ UNCHANGED vars

ProofNext == Grow \/ GenProof \/ DropProof

ProofSpec == ProofInit /\ [][ProofNext]_<<vars, proof>>

-----------------------------------------------------------------------------
(* Properties.                                                             *)

\* What get_root returned when the MMR had this size.
RootAt(size) ==
  bag_rhs_peaks([i \in DOMAIN PeaksIter(size) |-> content[PeaksIter(size)[i] + 1]])

Proven == proof # NoProof

Verifies(leaves, items) ==
  calculate_root(leaves, proof.size, items) = RootAt(proof.size)

\* gen_proof succeeds for every set of leaves, and verify accepts its proof for
\* these leaves: both queues walk alike and the bagged peaks end up where the
\* verifier looks for them.
ProofVerifies ==
  Proven => proof.items # None /\ Verifies(proof.leaves, proof.items)

\* verify does not accept it for another item at a proven position, nor with an
\* item of the proof left out.
ProofBindsLeaves ==
  Proven /\ mmr_size = proof.size =>
    LET leaves == proof.leaves
    IN  /\ \A p \in DOMAIN leaves : \A q \in LeafPositions(proof.size) \ {p} :
             ~ Verifies([leaves EXCEPT ![p] = content[q + 1]], proof.items)
        /\ \A i \in DOMAIN proof.items :
             ~ Verifies(leaves, RemoveAt(proof.items, i))

\* A proof for the newest leaves convinces a verifier who knows the root of the
\* MMR before them, and only one who knows that root.
IncrementalVerifies ==
  Proven /\ mmr_size = proof.size =>
    LET newest == Ascending(DOMAIN proof.leaves)
        incremental == [i \in DOMAIN newest |-> proof.leaves[newest[i]]]
        result(prev) == verify_incremental(proof.size, proof.items,
                          RootAt(proof.size), RootAt(prev), incremental)
    IN  \A prev \in FinishedSizes \cap 1..(proof.size - 1) :
          LeafPositions(proof.size) \ LeafPositions(prev) = DOMAIN proof.leaves
            => \A other \in FinishedSizes \cap 1..proof.size :
                 result(other) = (other = prev)

\* The root that the proof gives for the MMR with one more leaf.
RootWithNewLeaf ==
  calculate_root_with_new_leaf(proof.leaves, proof.size, proof.items,
    proof.size, content[proof.size + 1], mmr_size)

OneLeafLater == Proven /\ mmr_size > proof.size /\ phase = "idle"

\* From a proof of leaves that include the last one, the root after the next
\* push can be calculated (as the tests do).
NewLeafRootFromLast ==
  OneLeafLater /\ Max(LeafPositions(proof.size)) \in DOMAIN proof.leaves =>
    RootWithNewLeaf = RootAt(mmr_size)

\* "Compute root with a new leaf not in original MMR" (the documentation of
\* calculate_root_with_new_leaf, which names no proofs that it does not hold for).
NewLeafRootFromAny == OneLeafLater => RootWithNewLeaf = RootAt(mmr_size)

=============================================================================
