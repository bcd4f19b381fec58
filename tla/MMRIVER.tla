------------------------------ MODULE MMRIVER ------------------------------
(***************************************************************************)
(* One MMRIVER instance over a store, and its proofs: src/mmriver.rs.      *)
(*                                                                         *)
(* It owns the same fields as an MMR and forwards commit to the same       *)
(* MMRBatch, so everything but push and the proofs is taken from module    *)
(* MMR; only the locals of MMR::push, pos and peak, are never used.  None  *)
(* stands for any Err.                                                     *)
(***************************************************************************)
EXTENDS MMR, SequencesExt

CONSTANTS
  OverflowChecks,   \* TRUE if the build checks arithmetic for overflow
  Panic             \* the outcome of arithmetic that fails this check

ASSUME OverflowChecksAssumption == OverflowChecks \in BOOLEAN

\* The Option<Vec<Elem>> of the reads below and the Result<bool> of verify have the
\* same None.
ASSUME NoneIsNoVec == None \notin Seq(Item)
ASSUME NoneIsNoBool == None \notin BOOLEAN
ASSUME PanicIsNoResult == Panic \notin Seq(Item) \cup BOOLEAN

VARIABLES i, g   \* push's locals: the next position, the height reached

riverVars == <<vars, i, g>>

RiverInit == Init /\ i = 0 /\ g = 0

-----------------------------------------------------------------------------
(* push                                                                    *)

RiverPushBegin(d) ==
  /\ phase = "idle"
  /\ mmr_size < MaxSize
  /\ phase' = "pushing"
  /\ returned' = "none"
  /\ elems' = <<leaf_hash(d)>>
  /\ i' = mmr_size + 1
  /\ g' = 0
  /\ UNCHANGED <<store, mmr_size, memory_batch, pos, peak, history>>

ParentDue == index_height_mmriver(i) > g

\* Mutant: the shift is one short.
left_child_short == find_elem(i - Pow2[g], elems)

left_child == find_elem(i - 2 * Pow2[g], elems)

right_child == find_elem(i - 1, elems)

\* One iteration of the loop: two concurrent reads, joined, and a merge.
RiverPushMerge ==
  /\ phase = "pushing"
  /\ ParentDue
  /\ left_child # None /\ right_child # None
  /\ elems' = Append(elems, merge_pos(i + 1, left_child, right_child))
  /\ i' = i + 1
  /\ g' = g + 1
  /\ UNCHANGED <<store, mmr_size, memory_batch, phase, pos, peak, returned,
                 history>>

\* How push ends; its locals go out of scope.
RiverReturn(result) == Return(result) /\ i' = 0 /\ g' = 0

RiverPushInconsistent ==
  /\ phase = "pushing"
  /\ ParentDue
  /\ left_child = None \/ right_child = None
  /\ RiverReturn("push_inconsistent")
  /\ UNCHANGED <<store, mmr_size, memory_batch, history>>

\* A read or the merge of an iteration fails, or the future is dropped there.
RiverPushFail ==
  /\ phase = "pushing"
  /\ ParentDue
  /\ RiverReturn("push_error")
  /\ UNCHANGED <<store, mmr_size, memory_batch, history>>

\* Mutant: the batch is given the position of the last node, not of the leaf.
RiverPushEnd_lastPosition ==
  /\ phase = "pushing"
  /\ ~ParentDue
  /\ memory_batch' = Append(memory_batch, [pos |-> i - 1, elems |-> elems])
  /\ mmr_size' = i
  /\ content' = content \o elems
  /\ RiverReturn("push_ok")
  /\ UNCHANGED <<store, durable, intact>>

RiverPushEnd ==
  /\ phase = "pushing"
  /\ ~ParentDue
  /\ memory_batch' = Append(memory_batch, [pos |-> mmr_size, elems |-> elems])
  /\ mmr_size' = i
  /\ content' = content \o elems
  /\ RiverReturn("push_ok")
  /\ UNCHANGED <<store, durable, intact>>

-----------------------------------------------------------------------------

RiverPushStep ==
  RiverPushMerge \/ RiverPushInconsistent \/ RiverPushFail \/ RiverPushEnd

\* What MMRIVER shares with MMR.
Shared ==
  /\ PushRefused \/ CommitBegin \/ CommitStep
  /\ UNCHANGED <<i, g>>

RiverRestart(size) == Restart(size) /\ i' = 0 /\ g' = 0

RiverNext ==
  \/ \E d \in Data : RiverPushBegin(d)
  \/ RiverPushStep
  \/ Shared
  \/ \E size \in FinishedSizes : RiverRestart(size)

\* As for MMR: calls are polled, and none needs an error to come to an end.
RiverFairness ==
  /\ WF_riverVars(RiverPushMerge \/ RiverPushInconsistent \/ RiverPushEnd)
  /\ WF_riverVars((CommitAppend \/ CommitEnd) /\ UNCHANGED <<i, g>>)

RiverSpec == RiverInit /\ [][RiverNext]_riverVars /\ RiverFairness

-----------------------------------------------------------------------------
(* Properties of push.  Those of MMR hold as well.                         *)

\* push finds both children of every node it makes unless a commit has failed:
\* the left one always in batch or store, the right one always among its own
\* new nodes.
RiverFindsChildren == returned = "push_inconsistent" => ~intact

\* MMR's NodesMerged, for the other height function, and with the position of every
\* inner node, counted from one, in its hash.
RiverNodesMerged ==
  \A p \in Sound :
    LET h == index_height_mmriver(p)
    IN  IF h = 0 THEN \E d \in Data : content[p + 1] = leaf_hash(d)
        ELSE content[p + 1] = merge_pos(p + 1, content[p - Pow2[h] + 1], content[p])

\* push has a node for every position below i, and g is the height of the last.
RiverPushLocals ==
  /\ i \in Nat /\ g \in Nat
  /\ phase = "pushing" => i = mmr_size + Len(elems) /\ g = Len(elems) - 1

\* The inductive invariant.
RiverIInv ==
  /\ TypeOK
  /\ ContentComplete
  /\ RiverPushLocals
  /\ BatchOrdered
  /\ BatchMatches
  /\ StoreMatches
  /\ DurablePrefix

-----------------------------------------------------------------------------
(* Reads.                                                                  *)

get_accumulator ==
  LET peaks == PeaksMMRIVERIter(mmr_size - 1)
      items == [k \in DOMAIN peaks |-> get_elems(peaks[k])]
  IN  IF mmr_size = 0 \/ \E k \in DOMAIN items : items[k] = None THEN None
      ELSE items

get_root_mmriver ==
  IF get_accumulator = None THEN None ELSE bag_rhs_peaks(get_accumulator)

\* An item without the positions in it.
Erased(item) == [k \in DOMAIN item |-> IF item[k] \in Data THEN item[k] ELSE 0]

AllErased(items) == [p \in DOMAIN items |-> Erased(items[p])]

IsLeaf(item) == Len(item) = 1

\* Every node is at its place, as in an MMR of the same leaves: the two loops of
\* push build the same tree.  And every inner node is hashed with its own
\* position, counted from one, also after failures in the middle of a push.
RiverTreeShape ==
  intact =>
    /\ AllErased(content) = Layout(LeavesOf(content))
    /\ \A p \in DOMAIN content : IsLeaf(content[p]) \/ Head(content[p]) = p

\* get_root is that of an MMR of the same leaves.
RiverRootCorrect ==
  intact =>
    IF content = <<>> THEN get_root_mmriver = None
    ELSE Erased(get_root_mmriver) = Bagged(LeavesOf(content))

\* The siblings from position p up to its peak.
PathItems(p) ==
  LET path == inclusion_proof_path(p, mmr_size - 1)
  IN  [k \in DOMAIN path |-> get_elems(path[k])]

gen_inclusion_proof(p) ==
  IF p >= mmr_size \/ \E k \in DOMAIN PathItems(p) : PathItems(p)[k] = None
  THEN None
  ELSE PathItems(p)

\* Mutant: every slice starts at the beginning.
Slice_noOffset(elems_read, paths, k) == SubSeq(elems_read, 1, Len(paths[k]))

\* The items of path k among those of all paths.
Slice(elems_read, paths, k) ==
  LET offset == Len(FlattenSeq(SubSeq(paths, 1, k - 1)))
  IN  SubSeq(elems_read, offset + 1, offset + Len(paths[k]))

\* One path for each peak of the older MMR.  All positions are read at once, and
\* the items cut into paths again by their lengths.
gen_consistency_proof(mmr_size_from) ==
  LET paths == consistency_paths(mmr_size_from, mmr_size)
      positions == FlattenSeq(paths)
      all_elems == [n \in DOMAIN positions |-> get_elems(positions[n])]
  IN  IF \/ mmr_size_from \notin 1..mmr_size
         \/ \E n \in DOMAIN all_elems : all_elems[n] = None
      THEN None
      ELSE [k \in DOMAIN paths |-> Slice(all_elems, paths, k)]

-----------------------------------------------------------------------------
(* Verification.                                                           *)

\* Mutant: the new position is not the parent's but the sibling's.
included_root_sibling(p, nodehash, path) ==
  LET height == index_height_mmriver(p)
      at[k \in 0..Len(path)] ==
        IF k = 0 THEN [pos |-> p, root |-> nodehash]
        ELSE LET below == at[k - 1]
                 right == below.pos + 1
                 left == below.pos + 2 * Pow2[height + k - 1] - 1
             IN  IF index_height_mmriver(right) > height + k - 1
                 THEN [pos |-> right,
                       root |-> merge_pos(right + 1, path[k], below.root)]
                 ELSE [pos |-> left,
                       root |-> merge_pos(left + 1, below.root, path[k])]
  IN  at[Len(path)].root

\* The item that nodehash at position p and the siblings on its path lead to.
\* A right child's parent comes next, a left one's after all of its sibling.
included_root(p, nodehash, path) ==
  LET height == index_height_mmriver(p)
      at[k \in 0..Len(path)] ==
        IF k = 0 THEN [pos |-> p, root |-> nodehash]
        ELSE LET below == at[k - 1]
                 right == below.pos + 1
                 left == below.pos + 2 * Pow2[height + k - 1]
             IN  IF index_height_mmriver(right) > height + k - 1
                 THEN [pos |-> right,
                       root |-> merge_pos(right + 1, path[k], below.root)]
                 ELSE [pos |-> left,
                       root |-> merge_pos(left + 1, below.root, path[k])]
  IN  at[Len(path)].root

\* InclusionProof::verify
inclusion_verify(p, path, nodehash, accumulator) ==
  /\ PeaksMMRIVERIterLen(p) # 0
  /\ included_root(p, nodehash, path) \in Range(accumulator)

\* The peaks that the old ones lead to, each once.  From size zero, 0 - 1 panics or
\* wraps here, and in the latter case back in PeaksMMRIVERIter.
consistent_roots(mmr_size_from, paths, old_accumulator) ==
  LET from_peaks == PeaksMMRIVERIter(mmr_size_from - 1)
      Root(k) == included_root(from_peaks[k], old_accumulator[k], paths[k])
      roots[k \in 0..Len(from_peaks)] ==
        IF k = 0 THEN <<>>
        ELSE IF k > 1 /\ Root(k) = Root(k - 1) THEN roots[k - 1]
        ELSE Append(roots[k - 1], Root(k))
  IN  IF mmr_size_from = 0 /\ OverflowChecks THEN Panic
      ELSE IF Len(from_peaks) # Len(old_accumulator) \/ Len(from_peaks) # Len(paths)
      THEN None
      ELSE roots[Len(from_peaks)]

\* Mutant: roots and accumulator are compared pairwise, up to the shorter one.
InOrder_zip(roots, accumulator) ==
  \A k \in DOMAIN roots \cap DOMAIN accumulator : roots[k] = accumulator[k]

\* idx runs through the accumulator: every root is at idx or at the next one.
InOrder(roots, accumulator) ==
  LET idx[k \in 0..Len(roots)] ==
        IF k = 0 THEN 1
        ELSE LET at == idx[k - 1]
             IN  CASE at > Len(accumulator) -> at
                   [] accumulator[at] = roots[k] -> at
                   [] at < Len(accumulator) /\ accumulator[at + 1] = roots[k] -> at + 1
                   [] OTHER -> Len(accumulator) + 1
  IN  roots = <<>> \/ idx[Len(roots)] <= Len(accumulator)

\* ConsistencyProof::verify
consistency_verify(mmr_size_from, paths, old_accumulator, new_accumulator) ==
  LET proven == consistent_roots(mmr_size_from, paths, old_accumulator)
  IN  IF proven \in {None, Panic} THEN proven ELSE InOrder(proven, new_accumulator)

-----------------------------------------------------------------------------
(* Properties of the proofs.                                               *)

\* Between two calls, when all of the MMR is in batch or store.
Answering == phase = "idle" /\ intact

\* Every node, leaf or not, has an inclusion proof that verifies for it.
InclusionVerifies ==
  Answering =>
    LET accumulator == get_accumulator
    IN  \A p \in 0..(mmr_size - 1) :
          LET path == gen_inclusion_proof(p)
          IN  path # None /\ inclusion_verify(p, path, content[p + 1], accumulator)

\* A path of at least one item verifies at a position for the node there and for
\* nothing else, and only if it is the path that is generated for that position.
\* (An empty path verifies for every peak, at any position.)
Binds(positions, paths, items) ==
  LET accumulator == get_accumulator
  IN  \A at \in positions, path \in paths, item \in items :
        path # <<>> /\ inclusion_verify(at, path, item, accumulator) =>
          /\ at \in 0..(mmr_size - 1)
          /\ item = content[at + 1]
          /\ path = gen_inclusion_proof(at)

\* So of the proofs that are generated, none verifies at another position or for
\* another node, unless that node is the same and so is its proof.
InclusionBinds ==
  Answering =>
    Binds(0..mmr_size, {gen_inclusion_proof(p) : p \in 0..(mmr_size - 1)},
          {content[p + 1] : p \in 0..(mmr_size - 1)})

\* The accumulator that the MMR had at this size.
AccumulatorAt(size) ==
  LET peaks == PeaksMMRIVERIter(size - 1)
  IN  [k \in DOMAIN peaks |-> content[peaks[k] + 1]]

\* No proof is generated from size zero; ConsistencyProof::new makes the one there
\* is, with no paths.
ProofFrom(size) == IF size = 0 THEN <<>> ELSE gen_consistency_proof(size)

\* The proof from any earlier size is accepted for the two accumulators it was
\* made for, also from the empty MMR if the size wraps around.
ConsistencyVerifies ==
  Answering /\ mmr_size > 0 =>
    LET accumulator == get_accumulator
    IN  \A from \in FinishedSizes \cap 0..mmr_size :
          from > 0 \/ ~OverflowChecks =>
            consistency_verify(from, ProofFrom(from), AccumulatorAt(from), accumulator)
              = TRUE

\* No item is at two positions: no two leaves have the same data.
AllDifferent == \A m, n \in DOMAIN content : content[m] = content[n] => m = n

\* Of all accumulators the MMR has had, only the one of that size is accepted as
\* the old one, and none from before it as the new one.
ConsistencyBindsSizes ==
  Answering /\ AllDifferent /\ mmr_size > 0 =>
    LET accumulator == get_accumulator
    IN  \A from \in FinishedSizes \cap 0..mmr_size :
          LET proof == ProofFrom(from)
              accepted(old, new) == consistency_verify(from, proof, old, new) = TRUE
          IN  \A size \in FinishedSizes \cap 0..mmr_size :
                LET then == AccumulatorAt(size)
                IN  /\ accepted(then, accumulator) => size = from
                    /\ accepted(AccumulatorAt(from), then) => from <= size

=============================================================================
