-------------------------------- MODULE MMR --------------------------------
(***************************************************************************)
(* One MMR instance over a store: push, commit and the reads of            *)
(* src/mmr.rs, with the write buffer of src/mmr_store.rs between them.     *)
(*                                                                         *)
(* push and commit are async functions on &mut self.  Each step between    *)
(* two awaits is an action, and a call may end at any await: because the   *)
(* store reports an error, because a merge does, or because the caller     *)
(* drops the future.  The process may crash at any moment and open the     *)
(* store again.  Reads take &self and change nothing: they are operators.  *)
(*                                                                         *)
(* The last three variables are history, read by no action of the code.    *)
(***************************************************************************)
EXTENDS Forest

CONSTANT MaxSize   \* bound: no push starts at an mmr_size of MaxSize or more

ASSUME MaxSizeAssumption == MaxSize \in Nat

VARIABLES
  store,        \* the backing store: position -> item, where one is written
  mmr_size,
  memory_batch, \* entries [pos, elems]; during a commit, what drain(..) still holds
  phase,        \* which call is running: "idle", "pushing", "committing"
  elems,        \* push's locals
  pos,
  peak,
  returned,     \* what the last call returned
  content,      \* history: the item every successful push put at each position
  durable,      \* history: the size an application may have on record as committed
  intact        \* history: no commit has failed since the instance was created

vars == <<store, mmr_size, memory_batch, phase, elems, pos, peak, returned,
          content, durable, intact>>

callVars == <<elems, pos, peak>>
history == <<content, durable, intact>>

-----------------------------------------------------------------------------
(* Reads.                                                                  *)

\* The positions a batch entry covers.
Extent(entry) == entry.pos .. (entry.pos + Len(entry.elems) - 1)

ElemAt(entry, p) == entry.elems[p - entry.pos + 1]

StoreGet(p) == IF p \in DOMAIN store THEN store[p] ELSE None

\* Mutant: the store is asked before the batch.
get_elem_storeFirst(p) ==
  LET covering == {i \in DOMAIN memory_batch : p \in Extent(memory_batch[i])}
  IN  IF p \in DOMAIN store THEN store[p]
      ELSE IF covering # {} THEN ElemAt(memory_batch[Max(covering)], p)
      ELSE None

\* The newest entry that starts at or below p decides: the loop breaks there.
get_elem(p) ==
  LET started == {i \in DOMAIN memory_batch : memory_batch[i].pos <= p}
      newest == memory_batch[Max(started)]
  IN  IF started # {} /\ p \in Extent(newest) THEN ElemAt(newest, p)
      ELSE StoreGet(p)

\* Mutant: pos > start_pos where the code has pos >= start_pos.
get_elems_strict(p) ==
  LET covering == {i \in DOMAIN memory_batch :
                     p \in Extent(memory_batch[i]) \ {memory_batch[i].pos}}
  IN  IF covering # {} THEN ElemAt(memory_batch[Max(covering)], p)
      ELSE StoreGet(p)

\* One result of get_elems: the newest entry that covers p decides.
get_elems(p) ==
  LET covering == {i \in DOMAIN memory_batch : p \in Extent(memory_batch[i])}
  IN  IF covering # {} THEN ElemAt(memory_batch[Max(covering)], p)
      ELSE StoreGet(p)

\* Mutant: nodes of the running push are not looked up.
find_elem_committed(p, hashes) == get_elem(p)

\* Nodes of the running push first.
find_elem(p, hashes) ==
  IF p >= mmr_size /\ p - mmr_size < Len(hashes) THEN hashes[p - mmr_size + 1]
  ELSE get_elem(p)

\* Mutant: the arguments of merge_peaks are swapped.
bag_rhs_peaks_swapped(rhs_peaks) ==
  LET bagged[i \in 1..Len(rhs_peaks)] ==
        IF i = Len(rhs_peaks) THEN rhs_peaks[i]
        ELSE merge_peaks(rhs_peaks[i], bagged[i + 1])
  IN  bagged[1]

\* Mutant: peaks are taken from the front of the vector.
bag_rhs_peaks_fromLeft(rhs_peaks) ==
  LET bagged[i \in 1..Len(rhs_peaks)] ==
        IF i = 1 THEN rhs_peaks[1] ELSE merge_peaks(rhs_peaks[i], bagged[i - 1])
  IN  bagged[Len(rhs_peaks)]

\* Peaks are merged from the right; the bagged right hand side is the left
\* argument of merge_peaks.
bag_rhs_peaks(rhs_peaks) ==
  LET bagged[i \in 1..Len(rhs_peaks)] ==
        IF i = Len(rhs_peaks) THEN rhs_peaks[i]
        ELSE merge_peaks(bagged[i + 1], rhs_peaks[i])
  IN  bagged[1]

\* None stands for both errors, GetRootOnEmpty and InconsistentStore.
get_root ==
  LET peaks == PeaksIter(mmr_size)
      items == [i \in DOMAIN peaks |-> get_elems(peaks[i])]
  IN  IF mmr_size = 0 THEN None
      ELSE IF mmr_size = 1 THEN get_elem(0)
      ELSE IF \E i \in DOMAIN items : items[i] = None THEN None
      ELSE bag_rhs_peaks(items)

-----------------------------------------------------------------------------
(* An instance is created over an empty store.                             *)

Init ==
  /\ store = [p \in {} |-> None]
  /\ mmr_size = 0
  /\ memory_batch = <<>>
  /\ phase = "idle"
  /\ elems = <<>>
  /\ pos = 0
  /\ peak = 1
  /\ returned = "none"
  /\ content = <<>>
  /\ durable = 0
  /\ intact = TRUE

\* What ends a call: its locals go out of scope.
Return(result) ==
  /\ phase' = "idle"
  /\ returned' = result
  /\ elems' = <<>>
  /\ pos' = 0
  /\ peak' = 1

-----------------------------------------------------------------------------
(* push                                                                    *)

\* Up to the first find_elem.
PushBegin(d) ==
  /\ phase = "idle"
  /\ mmr_size < MaxSize
  /\ phase' = "pushing"
  /\ returned' = "none"
  /\ elems' = <<leaf_hash(d)>>
  /\ pos' = mmr_size
  /\ peak' = 1
  /\ UNCHANGED <<store, mmr_size, memory_batch, history>>

\* leaf_hash reports an error.
PushRefused ==
  /\ phase = "idle"
  /\ mmr_size < MaxSize
  /\ Return("push_error")
  /\ UNCHANGED <<store, mmr_size, memory_batch, history>>

\* (peak_map & peak) != 0: a mountain as high as the new one stands on its left.
LeftMountain == HasBit(get_peak_map(mmr_size), peak)

\* Mutant: left_pos is computed before pos += 1.
left_pos_early == pos - 2 * peak

\* Mutant: left_pos is computed before peak <<= 1.
left_pos_unshifted == (pos + 1) - peak

\* left_pos, after the loop has advanced pos and peak.
left_pos == (pos + 1) - 2 * peak

\* Mutant: peak >>= 1.
PushMerge_shiftRight ==
  LET left_elem == find_elem(left_pos, elems)
  IN  /\ phase = "pushing"
      /\ LeftMountain
      /\ left_elem # None
      /\ elems' = Append(elems, merge(left_elem, elems[Len(elems)]))
      /\ pos' = pos + 1
      /\ peak' = peak \div 2
      /\ UNCHANGED <<store, mmr_size, memory_batch, phase, returned, history>>

\* Mutant: mmr_size is advanced in the loop, not after it.
PushMerge_sizeEarly ==
  LET left_elem == find_elem(left_pos, elems)
  IN  /\ phase = "pushing"
      /\ LeftMountain
      /\ left_elem # None
      /\ elems' = Append(elems, merge(left_elem, elems[Len(elems)]))
      /\ pos' = pos + 1
      /\ peak' = 2 * peak
      /\ mmr_size' = mmr_size + 1
      /\ UNCHANGED <<store, memory_batch, phase, returned, history>>

\* One iteration of the loop.
PushMerge ==
  LET left_elem == find_elem(left_pos, elems)
  IN  /\ phase = "pushing"
      /\ LeftMountain
      /\ left_elem # None
      /\ elems' = Append(elems, merge(left_elem, elems[Len(elems)]))
      /\ pos' = pos + 1
      /\ peak' = 2 * peak
      /\ UNCHANGED <<store, mmr_size, memory_batch, phase, returned, history>>

\* The left sibling is in neither the batch nor the store.
PushInconsistent ==
  /\ phase = "pushing"
  /\ LeftMountain
  /\ find_elem(left_pos, elems) = None
  /\ Return("push_inconsistent")
  /\ UNCHANGED <<store, mmr_size, memory_batch, history>>

\* The read or the merge of an iteration fails, or the future is dropped there.
PushFail ==
  /\ phase = "pushing"
  /\ LeftMountain
  /\ Return("push_error")
  /\ UNCHANGED <<store, mmr_size, memory_batch, history>>

\* Mutant: the batch is given the position of the last node, not of the leaf.
PushEnd_lastPosition ==
  /\ phase = "pushing"
  /\ ~LeftMountain
  /\ memory_batch' = Append(memory_batch, [pos |-> pos, elems |-> elems])
  /\ mmr_size' = pos + 1
  /\ content' = content \o elems
  /\ Return("push_ok")
  /\ UNCHANGED <<store, durable, intact>>

\* No mountain of that height: the new nodes go to the batch.
PushEnd ==
  /\ phase = "pushing"
  /\ ~LeftMountain
  /\ memory_batch' = Append(memory_batch, [pos |-> mmr_size, elems |-> elems])
  /\ mmr_size' = pos + 1
  /\ content' = content \o elems
  /\ Return("push_ok")
  /\ UNCHANGED <<store, durable, intact>>

-----------------------------------------------------------------------------
(* commit                                                                  *)

\* Mutant: the first element is written one position too far.
Inserted_shifted(s, p, new, k) ==
  [q \in DOMAIN s \cup (p + 1)..(p + k) |->
     IF q \in (p + 1)..(p + k) THEN new[q - p] ELSE s[q]]

\* Mutant: a position that is taken already is not written again.
Inserted_ifAbsent(s, p, new, k) ==
  [q \in DOMAIN s \cup p..(p + k - 1) |->
     IF q \in DOMAIN s THEN s[q] ELSE new[q - p + 1]]

\* Store s after the first k of some elements were inserted from position p on.
Inserted(s, p, new, k) ==
  [q \in DOMAIN s \cup p..(p + k - 1) |->
     IF q \in p..(p + k - 1) THEN new[q - p + 1] ELSE s[q]]

CommitBegin ==
  /\ phase = "idle"
  /\ phase' = "committing"
  /\ returned' = "none"
  /\ UNCHANGED <<store, mmr_size, memory_batch, callVars, history>>

\* Mutant: entries are taken one by one but never removed.
CommitAppend_undrained ==
  LET entry == Head(memory_batch)
  IN  /\ phase = "committing"
      /\ memory_batch # <<>>
      /\ store' = Inserted(store, entry.pos, entry.elems, Len(entry.elems))
      /\ UNCHANGED <<mmr_size, memory_batch, phase, callVars, returned, history>>

\* drain(..) yields an entry and the store appends it.
CommitAppend ==
  LET entry == Head(memory_batch)
  IN  /\ phase = "committing"
      /\ memory_batch # <<>>
      /\ store' = Inserted(store, entry.pos, entry.elems, Len(entry.elems))
      /\ memory_batch' = Tail(memory_batch)
      /\ UNCHANGED <<mmr_size, phase, callVars, returned, history>>

\* The append fails, or the future is dropped at its await, when some of the
\* elements have reached the store.  Dropping the Drain empties the batch.
CommitFail ==
  LET entry == Head(memory_batch)
  IN  /\ phase = "committing"
      /\ memory_batch # <<>>
      /\ \E k \in 0..Len(entry.elems) :
           store' = Inserted(store, entry.pos, entry.elems, k)
      /\ memory_batch' = <<>>
      /\ intact' = FALSE
      /\ Return("commit_error")
      /\ UNCHANGED <<mmr_size, content, durable>>

CommitEnd ==
  /\ phase = "committing"
  /\ memory_batch = <<>>
  /\ durable' = IF intact THEN mmr_size ELSE durable
  /\ Return("commit_ok")
  /\ UNCHANGED <<store, mmr_size, memory_batch, content, intact>>

-----------------------------------------------------------------------------
(* A crash at any moment, or into_store(), and then MMR::new(size, store)  *)
(* with a size the application has on record: the last one committed, or   *)
(* an older one.  (A crash in the middle of one append is CommitFail and   *)
(* then this.)                                                             *)

Restart(size) ==
  /\ size \in 0..durable
  /\ mmr_size' = size
  /\ memory_batch' = <<>>
  /\ content' = SubSeq(content, 1, size)
  /\ durable' = size
  /\ intact' = TRUE
  /\ Return("none")
  /\ UNCHANGED store

\* The sizes an MMR can have between two calls.
FinishedSizes == {0} \cup {leaf_index_to_mmr_size(i) : i \in 0..MaxSize}

-----------------------------------------------------------------------------

PushStep == PushMerge \/ PushInconsistent \/ PushFail \/ PushEnd

CommitStep == CommitAppend \/ CommitFail \/ CommitEnd

Next ==
  \/ \E d \in Data : PushBegin(d)
  \/ PushRefused
  \/ PushStep
  \/ CommitBegin
  \/ CommitStep
  \/ \E size \in FinishedSizes : Restart(size)

Spec == Init /\ [][Next]_vars

\* A call that was started is polled until it returns, and the store answers:
\* no call needs an error to come to an end.
Fairness ==
  /\ WF_vars(PushMerge \/ PushInconsistent \/ PushEnd)
  /\ WF_vars(CommitAppend \/ CommitEnd)

FairSpec == Spec /\ Fairness

-----------------------------------------------------------------------------
(* Properties.                                                             *)

\* Every variable has its type.
TypeOK ==
  /\ store \in [DOMAIN store -> Item] /\ DOMAIN store \subseteq Nat
  /\ mmr_size \in Nat
  /\ memory_batch \in Seq([pos : Nat, elems : Seq(Item)])
  /\ phase \in {"idle", "pushing", "committing"}
  /\ elems \in Seq(Item) /\ (phase = "pushing" => elems # <<>>)
  /\ pos \in Nat
  /\ peak \in Nat \ {0}
  /\ returned \in {"none", "push_ok", "push_inconsistent", "push_error",
                   "commit_ok", "commit_error"}
  /\ content \in Seq(Item)
  /\ durable \in Nat
  /\ intact \in BOOLEAN

\* Until a commit fails, every position below mmr_size reads as what push put
\* there: before, while and after the batch is written out, and although the
\* store may still hold what an abandoned instance wrote at those positions.
ReadYourWrites ==
  intact => \A p \in 0..(mmr_size - 1) : get_elem(p) = content[p + 1]

\* get_elem gives up at the first entry that starts at or below a position,
\* get_elems searches them all; they never disagree, at any position and even
\* after a failed commit.
SameLookup == \A p \in 0..mmr_size : get_elem(p) = get_elems(p)

\* Whatever fails or crashes later, the store keeps what an application may
\* rely on having committed: pushing and committing never write below it.
DurablePrefix ==
  \A p \in 0..(durable - 1) : StoreGet(p) = content[p + 1]

\* push finds every left sibling it needs unless a commit has failed: an
\* InconsistentStore error always has a reason.
PushFindsSiblings == returned = "push_inconsistent" => ~intact

\* The positions whose nodes are not in doubt: all of them, or after a failed
\* commit those that were written before.
Sound == 0..((IF intact THEN mmr_size ELSE durable) - 1)

\* The tree, node by node: what push, rollback and recovery leave behind at a
\* position is a leaf or else the merge of its two children, of which the right
\* one comes just before it and the left one before all of the right one's tree.
NodesMerged ==
  \A p \in Sound :
    LET h == pos_height_in_tree(p)
    IN  IF h = 0 THEN \E d \in Data : content[p + 1] = leaf_hash(d)
        ELSE content[p + 1] = merge(content[p - Pow2[h] + 1], content[p])

\* Every node that push puts into the MMR is at its place: sizes and positions
\* follow from the number of leaves, and each parent is the merge of its two
\* children, also after a rollback over a store with older entries in it.
TreeShape == intact => content = Layout(LeavesOf(content))

\* get_root is the bagged root of exactly the leaves pushed so far, whether
\* their peaks are in the batch, in the store or some in each.
RootCorrect == intact => get_root = Bagged(LeavesOf(content))

\* What get_root would return if the store were opened now at some size.
RootIfOpenedAt(size) ==
  LET peaks == PeaksIter(size)
  IN  IF \E k \in DOMAIN peaks : StoreGet(peaks[k]) = None THEN None
      ELSE bag_rhs_peaks([k \in DOMAIN peaks |-> StoreGet(peaks[k])])

\* Whatever was pushed, lost or half written since, opening the store at any
\* size the application may have on record gives the root that the MMR had at
\* that size.
RecoveredRootCorrect ==
  \A size \in FinishedSizes \ {0} :
    size <= durable =>
      RootIfOpenedAt(size) = Bagged(LeavesOf(SubSeq(content, 1, size)))

\* "Writes all buffered elements to store" (MMRBatch::commit) and "Persist
\* uncommitted elements to storage" (MMR::commit): after an Ok commit the
\* store holds every position of the MMR.
CommitOkPersists ==
  returned = "commit_ok" => 0..(mmr_size - 1) \subseteq DOMAIN store

\* Batch and store together are the log of module NodeLog: nodes are appended
\* whole pushes at a time, writing the batch out changes nothing that can be
\* read, and a failed commit or a crash touches nothing that was committed.
Log == INSTANCE NodeLog WITH
         Value <- Item \cup {None},
         log <- [i \in 1..mmr_size |-> get_elem(i - 1)],
         damaged <- ~intact

IsNodeLog == Log!Spec

\* Every push and every commit returns.
CallsReturn == phase # "idle" ~> phase = "idle"

-----------------------------------------------------------------------------
(* The inductive invariant.                                                *)

\* The history has an item for every position.
ContentComplete == Len(content) = mmr_size /\ durable <= mmr_size

\* push has a node for every position up to pos, and peak is 1 << h for the height
\* h of the last of them.
PushLocals ==
  phase = "pushing" =>
    /\ pos + 1 = mmr_size + Len(elems)
    /\ peak = Pow2[Len(elems) - 1]

\* Entries are in ascending order, do not overlap, and lie above what is
\* durable.
BatchOrdered ==
  /\ \A i, j \in DOMAIN memory_batch :
       i < j => memory_batch[i].pos + Len(memory_batch[i].elems)
                  <= memory_batch[j].pos
  /\ \A i \in DOMAIN memory_batch :
       /\ durable <= memory_batch[i].pos
       /\ memory_batch[i].pos + Len(memory_batch[i].elems) <= mmr_size

\* The batch holds what was pushed.
BatchMatches ==
  \A i \in DOMAIN memory_batch : \A p \in Extent(memory_batch[i]) :
    ElemAt(memory_batch[i], p) = content[p + 1]

\* Until a commit fails, what the batch does not hold is in the store.
StoreMatches ==
  intact =>
    \A p \in 0..(mmr_size - 1) :
      \/ \E i \in DOMAIN memory_batch : p \in Extent(memory_batch[i])
      \/ StoreGet(p) = content[p + 1]

IInv ==
  /\ TypeOK
  /\ ContentComplete
  /\ PushLocals
  /\ BatchOrdered
  /\ BatchMatches
  /\ StoreMatches
  /\ DurablePrefix

=============================================================================
