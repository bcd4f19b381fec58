# Verification of merkleberg

TLA+ modules for the Merkle Mountain Range library in `src/`: the position
arithmetic, the MMR instance with its write buffer and its backing store, the
log they implement together, readers that share the store, the inclusion proofs,
and the MMRIVER variant with its inclusion and consistency proofs. TLC checks each module on
small instances. TLAPS proves for every value of the constants, and so for MMRs of
every size, the invariants of both instance types, the two abstract specifications
they implement, that trees and roots are those of the leaves pushed, also for readers
and after recovery, that the position arithmetic describes the range of mountains
that pushes build, and that the inclusion and consistency proofs of MMRIVER are accepted
when they should be and only then.

## 1. The system

The crate is a library without threads, I/O or global state of its own. A tree of
hashes is kept as a flat list of *nodes* in postorder; a node's index is its
*position*. After each push the nodes form a row of perfect binary trees
("mountains") of strictly decreasing height; their roots are the *peaks*. Nothing
stores the structure: parents, siblings and peaks are calculated from positions
and from `mmr_size`, the number of nodes.

| Component | State | Operations |
|---|---|---|
| position arithmetic, `helper.rs` | none (two iterators) | `pos_height_in_tree`, `get_peak_map`, `PeaksIter`, `leaf_index_to_pos`, `leaf_index_to_mmr_size`, `PeaksMMRIVERIter`, `inclusion_proof_path`, ... |
| hashing strategy, `merge.rs` | none | `leaf_hash`, `merge_pos`, `merge`, `merge_peaks` of the `Merge` trait and of `DigestMerge` |
| write buffer, `mmr_store.rs` | `memory_batch`, a vector of (position, nodes) | `append`, `get_elem`, `get_elems`, `commit` |
| backing store, `MMRStoreReadOps`/`WriteOps`, `MemStore` in `util.rs` | position -> node | `get_elem`, `get_elems`, `append`; async, may fail |
| MMR instance, `mmr.rs` | `mmr_size`, the batch | `push`, `get_root`, `commit`, `gen_proof`, `into_store`, `new` |
| inclusion proofs, `mmr.rs` | a size and a list of items | `calculate_root`, `verify`, `verify_incremental`, `calculate_root_with_new_leaf` |
| MMRIVER instance and proofs, `mmriver.rs` | as MMR; a proof is an index and a path, or two sizes and paths | `push`, `get_accumulator`, `get_root`, `gen_inclusion_proof`, `gen_consistency_proof`, and verification |
| errors, crate root, benches, examples | none | - |

**Interaction.** `push` reads left siblings through `find_elem`: the nodes of the
running push first, then the batch, then the store. When it is done it appends
the new nodes to the batch and sets `mmr_size`. `commit` drains the batch into
the store, one `append` for each push since the last commit. Reads look through
the batch into the store. A new instance is opened over an existing store with a
size that *the application* has kept; the library neither stores nor checks it.

**What is hard.** `push` and `commit` are `async fn`s on `&mut self`. One instance
never runs two of them at once, but each may end at any of its awaits: because
the store reports an error or because the caller drops the future. So: failures
and cancellation between two steps, partial writes, crashes, reopening at an older
size over entries of an abandoned suffix, retries. And other instances may share the
store: `MemStore` can be cloned, other backends can be opened twice. Such an
instance reads while this one writes, several positions at different moments. The
rest of the difficulty is
arithmetic - every algorithm finds its way by offsets - and protocol: the prover
and the verifier walk the same tree with a queue each and have to agree on the
order of a list of hashes that carry no labels.

**What makes each part correct.**

- *Position arithmetic*: the formulas describe the tree that pushes build, at
  every size, also in the middle of a push.
- *Batch and store*: whatever is pushed can be read, from the batch, the store or
  both; the two lookups agree; what was committed survives everything; `Ok` from
  `commit` means that all is in the store.
- *Sharing*: an instance at a committed size is answered from the log as it was at
  that size, whatever another one writes meanwhile.
- *MMR*: nodes are at the positions the arithmetic expects, each parent is the
  merge of its children, the root is the bagged peaks; a failed or dropped call
  leaves no trace; a reopened MMR has the root it had at that size.
- *Proofs*: a generated proof verifies, for exactly the proven leaves; a verifier
  with an older root can be convinced of what was added.
- *MMRIVER*: the same, and an accumulator is consistent exactly with those grown
  from it.

## 2. Modules

| Module | Role |
|---|---|
| `MergeTerms` | items and merging, as a free term algebra |
| `Positions` | every function and iterator of `helper.rs`, as operators |
| `Mountains` | a mountain range grown node by node: the reference for `Positions` |
| `Forest` | the nodes and the root over a list of leaves, without positions: the reference for `MMR` |
| `MMR` | the core: instance, batch and store; properties and inductive invariant |
| `NodeLog` | the abstract specification that `MMR` implements |
| `MCMMR` | `MMR` for TLC |
| `PositionsProofs` | induction, recursive functions that a loop computes, and what `Positions` returns: ranges, heights, leaf indices |
| `RowProofs` | what `Positions` says about a row of mountains, and about the way from a node to its peak |
| `MountainsProofs` | `Positions` describes the range of `Mountains`, at every size |
| `MMRProofs` | the inductive invariant of `MMR` and what follows from it: reads, the log, the tree node by node |
| `ForestProofs` | the whole tree and its root are those of `Forest` |
| `SharedStore` | `MMR` with other instances that read its store |
| `Snapshots` | the abstract specification of what these readers are promised |
| `MCSharedStore` | `SharedStore` for TLC, over a store already in use |
| `SharedStoreProofs` | theorems about `SharedStore`, with proofs |
| `InclusionProofs` | `MMR` with a prover, and the verifier's calculations |
| `MMRIVER` | the other instance type, over the same batch and store, and its proofs |
| `MCMMRIVER` | `MMRIVER` for TLC |
| `RiverProofs` | the same theorems about `MMRIVER`, and what its inclusion proofs prove |
| `ConsistencyProofs` | what its consistency proofs prove |

`Positions` and `MergeTerms` are extended by `Forest`, that by `MMR`, and `MMR` by
`MCMMR`, `SharedStore`, `InclusionProofs` and `MMRIVER`; `MCMMRIVER` extends `MCMMR` and
`MMRIVER`, `MCSharedStore` `MCMMR` and `SharedStore`. `MMR` instantiates `NodeLog`,
`SharedStore` `Snapshots`. The modules of theorems extend each other from
`PositionsProofs` through `RowProofs`, `MMRProofs` and `ForestProofs` to
`SharedStoreProofs` and to `RiverProofs`, and from there to `ConsistencyProofs`.
`MountainsProofs` extends `Mountains` and `RowProofs`.

**`MergeTerms`.** The library never inspects an item; it stores, compares and
merges items. An item is the prefix notation of the tree it commits to, as a
sequence: `<<d>>` for a leaf, `<<pos>> \o left \o right` for an inner node. Equal
items commit to the same data in the same shape - what `DigestMerge` provides if
its hash has no collisions; its prefix bytes 0x00/0x01 are the disjointness of
`Data` and `Nat`. `merge` passes position 0 to `merge_pos`, and `merge_peaks` is
`merge`, as the defaults of the trait are. A strategy that overrides them is not
covered.

**`Positions`.** Positions and bitmaps are naturals and never near 2^64. The scan
that `pos_height_in_tree`, `get_peak_map` and `PeaksIter` each spell out is one
operator, `Unscanned`. Iterators are the sequences they yield, and their `len()`
is a separate operator, because the code computes it separately. Recursion is by
recursive functions throughout, so that theorems can be about them.

**`Mountains`.** A state machine that adds a leaf, or a parent when the two last
roots are equally high, and writes down height, siblings and parents as they
arise. It uses no arithmetic on positions, so it can be held against formulas that
use nothing else. A model of no code, but the definition of what `helper.rs` is
to compute.

**`Forest`.** What a list of leaves should become. `Levels` pairs the nodes of each
height, from the leaves up. `Layout` lists all nodes: each leaf, followed by the nodes it
is the last leaf of, as many as its number can be halved. `Bagged` merges the
nodes that are left over at a height with what is bagged of the lower ones. No
position, size, stored node or peak iterator occurs in it. `LeavesOf` gives the leaves
among some nodes. Like `Mountains`, a model of no code.

**`MMR`.** State and code:

| Variable | Code |
|---|---|
| `store` | the map in `MemStore`, or another backend |
| `mmr_size`, `memory_batch` | the fields of `MMR` and `MMRBatch`; during a commit, what `drain(..)` still holds |
| `phase` | which `async` call is running |
| `elems`, `pos`, `peak` | the locals of `push` |
| `returned` | the last call's result |
| `content`, `durable`, `intact` | history, for properties only: what pushes produced, the size on record as committed, and whether no commit has failed since the instance was created |

| Action | Code |
|---|---|
| `PushBegin`, `PushRefused` | `push` up to the first await; `leaf_hash` failing |
| `PushMerge` | one iteration of its loop |
| `PushInconsistent`, `PushFail` | the left sibling is nowhere; the store or a merge fails, or the future is dropped at the await |
| `PushEnd` | the append to the batch and the assignment of `mmr_size` |
| `CommitBegin`, `CommitAppend`, `CommitEnd` | `commit`, one store append at a time |
| `CommitFail` | an append fails or is cancelled after any number of its elements was written; dropping the `Drain` empties the batch |
| `Restart(size)` | a crash at any moment, or `into_store`, then `MMR::new(size, store)` with a committed size, the last or an older one |

Reads (`get_elem`, `get_elems`, `find_elem`, `get_root`) take `&self` and are
operators on the state.

**`NodeLog`.** What batch and store promise together: a log that only grows, of
which a committed prefix survives; a failed commit can damage the rest, and only
reopening at a committed size repairs that. The refinement mapping reads the log
through `get_elem`, so writing the batch out is a stutter.

`MMRIVER` implements it too, by the same mapping.

**`SharedStore`.** The machine of `MMR` is the writer. Each reader is an instance
opened at a committed size over a clone of the store; it pushes nothing, so its
batch is empty and every position goes to the store.

| Action | Code |
|---|---|
| `WriterStep` | any step of `MMR`; that no open reader's size is above what is committed afterwards is the application's part |
| `ReaderOpen`, `ReaderClose` | `MMR::new(size, store)` (or `MMRIVER::new`); dropping it |
| `ReadBegin` | `MMRBatch::get_elems` up to its await, for what an instance reads in one go: a node (`gen_proof`), the peaks (`get_root`, `get_accumulator`), the siblings of a node (`gen_inclusion_proof`) or of all peaks of an earlier size (`gen_consistency_proof`); `results` is the vector of `None` it starts with |
| `ReadOne` | one of the `get_elem`s that the default `get_elems` of the trait joins is answered. The documentation calls them sequential, but `join_all` polls them all: any order |
| `ReadAll` | `MemStore::get_elems`: all positions under one lock |
| `ReadEnd`, `ReadLeave` | the results are complete; they are taken, or the read failed or was dropped |

Two rules are the application's, as the library has none: one instance writes at a
time (handing over is `Restart`), and it is not reopened below the size of a reader
that is still open. Without the second a reader at size 7 would see the nodes of
two histories; it is the conjunct `view[r] <= durable'` of `WriterStep`.

**`Snapshots`.** Readers with a snapshot each of a committed log: a question is
answered from it in one step. The mapping takes the committed prefix of `content`
for the log and an answer to exist when `get_elems` has returned, so `ReadEnd` is
the atomic answer and the single answers before it are stutters.

**`InclusionProofs`.** The walks of prover and verifier as recursive operators over
their queues, the item list being threaded through; `None` is any `Err` and `Panic`
an index out of bounds. A machine grows an MMR, takes a proof of any nonempty set of
its leaves at any time, and keeps it for at most one more push. Verification is
a calculation on that proof. Properties are evaluated for all the verifier's inputs
they quantify over, also wrong ones.

**`MMRIVER`.** In the code an `MMRIVER` has the fields of an `MMR` and forwards
`commit` to the same `MMRBatch`. So the module extends `MMR` and takes from it the
variables, the reads, `CommitBegin`, `CommitAppend`, `CommitFail`, `CommitEnd`,
`PushRefused` and `Restart`. Its own are `push` (`RiverPushBegin`,
`RiverPushMerge`, ..., with the locals `i` and `g`; `MMR::push`'s locals stay
unused), the accumulator and the proofs. The two reads of an iteration are joined,
so one action stands for both. A proof is a calculation on the state, and is
checked in the state where it is generated, also with other items, paths and positions
and against accumulators from earlier sizes. The paths of a consistency proof are read as one list (`consistency_paths`) and
cut apart again by their lengths (`Slice`), as in the code.

## 3. Runs

| Run | Question | Instance |
|---|---|---|
| `mountains` | Do the formulas of `helper.rs` describe the tree? | every size up to 255 nodes |
| `mmr` | Do reads, trees, every single node, roots and the committed prefix survive every mix of pushes, commits, failures, cancellations, crashes and rollbacks? Does `MMR` implement `NodeLog`? | two data, pushes start below size 4 |
| `mmr_live` | Do calls return? Do long pushes that end half way leave a trace? | one datum, pushes start below size 12 |
| `inclusion_proofs` | Do generated proofs verify, bind, and serve incremental verification? | every set of leaves at each of 8 sizes |
| `mmriver` | Does `MMRIVER` build the same tree under the same failures, and implement `NodeLog`? Do its calls return? | as `mmr_live` |
| `mmriver_proofs` | Are its root, inclusion proofs and consistency proofs right? | 16 leaves, all different, no failures; every node, every pair of sizes |
| `shared_store` | Does a reader of the store see one snapshot, the right root, and an end of each read, while the MMR is written, fails and is reopened? | one reader, two data, a store that starts with three leaves; pushes start below size 8, so sizes 4, 7 and 8 |
| `commit_retry` | *violation*: does `Ok` from `commit` mean that all is stored? | as `mmr` |
| `new_leaf_root` | *violation*: does `calculate_root_with_new_leaf` work from every proof? | as `inclusion_proofs` |
| `merge_pos` | *violation*: is `merge_pos` given the position of the parent? | three nodes |
| `peaks_len` | *violation*: is `len()` of at least one of the two peak iterators exact at every size? | as `mountains` |
| `commit_lock` | *violation*: does a commit hold the store's lock until all of it is written? | one datum, pushes start below size 3 |

**Bounds.** `MaxPositions = 255` passes eight perfect trees and every combination
of peaks below them, with the sizes just before and after. `MaxSize = 4` in
`mmr` allows three leaves: a push with and without a merge, two peaks, several
batch entries, and a whole second history over the entries of the first. Two data
suffice to tell an old item from a new one at the same position; they are
interchangeable, so they are a symmetry set (sound also for `IsNodeLog`, a safety
property that treats all items alike).

At that size a push merges once at most. `mmr_live` and `mmriver` have all the
failures with up to eight leaves and three merges in one push; there one datum is
enough, since the shape of a tree is in its items. Seven leaves are the least with
three peaks, which is where the order of bagging shows. In `inclusion_proofs` the
eighth push merges those peaks into one; `mmriver_proofs` goes on to 16 leaves,
where old accumulators of up to four peaks lead to one, two or three new ones. In
these two runs every leaf is different, so no property holds by two subtrees being
equal.

In `shared_store` the MMR is opened over a store that holds three leaves already and
is never reopened below them (`OpenedNext`; `SharedSpec` reaches that state by
pushing, committing and reopening). So readers have two peaks or two siblings to
read while further leaves are pushed, committed, half committed, rolled back and
replaced by others, in less than a tenth of the states that all histories up to
seven nodes have. Readers never touch each other's variables and only hold the
writer back, so what one of several readers sees one alone sees too; the theorem
is for any number.

Consistency proofs are checked from size zero too. `gen_consistency_proof` refuses
it, but `ConsistencyProof::new` accepts it. What happens then depends on the build,
which is the constant `OverflowChecks`: without checks, as in `mmriver_proofs`,
`mmr_size_from - 1` wraps, the `+ 1` of `PeaksMMRIVERIter::new` wraps back, and there
are no peaks; with them `verify` panics, which is the result `Panic`. The theorems are
about both builds, and `ConsistencyVerifies` claims nothing from size zero for the
second: that it panics there is known, and no property excludes it.

`mountains` turns the deadlock check off because its range stops at the bound. The
other machines never stop: calls can always fail or be started, or the store
reopened, or a proof dropped.

**Fairness.** `mmr_live` and `mmriver` assume weak fairness of the steps of a
running push and of a running commit: whoever starts an `async` call polls it
until it returns, and the store answers. Only the steps that get on with the call
are fair, not failing or being dropped: no call relies on an error to come to an
end. Nothing is assumed about starting calls, or about a retry ever succeeding.
`push` returns because its loop climbs mountains of the peak map, `commit` because
the batch gets shorter. `shared_store` assumes the same of a running read, and
nothing of the writer: `ReadsReturn` says that no reader waits for it.

**Mutants.** Each property of a passing run has a mutant of the code in the module
of the definition it changes (comment "Mutant: ..."), listed in `PROJECT.json`. With
it in place the property fails: an off-by-one in `left_pos`, a lookup that starts
with the store, swapped arguments of `merge_peaks`, a reversal that starts too late.

## 4. What the runs found

- **A retried commit loses data** (`commit_retry`, `mmr_store.rs:114`). `commit`
  iterates over `drain(..)`. When an append fails, or the future is dropped, the
  `Drain` is dropped with it and removes the entries that were not written. They
  are then in neither place, `mmr_size` still counts them, and a retry returns
  `Ok` without writing anything.
- **A new leaf's root from a bagged proof** (`new_leaf_root`, `mmr.rs:469`).
  `calculate_root_with_new_leaf` needs every peak's hash, but `gen_proof` bags the
  peaks to the right of the last proven leaf. If the new leaf merges with such
  peaks, the function runs out of items: with seven leaves and a proof from the first
  mountain it has two, that mountain and the bag of the others, where the eighth leaf
  needs three siblings, and it returns `Err(CorruptedProof)` (`mmr.rs:592`) for a
  proof that `verify` accepts. No other root is obtained. With the last leaf among
  the proven ones, as in the tests, it returns the right root (`NewLeafRootFromLast`).
- **`merge_pos` counts from one** (`merge_pos`, `mmriver.rs:154`). The trait
  documents its argument as the position of the parent; `MMRIVER` passes that
  position plus one, when it builds and when it verifies. The two agree, so no
  proof fails; an implementation of `Merge` that relies on the position would see
  another one.
- **`len()` of both peak iterators is wrong** (`peaks_len`, `helper.rs:168` and
  `235`), though both are `ExactSizeIterator`s. At four nodes neither is right, so
  the one run shows both. The library
  uses it only for capacities and for a comparison with zero.
- **A commit is not one critical section** (`commit_lock`, `mmr_store.rs:115`). The
  batch is said to allow "for holding a singular lock for multiple commits", but
  `commit` appends push by push and `MemStore` locks each append. Between two of
  them others can read the store. Readers at a committed size are not affected
  (`SnapshotReads`); one that took the store for as long as its entries would be.

`mmr_store.rs:157` also says that the default `get_elems` fetches sequentially, where
the code joins all futures. No run is about that; `SharedStore` has the order open,
and the properties hold for every order.

## 5. Proofs

All theorems hold for every `Data`, `None` and `MaxSize` that satisfy the assumptions
of `MergeTerms`, `MMR` and `MMRIVER` (data are not numbers; `None` is no item, no
sequence of items and no Boolean, as it stands for the errors of functions that return
these, and so is `Panic`; `MaxSize` is natural, `OverflowChecks` a Boolean), for any set
`Reader` and any `MaxPositions`. No run is needed for their truth; the runs check
the same formulas on small instances.

| Module | Theorem | Statement |
|---|---|---|
| `MMRProofs` | `TypeCorrect`, `InvariantHolds` | `Spec => []TypeOK`, `Spec => []IInv` |
| | `CommittedSurvives` | `Spec => []DurablePrefix` |
| | `LookupsAgree` | `Spec => []SameLookup` |
| | `ReadsSeePushes` | `Spec => []ReadYourWrites` |
| | `SiblingsFound` | `Spec => []PushFindsSiblings` |
| | `LogRefined` | `Spec => IsNodeLog` |
| | `TreesMerged` | `Spec => []NodesMerged` |
| `ForestProofs` | `TreeInShape` | `Spec => []TreeShape` |
| | `RootIsCorrect` | `Spec => []RootCorrect` |
| | `RecoveredRootIsCorrect` | `Spec => []RecoveredRootCorrect` |
| `SharedStoreProofs` | `SharedInvariantHolds` | `SharedSpec => []IInv` |
| | `ReadersSeeSnapshots` | `SharedSpec => []SnapshotReads` |
| | `SnapshotsRefined` | `SharedSpec => IsSnapshots` |
| | `ReaderRootIsCorrect` | `SharedSpec => []ReaderRootCorrect` |
| `RiverProofs` | `RiverInvariantHolds` | `RiverSpec => []RiverIInv` |
| | `RiverReadsSeePushes` | `ReadYourWrites`, `SameLookup` and `DurablePrefix`, of `RiverSpec` |
| | `ChildrenFound` | `RiverSpec => []RiverFindsChildren` |
| | `RiverLogRefined` | `RiverSpec => IsNodeLog` |
| | `RiverTreesMerged` | `RiverSpec => []RiverNodesMerged` |
| | `RiverTreeInShape`, `RiverRootIsCorrect` | `RiverSpec => []RiverTreeShape`, `RiverSpec => []RiverRootCorrect` |
| | `InclusionsVerify` | `RiverSpec => []InclusionVerifies` |
| | `InclusionsBind` | `RiverSpec => []InclusionBinds`, and the same of all positions, paths and items |
| `ConsistencyProofs` | `ConsistenciesVerify` | `RiverSpec => []ConsistencyVerifies` |
| | `ConsistenciesBindSizes` | `RiverSpec => []ConsistencyBindsSizes` |
| `PositionsProofs` | `HeightsSame` | the two height functions are equal at every position |
| `MountainsProofs` | `HeightsGrown` | `Spec => []HeightsAgree`, of the `Spec` of `Mountains` |
| | `PeaksGrown`, `RiverPeaksGrown` | `[]PeaksAgree`, `[]MMRIVERPeaksAgree` |
| | `LeafIndicesGrown` | `[]LeafIndicesAgree` |
| | `FamiliesGrown`, `PathsGrown` | `[]OffsetsLeadToFamily`, `[]PathsAgree` |

**The inductive invariant** (`MMRProofs`). `ReadYourWrites` is not inductive: `get_elem`
gives up at the first entry that starts at or below the position, and that this is the
right entry depends on how every entry got there. `IInv` adds what is needed:

- `ContentComplete`: the history covers `mmr_size`;
- `PushLocals`: a running push has `elems` for exactly the positions from `mmr_size`
  to `pos`, and `peak` is the bit of the last one's height. This is why `PushEnd` may
  set `mmr_size` from `pos` and append `elems` at the old size;
- `BatchOrdered`: entries ascend, do not overlap, lie above what is durable and
  below `mmr_size`. So at most one entry covers a position, and the newest entry
  that starts at or below it is that one: both lookups find the same;
- `BatchMatches`, `StoreMatches`: an entry holds what was pushed; a position that
  no entry holds is in the store, unless a commit has failed;
- `DurablePrefix`: kept because commits write only batch entries, all above it,
  and because a rollback lowers it before anything is overwritten.

The lemmas do not go by the actions of `MMR` but by `DataStep`: what a step does to
batch, store and history, which is a push, a step of a commit, a reopening or nothing.
The steps of `MMRIVER` are `DataStep`s too (`RiverDataStep`), so everything proved
of the data holds of it, and `RiverProofs` adds only what is about its locals
(`RiverPushLocals`, with `i` and `g` for `pos` and `peak`). `BatchShape` and `Lookup`
are the lemmas about the two searches, `InsertedChanges` the one about a store append.

**Siblings and children are found.** An `InconsistentStore` error without a failed
commit would need `left_pos` to be negative, or above the nodes there are. That it is
not takes the meaning of the peak map: a bit is set exactly if the scan took a mountain of
that height off (`PeakMapBits`), and then the size is at least that mountain
(`PeakFits`). For MMRIVER the same comes from `NodeHeight`: a node of height h has a
whole tree before it.

**The log** (`LogRefined`). The mapping reads every position through `get_elem`. What is
read at a position is a function of the history while no commit has failed and below
`durable` in any case (`ReadsAs`). So each kind of `DataStep` has a lemma: a push appends its
nodes, writing out an entry stutters, a failed commit damages, and so on. This also
says that a failed or dropped push leaves no trace, as it is a stutter.

**Readers** (`SharedStoreProofs`). A step of `SharedStore` is a step of `MMR` or leaves it
alone (`SharedRefinesMMR`). For `SnapshotReads`, `ReaderShape` is the strengthening: a
reader's size stays committed, and its locals fit together. Then a new answer is
right by `DurablePrefix` (`StoreHoldsView`), and an old one stays right because no
step changes `content` below what is durable before and after it (`ContentKept`).
`Snapshots` refuses questions at or above a reader's size, so `SnapshotsRefined` also needs that
`PeaksIter`, `PeaksMMRIVERIter` and `inclusion_proof_path` stay below the size they are
given (`RequestsRange`, from the range lemmas of `PositionsProofs`).

**The tree** (`TreesMerged`, `RiverTreesMerged`). `NodesMerged` says of each position whose content is not
in doubt (`Sound`) that it holds a leaf if its height is 0, and else the merge of the
nodes at the positions of its children. It relates what the loops of `push` do to the heights of `helper.rs`, which
they do not use, so it is not inductive. The strengthening is `TreeBuilt`, that the next
position is a leaf's whenever no push runs, together with `NewNodes`: the nodes of a running push
have heights 0, 1, 2, ... and are merged. A push that goes on makes the right node next
because of `NextIsParent`: after nodes of heights 0 to j the next one has height j + 1 exactly if
`PeakHeights` of the size before the push has j. A push that ends leaves a leaf to
come (`NextHeight`: what follows a node is its parent or a leaf). After a rollback
a leaf comes because the sizes on record are those of finished MMRs
(`LeafIndexHeight`). `RiverNodesMerged` uses the same lemmas; only the number that is hashed
differs, which is the parameter `at` of `TreeBuilt`.

**The whole tree and its root** (`ForestProofs`). `TreeBuilt` says of each node how it
follows from others, by position; `TreeShape` compares all of them with a list that
knows no positions. A list of nodes that satisfies the former at every position is a
forest (`IsForest`; `Numbered` if positions are hashed). Its length is the size
of some number m of leaves (`ForestSize`), and its items of length one are the nodes at
the positions of these leaves (`LeavesAre`). The connection is `RootAt(n, h)`, where
the root of height h lies that has n leaves on its left, n a multiple of `2^h`: by induction over the heights, the jth node of
`Levels(..)[h]` is the item at the root over its leaves (`LevelsAre`; `PairInForest` is one pair).
So each column of `Layout` is what stands in the list after each leaf (`ColumnInForest`), and the
list is the layout of its leaves (`LayoutIsForest`). For the root, `Yielded(n, k)`
says what `PeaksIter` yields of the mountains lower than k, which goes along with `Bags` height by height: a bit of m is
a mountain that the scan takes off (`PeakOfBit`), its root stands in front of the peaks
yielded before, and bagging another peak in front is one more merge (`PeakInFront`,
`BaggingGrows`, `RootIsBagged`).

Then `RootCorrect` is that every peak is read as it was pushed (`ReadsContent`),
`RecoveredRootCorrect` that a committed prefix of a forest, cut at a finished size, is a
forest (`PrefixIsForest`) and is in the store, and `ReaderRootCorrect` that a reader
whose read has returned holds all the peaks of such a prefix
(`ReaderStages`). For MMRIVER, erasing the positions of all nodes gives a forest over the same leaves
(`ErasedIsForest`, `ErasedLeaves`), and erasing commutes with bagging (`ErasedBag`).

**The range** (`MountainsProofs`). The claims of `Mountains` are about functions of a size,
and no step of the machine says what they return. So the proof is about rows (`RowProofs`): `Row(ps)`
says of a sequence of positions that each, with the height `helper.rs` gives it, is the
root of a mountain that starts where the one before ends, and that the heights fall, but
for the last two, which may be equal. Then the nodes after a mountain are
no more than its own, and as many only if a merge is due (`RestBounds`). That determines
the height of the node that follows the row (`HeightAfterRow`).
The invariants are built on each other:

- `Grown`: the peaks are a row that ends at `size`, and the heights written down are
  those of `helper.rs`. `PeaksMMRIVERIter` goes through such a row from the left.
- `Counted`: `2 * leaves = size + Len(peaks)`, as every merge removes a peak, and the
  sizes of the last leaf and of the settled range follow from their numbers of
  leaves. `leaf_index_to_pos` sums mountains over the bits of the index; that the sum
  has a closed form is `LeafPosition`.
- `Related`: a family is what the heights and offsets say.
- `ScanSettled`: the scan of a finished row takes off just its mountains (`RowScan`), and
  that of a size in the middle of a push the same as before the push, since a node
  that is no leaf adds nothing the scan could take off (`SameScan`).
- `Kin`: every node is a peak, or has its sibling and parent in the range. The sibling
  of a peak would lie outside (`PeaksHaveNoSibling`), so the walk of
  `inclusion_proof_path` goes on exactly as long as there is a family.

**Inclusion proofs** (`RiverProofs`). That a generated proof is accepted
(`InclusionsVerify`) takes two walks that must meet. The path of `inclusion_proof_path` is
the list of the siblings of a node's ancestors (`PathListsSiblings`, with `Ancestor` and
`SiblingAt`), and the ancestors stay inside the MMR until one of them is a peak
(`NodeClimbs`; its sibling would lie outside). `included_root` recalculates from heights
which way to go: `ClimbsBy` says of a sequence of items that each is the merge of the
one before and the next item of the path, in the order the position calls for, and there is only one such
sequence (`IncludedRootClimbs`). `RiverNodesMerged` says that the nodes on the way
are one.

That nothing else is accepted (`InclusionsBind`) needs that different trees have
different items. An item is a sequence in prefix notation, and prefix notation can be
read in one way only: count the terms that are still to come, one at first, one more
after each inner node, one fewer after each leaf, and a term ends where none is left for the first
time (`Term`, `TermsEnd`). So two equal merges are merges of
equal items with equal numbers (`MergeIsInjective`) and no merge is a leaf. From
a peak of the accumulator, each step of the climb is then undone the same
way as in the MMR: the number that is hashed is the position, so the climb that ends
at a peak's item went through the peak's own tree, took the
items of that tree, and began where it says (`ClimbBinds`). Only at length zero no position has been
hashed yet: an empty path is accepted for every peak at any position.
The theorem is about every position, every path of terms and every term; the run tries those there
are.

**Consistency proofs** (`ConsistencyProofs`). From an older size every old mountain lies
in a new one, and two next to each other in the same or in the next one
(`OldPeaksClimb`, from `MountainsInOrder` and `MountainsApart`). Each old peak is a node with an
inclusion proof, so all paths lead to peaks; the slices are those paths, because
the first k paths, joined, are as long as the offset of the next (`PathsCutAgain`).
Roots that follow each other differ if the peaks do (`PeaksDiffer`: equal neighbours would be leaves, and
only one peak is), so the loop over them keeps a beginning of the new accumulator
(`OldPeaksLead`), which `idx` goes through without a gap (`BeginningInOrder`).

For `ConsistenciesBindSizes` a proof that is accepted leads every old item to one of the
accumulator (`AcceptedLeads`, through both loops, whatever they are given). If the path of an
old peak is not empty, the item must be the node at that peak (`OldPeakBinds`, from
`ClimbBinds`). If it is empty, the item is some peak of the new MMR, and which one follows from
where its mountain begins: the two rows have the same length, and were the same up to
there. So the rows are the same (`SameRowSameSize`). The property assumes that no two
leaves are equal, and has to: of an MMR of size 4 whose last leaf equals its first, the
proof from size 3 is accepted with the accumulator of size 1 too. `InclusionBinds`
assumes nothing of the kind.

**Induction without operator parameters.** The library's induction theorems take a
predicate, which the provers here cannot instantiate. `PositionsProofs` takes sets
instead: `SetInduction` and `LeastNat` for the set of the numbers that have a property, and `LoopHasResult` for
recursive functions: if every iteration of a loop lowers a natural number, there is a
function that satisfies the recursive equation, so the `CHOOSE` of the definition
finds one. `TreeInduction` goes over positions the way the tree is built: from the
root of a perfect tree to the next higher one, and from the first tree of some height to the
second. `BitInduction` goes over numbers by their highest bit.

**Only model-checked.**

- Liveness (`CallsReturn`, `ReadsReturn`): fairness and `ENABLED` are out of the
  prover's reach.
- The properties of `InclusionProofs` (`ProofVerifies`, `ProofBindsLeaves`,
  `IncrementalVerifies`, `NewLeafRootFromLast`): its walks with their queues are
  `RECURSIVE` operators, which tlapm does not take.

## 6. Not modelled

- The width of `u64`: sizes near 2^63 are out of reach of any store, but `index + 1`
  and `2 << height` do wrap there.
- `DigestMergeUnsafe`, overridden `merge_peaks`, and hash collisions.
- Two instances that write one store at a time, which overwrite each other's nodes,
  and readers that outlive a rollback below their size: nothing in the library
  detects either, and nothing is promised. A write that reaches a backend
  only after its future was dropped.
- Readers that push without committing. Their batch lies above their size and
  shadows nothing they read below it.
- That a proof is for one *position* only. `merge` ignores positions, and
  the verifier accepts a list of items that ends early; nothing is claimed
  about a proof presented with leaves at other positions.
- What `MMRIVER`'s verifiers do with proofs and accumulators that no MMRIVER
  produced. A proof's `index` is a node position in the code, which calls it a leaf
  index; the model takes positions, of leaves and of other nodes.
- Which error a refused call reports: all are `None`. (`gen_proof` documents
  `StoreError` for missing nodes and returns `InconsistentStore`, `mmr.rs:291`;
  `verify_incremental` wraps a corrupted proof in `MergeError`, `mmr.rs:551`.) Error
  conversions, `serde`, features.

## 7. Plan

Done, in this order: arithmetic and its reference; batch, store and MMR with
failures; the abstract log; the inductive invariant and its proof; inclusion
proofs; MMRIVER and its proofs; readers of a shared store and their abstract
specification; the theorems of section 5, those about the proofs of MMRIVER last.
What is left is listed there as only model-checked.
