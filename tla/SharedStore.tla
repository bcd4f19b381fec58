---------------------------- MODULE SharedStore ----------------------------
(***************************************************************************)
(* Readers beside the MMR of module MMR.  MemStore can be cloned "enabling *)
(* MMR instances to share storage" (src/util.rs), and any other backend    *)
(* can be opened twice.  A reader is an instance opened over such a clone  *)
(* at a committed size; it pushes nothing, so its batch is empty.  A read  *)
(* takes positions to get_elems, and what the store answers depends on how *)
(* it implements that: MemStore holds its lock for all of them, the        *)
(* default of the trait joins one get_elem per position, and between any   *)
(* two of those answers the MMR may push, commit, fail, crash and restart. *)
(*                                                                         *)
(* One MMR writes at a time, and it is not reopened below the size of a    *)
(* reader that is still open: both are up to the application.              *)
(***************************************************************************)
EXTENDS MMR, SequencesExt

CONSTANT Reader

VARIABLES
  stage,    \* "closed", "open", "reading" (get_elems has not returned), "done"
  view,     \* the reader's mmr_size
  wanted,   \* get_elems' locals: the positions,
  missing,  \* the indices the store has not answered yet,
  results   \* and what it has answered so far

readerVars == <<stage, view, wanted, missing, results>>
sharedVars == <<vars, readerVars>>

ReadersInit ==
  /\ stage = [r \in Reader |-> "closed"]
  /\ view = [r \in Reader |-> 0]
  /\ wanted = [r \in Reader |-> <<>>]
  /\ missing = [r \in Reader |-> {}]
  /\ results = [r \in Reader |-> <<>>]

SharedInit == Init /\ ReadersInit

-----------------------------------------------------------------------------

WriterStep ==
  /\ Next
  /\ \A r \in Reader : view[r] <= durable'
  /\ UNCHANGED readerVars

ReaderOpen(r) ==
  /\ stage[r] = "closed"
  /\ \E size \in FinishedSizes :
       size \in 1..durable /\ view' = [view EXCEPT ![r] = size]
  /\ stage' = [stage EXCEPT ![r] = "open"]
  /\ UNCHANGED <<vars, wanted, missing, results>>

\* What an instance of this size reads in one go: a node (gen_proof), the peaks
\* (get_root, get_accumulator), the siblings of a node (gen_inclusion_proof), or
\* those of the peaks of an earlier size (gen_consistency_proof).
Requests(size) ==
  LET positions == 0..(size - 1)
  IN  ({<<p>> : p \in positions}
         \cup {PeaksIter(size)}
         \cup {inclusion_proof_path(p, size - 1) : p \in positions}
         \cup {FlattenSeq(consistency_paths(from, size)) :
                 from \in FinishedSizes \cap 1..size}) \ {<<>>}

\* The batch has none of the positions, so all are missing.
ReadBegin(r) ==
  /\ stage[r] = "open"
  /\ \E positions \in Requests(view[r]) :
       /\ wanted' = [wanted EXCEPT ![r] = positions]
       /\ missing' = [missing EXCEPT ![r] = DOMAIN positions]
       /\ results' = [results EXCEPT ![r] = [k \in DOMAIN positions |-> None]]
  /\ stage' = [stage EXCEPT ![r] = "reading"]
  /\ UNCHANGED <<vars, view>>

\* Mutant: results are collected in the order in which they arrive.
ReadOne_arrivalOrder(r) ==
  \E k \in missing[r] :
    LET arrived == Len(wanted[r]) - Cardinality(missing[r])
    IN  /\ stage[r] = "reading"
        /\ results' = [results EXCEPT ![r][arrived + 1] = StoreGet(wanted[r][k])]
        /\ missing' = [missing EXCEPT ![r] = @ \ {k}]
        /\ UNCHANGED <<vars, stage, view, wanted>>

\* Mutant: the store is locked from the beginning to the end of a commit.
ReadOne_locked(r) ==
  \E k \in missing[r] :
    /\ stage[r] = "reading"
    /\ phase # "committing"
    /\ results' = [results EXCEPT ![r][k] = StoreGet(wanted[r][k])]
    /\ missing' = [missing EXCEPT ![r] = @ \ {k}]
    /\ UNCHANGED <<vars, stage, view, wanted>>

\* One of the joined get_elem answers; join_all polls them all, so in any order.
ReadOne(r) ==
  \E k \in missing[r] :
    /\ stage[r] = "reading"
    /\ results' = [results EXCEPT ![r][k] = StoreGet(wanted[r][k])]
    /\ missing' = [missing EXCEPT ![r] = @ \ {k}]
    /\ UNCHANGED <<vars, stage, view, wanted>>

\* Mutant: missing_indices and the fetched items are not in the same order.
ReadAll_reversed(r) ==
  /\ stage[r] = "reading"
  /\ missing[r] = DOMAIN wanted[r]
  /\ results' = [results EXCEPT ![r] =
                   [k \in DOMAIN wanted[r] |->
                      StoreGet(wanted[r][Len(wanted[r]) + 1 - k])]]
  /\ missing' = [missing EXCEPT ![r] = {}]
  /\ UNCHANGED <<vars, stage, view, wanted>>

\* MemStore answers all positions under one lock.
ReadAll(r) ==
  /\ stage[r] = "reading"
  /\ missing[r] = DOMAIN wanted[r]
  /\ results' = [results EXCEPT ![r] =
                   [k \in DOMAIN wanted[r] |-> StoreGet(wanted[r][k])]]
  /\ missing' = [missing EXCEPT ![r] = {}]
  /\ UNCHANGED <<vars, stage, view, wanted>>

\* get_elems has all results.
ReadEnd(r) ==
  /\ stage[r] = "reading"
  /\ missing[r] = {}
  /\ stage' = [stage EXCEPT ![r] = "done"]
  /\ UNCHANGED <<vars, view, wanted, missing, results>>

\* The locals of a read go out of scope.
ForgetRead(r) ==
  /\ wanted' = [wanted EXCEPT ![r] = <<>>]
  /\ missing' = [missing EXCEPT ![r] = {}]
  /\ results' = [results EXCEPT ![r] = <<>>]

\* The caller takes the result; or the store reports an error, and what else it
\* answered is dropped; or the future is dropped.
ReadLeave(r) ==
  /\ stage[r] \in {"reading", "done"}
  /\ stage' = [stage EXCEPT ![r] = "open"]
  /\ ForgetRead(r)
  /\ UNCHANGED <<vars, view>>

ReaderClose(r) ==
  /\ stage[r] = "open"
  /\ stage' = [stage EXCEPT ![r] = "closed"]
  /\ view' = [view EXCEPT ![r] = 0]
  /\ UNCHANGED <<vars, wanted, missing, results>>

-----------------------------------------------------------------------------

\* What a read that is polled does if the store answers.
ReadStep(r) == ReadOne(r) \/ ReadAll(r) \/ ReadEnd(r)

ReaderStep(r) ==
  \/ ReaderOpen(r)
  \/ ReadBegin(r)
  \/ ReadStep(r)
  \/ ReadLeave(r)
  \/ ReaderClose(r)

SharedNext == WriterStep \/ \E r \in Reader : ReaderStep(r)

SharedSpec == SharedInit /\ [][SharedNext]_sharedVars

\* Nothing is assumed of the writer: a reader waits for no commit.
ReaderFairness == \A r \in Reader : WF_sharedVars(ReadStep(r))

SharedFairSpec == SharedSpec /\ ReaderFairness

-----------------------------------------------------------------------------
(* Properties.                                                             *)

\* Every answer so far is what the MMR had at that position when it had the
\* reader's size, although single answers come at different times and the MMR is
\* written, fails, crashes and is reopened in between.
SnapshotReads ==
  \A r \in Reader : \A k \in DOMAIN wanted[r] \ missing[r] :
    wanted[r][k] \in 0..(view[r] - 1) =>
      results[r][k] = content[wanted[r][k] + 1]

\* get_root of a reader is the root that the MMR had at the reader's size, even
\* if its peaks were read before, during and after several commits.
ReaderRootCorrect ==
  \A r \in Reader :
    stage[r] = "done" /\ wanted[r] = PeaksIter(view[r]) =>
      bag_rhs_peaks(results[r]) = Bagged(LeavesOf(SubSeq(content, 1, view[r])))

\* get_elems over a store that others write behaves as if it read a snapshot of
\* the committed log in one step.  It is asked for no position beyond its size,
\* and its results are in the order of the positions.
View == INSTANCE Snapshots WITH
          Value <- Item,
          log <- SubSeq(content, 1, durable),
          asked <- wanted,
          answer <- [r \in Reader |-> IF stage[r] = "done" THEN results[r] ELSE <<>>]

IsSnapshots == View!Spec

\* A read ends, whatever the writer does.
ReadsReturn ==
  \A r \in Reader : stage[r] = "reading" ~> stage[r] # "reading"

\* "Batching allows for holding a singular lock for multiple commits" (MMRBatch):
\* no other instance gets hold of the store when a part of a commit is in it.
CommitUnderOneLock ==
  phase = "committing" /\ intact /\ memory_batch # <<>> =>
    \A p \in durable..(mmr_size - 1) :
      \E entry \in DOMAIN memory_batch : p \in Extent(memory_batch[entry])

=============================================================================
