--------------------------- MODULE MCSharedStore ---------------------------
(***************************************************************************)
(* Module SharedStore for model checking.  The MMR is opened over a store  *)
(* that already holds the nodes of some leaves, so that readers have       *)
(* several peaks to read while it writes.                                  *)
(***************************************************************************)
EXTENDS MCMMR, SharedStore

CONSTANT FirstLeaves   \* bound: the MMR is never reopened at fewer leaves

ASSUME FirstLeavesAssumption == FirstLeaves \in Seq(Data) \ {<<>>}

FirstNodes == Layout([k \in DOMAIN FirstLeaves |-> leaf_hash(FirstLeaves[k])])

\* What SharedSpec reaches by pushing and committing the first leaves and
\* reopening.
OpenedInit ==
  /\ store = [p \in 0..(Len(FirstNodes) - 1) |-> FirstNodes[p + 1]]
  /\ mmr_size = Len(FirstNodes)
  /\ memory_batch = <<>>
  /\ phase = "idle"
  /\ elems = <<>> /\ pos = 0 /\ peak = 1
  /\ returned = "none"
  /\ content = FirstNodes
  /\ durable = Len(FirstNodes)
  /\ intact = TRUE
  /\ ReadersInit

OpenedNext == SharedNext /\ durable' >= Len(FirstNodes)

OpenedSpec == OpenedInit /\ [][OpenedNext]_sharedVars /\ ReaderFairness

TwoAndOne == CHOOSE leaves \in [1..3 -> Data] : leaves[1] # leaves[2]

=============================================================================
