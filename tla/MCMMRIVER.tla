----------------------------- MODULE MCMMRIVER -----------------------------
(***************************************************************************)
(* Module MMRIVER for model checking.                                      *)
(***************************************************************************)
EXTENDS MCMMR, MMRIVER

\* "pos: The position of the parent node in the MMR" (Merge::merge_pos).
MergedAtPosition ==
  intact =>
    \A p \in DOMAIN content : IsLeaf(content[p]) \/ Head(content[p]) = p - 1

-----------------------------------------------------------------------------
(* Growth without failures, for the proofs.                                *)

RiverGrowth ==
  \/ RiverPushBegin(FreshData)
  \/ RiverPushMerge
  \/ RiverPushEnd
  \/ (CommitBegin \/ CommitAppend \/ CommitEnd) /\ UNCHANGED <<i, g>>

RiverGrowthSpec == RiverInit /\ [][RiverGrowth]_riverVars

=============================================================================
