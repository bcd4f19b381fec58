------------------------------- MODULE MCMMR -------------------------------
(***************************************************************************)
(* Module MMR for model checking.                                          *)
(***************************************************************************)
EXTENDS MMR, TLC

\* Different data for every leaf, where no two subtrees are to be equal.
FreshData == CHOOSE d \in Data : \A k \in DOMAIN content : content[k] # leaf_hash(d)

DataSymmetry == Permutations(Data)

=============================================================================
