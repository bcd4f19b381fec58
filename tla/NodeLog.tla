------------------------------ MODULE NodeLog ------------------------------
(***************************************************************************)
(* What an MMR instance and its store promise together, whatever the batch *)
(* does: a log of nodes that only grows, of which a committed prefix       *)
(* survives everything.                                                    *)
(*                                                                         *)
(* A failed commit may lose or garble nodes, but none of that prefix; and  *)
(* the only way back to an undamaged log is to reopen the store at a size  *)
(* that was committed.                                                     *)
(***************************************************************************)
EXTENDS Naturals, Sequences

CONSTANT Value   \* what reading a position may give

VARIABLES
  log,      \* what each position below the size reads as
  durable,  \* the length of the prefix that survives
  damaged   \* a commit has failed since the store was opened

logVars == <<log, durable, damaged>>

Agree(s, t, n) == \A i \in 1..n : s[i] = t[i]

Init == log = <<>> /\ durable = 0 /\ damaged = FALSE

Grow ==
  /\ log' \in Seq(Value)
  /\ Len(log') > Len(log)
  /\ Agree(log', log, Len(log))
  /\ UNCHANGED <<durable, damaged>>

Persist ==
  /\ ~damaged
  /\ durable' = Len(log)
  /\ UNCHANGED <<log, damaged>>

Damage ==
  /\ log' \in Seq(Value)
  /\ Len(log') = Len(log)
  /\ Agree(log', log, durable)
  /\ damaged' = TRUE
  /\ UNCHANGED durable

Reopen ==
  \E n \in 0..durable :
    /\ log' = SubSeq(log, 1, n)
    /\ durable' = n
    /\ damaged' = FALSE

Next == Grow \/ Persist \/ Damage \/ Reopen

Spec == Init /\ [][Next]_logVars

=============================================================================
