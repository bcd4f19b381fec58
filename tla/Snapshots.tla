----------------------------- MODULE Snapshots -----------------------------
(***************************************************************************)
(* What readers of a shared store are promised: each has a snapshot of the *)
(* committed log, and is answered from it as if at once, however long the  *)
(* answer takes and whatever is written in the meantime.                   *)
(***************************************************************************)
EXTENDS Naturals, Sequences

CONSTANTS Value, Reader

VARIABLES
  log,     \* what is committed
  view,    \* the length of each reader's snapshot
  asked,   \* the positions each has asked for, counted from zero
  answer   \* what it was answered, <<>> before that

snapshotVars == <<log, view, asked, answer>>

Nothing == [r \in Reader |-> <<>>]

\* The store may have been in use before.
Init ==
  /\ log \in Seq(Value)
  /\ view = [r \in Reader |-> 0]
  /\ asked = Nothing
  /\ answer = Nothing

\* The log grows, or is cut back and grows again, but under no snapshot.
Write ==
  /\ log' \in Seq(Value)
  /\ \A r \in Reader :
       view[r] <= Len(log') /\ \A i \in 1..view[r] : log'[i] = log[i]
  /\ UNCHANGED <<view, asked, answer>>

Open(r) ==
  /\ asked[r] = <<>>
  /\ \E n \in 0..Len(log) : view' = [view EXCEPT ![r] = n]
  /\ UNCHANGED <<log, asked, answer>>

Ask(r) ==
  /\ asked[r] = <<>>
  /\ asked' = [asked EXCEPT ![r] = asked'[r]]
  /\ asked'[r] \in Seq(0..(view[r] - 1))
  /\ UNCHANGED <<log, view, answer>>

Answer(r) ==
  /\ answer[r] = <<>>
  /\ answer' = [answer EXCEPT ![r] = [k \in DOMAIN asked[r] |-> log[asked[r][k] + 1]]]
  /\ UNCHANGED <<log, view, asked>>

\* The reader takes its answer, or gives up waiting for it.
Forget(r) ==
  /\ asked' = [asked EXCEPT ![r] = <<>>]
  /\ answer' = [answer EXCEPT ![r] = <<>>]
  /\ UNCHANGED <<log, view>>

Next == Write \/ \E r \in Reader : Open(r) \/ Ask(r) \/ Answer(r) \/ Forget(r)

Spec == Init /\ [][Next]_snapshotVars

=============================================================================
