---------------------------- MODULE FootageCopies ----------------------------
(***************************************************************************)
(* What archive-before-delete promises about the media itself, whatever    *)
(* the catalogue says: the local copy of a segment is given up only while  *)
(* an archived copy exists, or after the operator's policy waived that     *)
(* requirement when the deletion was decided.                              *)
(***************************************************************************)
CONSTANTS Segments, Remotes, Local

VARIABLES
  kept,     \* kept[s]: the places that hold the complete media of s
  waived,   \* waived[s]: a deletion was decided without the archive rule
  rule      \* archive-before-delete is in force

vars == <<kept, waived, rule>>

TypeOK ==
  /\ kept \in [Segments -> SUBSET (Remotes \cup {Local})]
  /\ waived \in [Segments -> BOOLEAN]
  /\ rule \in BOOLEAN

Init ==
  /\ kept = [s \in Segments |-> {Local}]
  /\ waived = [s \in Segments |-> FALSE]
  /\ rule \in BOOLEAN

\* Another place receives the media, from the local copy.
Archive(s, r) ==
  /\ Local \in kept[s]
  /\ kept' = [kept EXCEPT ![s] = @ \cup {r}]
  /\ UNCHANGED <<waived, rule>>

Waive(s) ==
  /\ ~rule
  /\ waived' = [waived EXCEPT ![s] = TRUE]
  /\ UNCHANGED <<kept, rule>>

Release(s) ==
  /\ Local \in kept[s]
  /\ waived[s] \/ kept[s] # {Local}
  /\ kept' = [kept EXCEPT ![s] = @ \ {Local}]
  /\ UNCHANGED <<waived, rule>>

EditRule ==
  /\ rule' = ~rule
  /\ UNCHANGED <<kept, waived>>

Next ==
  \/ \E s \in Segments : Waive(s) \/ Release(s) \/ \E r \in Remotes : Archive(s, r)
  \/ EditRule

Spec == Init /\ [][Next]_vars

\* No segment loses its last copy unless the rule was waived for it.
NeverLost == \A s \in Segments : kept[s] # {} \/ waived[s]
=============================================================================
