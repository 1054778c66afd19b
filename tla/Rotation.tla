------------------------------ MODULE Rotation ------------------------------
(***************************************************************************)
(* One dry run of prune (packages/backup/src/rotation/prune.ts) over any   *)
(* repository and policy: the plan, and what the rotation guide says of    *)
(* it, whatever the candidates.                                            *)
(***************************************************************************)
EXTENDS RotationPlan

CONSTANTS
  Repositories,  \* what a repository may hold: candidates by id
  Policies       \* the policies a caller may give

ASSUME RotationAssumption ==
  (\A c \in Repositories : IsCandidates(c)) /\ (\A p \in Policies : IsPolicy(p))

VARIABLES candidates, policy, kept

vars == <<candidates, policy, kept>>

Undecided == {NoBackup}

Init == candidates \in Repositories /\ policy \in Policies /\ kept = Undecided

Decide ==
  /\ kept = Undecided
  /\ kept' = Kept(candidates, policy)
  /\ UNCHANGED <<candidates, policy>>

Spec == Init /\ [][Decide]_vars

Decided == kept # Undecided

\* What no rule may take, the size rule included: a held backup, one whose
\* manifest does not read, one newer than now, and the newest `last' of the
\* others - or the newest, where a size is set without `last'.  And no kept backup
\* loses one it builds on: it could not be restored without it (policy.ts,
\* withParents, and the size rule's droppable).
KeepsPromised ==
  Decided =>
    LET real == {i \in DOMAIN candidates :
                   candidates[i].age >= 0 /\ ~candidates[i].standIn}
        n    == IF policy.last # Off THEN policy.last
                ELSE IF policy.maxTotalSize # Off THEN 1 ELSE 0
    IN  \A i \in DOMAIN candidates :
          /\ \/ i \in kept
             \/ /\ i \in real /\ ~candidates[i].held
                /\ Cardinality({j \in real : j > i}) >= n
          /\ (i \in kept /\ candidates[i].parent \in DOMAIN candidates)
               => candidates[i].parent \in kept

=============================================================================
