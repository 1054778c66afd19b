---------------------------- MODULE RotationPlan ----------------------------
(***************************************************************************)
(* What a retention policy keeps of the backups of one repository          *)
(* (packages/backup/src/rotation/policy.ts): the rules, the chains a kept  *)
(* backup needs, and the size limit that drops the oldest ones.            *)
(*                                                                         *)
(* Ids are numbers in the order the backups were created: an id starts     *)
(* with the time of its create, and `createdAt' is that time.  `c' is a    *)
(* set of candidates by id, each with                                      *)
(*   age      how long ago it was created, below zero when it is newer     *)
(*            than `now'                                                   *)
(*   parent   the id it builds on, NoBackup for a full one                 *)
(*   size     its stored bytes                                             *)
(*   held     under a legal hold                                           *)
(*   standIn  it stands in for a backup whose manifest does not read       *)
(* A policy has one field per rule, Off for a rule it does not name.  The  *)
(* five calendar rules differ by their period only: one stands for them.   *)
(***************************************************************************)
EXTENDS Integers, FiniteSets

CONSTANTS
  NoBackup,      \* no parent
  Off,           \* a rule the policy does not name
  Period(_)      \* the calendar period of an age

ASSUME PlanAssumption == NoBackup = 0 /\ Off \notin Nat

\* Finitely many; what one builds on is older, as its manifest, or its stand-in,
\* says; and a stand-in is held.
IsCandidates(c) ==
  /\ IsFiniteSet(DOMAIN c) /\ DOMAIN c \subseteq Nat
  /\ \A i \in DOMAIN c :
       /\ c[i].age \in Int /\ c[i].held \in BOOLEAN /\ c[i].standIn \in BOOLEAN
       /\ c[i].parent \in DOMAIN c => c[i].parent < i
       /\ c[i].standIn => c[i].held

\* A whole number for each rule that is set.
IsPolicy(p) == \A rule \in {p.last, p.calendar, p.within, p.maxTotalSize} : rule \in Nat \cup {Off}

\* The newest or the oldest of a set of ids.
Newest(ids) == CHOOSE i \in ids : \A j \in ids : j <= i
Oldest(ids) == CHOOSE i \in ids : \A j \in ids : i <= j

NewerOf(ids, i) == {j \in ids : j > i}

NewestFirst(ids) ==
  [n \in 1 .. Cardinality(ids) |-> CHOOSE i \in ids : Cardinality(NewerOf(ids, i)) = n - 1]

\* A rule's number, zero for a rule that is not set.
Count(rule) == IF rule = Off THEN 0 ELSE rule

\* A mistake: a backup newer than now counts, and pushes a real one out.
BadPast(c) == {i \in DOMAIN c : ~c[i].standIn}

\* The backups the rules count: neither stand-ins nor newer than now.
Past(c) == {i \in DOMAIN c : ~c[i].standIn /\ c[i].age >= 0}

\* The first n of the newest-first order.
FirstOf(ids, n) == {i \in ids : Cardinality(NewerOf(ids, i)) < n}

\* The newest backup of each of the n most recent periods that have one.
NewestPerPeriod(c, n) ==
  {i \in Past(c) :
     LET newer == {Period(c[j].age) : j \in NewerOf(Past(c), i)}
     IN  Period(c[i].age) \notin newer /\ Cardinality(newer) < n}

ByRules(c, p) ==
  LET past == Past(c)
  IN  FirstOf(past, IF p.maxTotalSize # Off /\ p.last = Off THEN 1 ELSE Count(p.last))
      \cup NewestPerPeriod(c, Count(p.calendar))
      \cup {i \in DOMAIN c : p.within # Off /\ c[i].age \in 0 .. p.within}
      \cup {i \in DOMAIN c : c[i].age < 0 \/ c[i].held}

\* A backup and those of the candidates it builds on.
ChainOf(c) ==
  LET chain[i \in DOMAIN c] ==
        {i} \cup IF c[i].parent \in DOMAIN c /\ c[i].parent < i
                 THEN chain[c[i].parent] ELSE {}
  IN  chain

\* `roots', with every backup one of them builds on.
WithParents(c, roots) == UNION {ChainOf(c)[i] : i \in roots}

SizeOf(c, ids) ==
  LET total[n \in Nat] ==
        IF n = 0 THEN 0 ELSE total[n - 1] + IF n \in ids THEN c[n].size ELSE 0
  IN  IF ids = {} THEN 0 ELSE total[Newest(ids)]

\* What the size rule may still drop.
Droppable(c, p, kept) ==
  kept \ (FirstOf(Past(c), IF p.last = Off THEN 1 ELSE p.last)
          \cup {i \in DOMAIN c : c[i].held \/ c[i].age < 0}
          \cup {c[k].parent : k \in kept})

TooLarge(c, p, kept) == p.maxTotalSize # Off /\ SizeOf(c, kept) > p.maxTotalSize

\* What the size rule drops, the oldest first, until the rest fits.  Each turn
\* drops one more candidate or none, so there are no more turns than candidates.
Dropped(c, p) ==
  LET dropped[n \in Nat] ==
        IF n = 0 THEN {}
        ELSE LET kept == WithParents(c, ByRules(c, p) \ dropped[n - 1])
                 next == Droppable(c, p, kept)
             IN  IF TooLarge(c, p, kept) /\ next # {}
                 THEN dropped[n - 1] \cup {Oldest(next)} ELSE dropped[n - 1]
  IN  dropped[Cardinality(DOMAIN c)]

Kept(c, p) == WithParents(c, ByRules(c, p) \ Dropped(c, p))

Removed(c, p) == DOMAIN c \ Kept(c, p)

\* What is kept is still over the size the policy sets.
OverSize(c, p) == TooLarge(c, p, Kept(c, p))

=============================================================================
