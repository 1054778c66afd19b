---------------------------- MODULE GroupedQueue ----------------------------
(***************************************************************************)
(* The groups of a queue (packages/redis/src/queue/scripts/groups), as the *)
(* scripts of the store keep them: each script is one atomic step.  The    *)
(* jobs of a group wait in a list of their own beside `ready', a counter   *)
(* says how many of them run, and the groups that may start one wait their *)
(* turn.  What JobStore models (tokens, leases, attempts, retention, wake  *)
(* tokens) is left out.                                                    *)
(*                                                                         *)
(* Processes may be bound with other definitions than the queue started    *)
(* with: the first script of all writes the mode, and every script reads   *)
(* it before it writes.                                                    *)
(***************************************************************************)
EXTENDS Naturals, Sequences, FiniteSets

CONSTANTS
  Members,      \* the jobs
  Groups,       \* the named groups
  Default,      \* the group of the jobs that name none: it has no cap and no counter
  Belongs,      \* the group each job is added with
  Definitions,  \* the definitions processes are bound with
  MaxClaim      \* how many jobs a claim asks for

ASSUME GroupedQueueAssumption ==
  /\ Default \notin Groups /\ Belongs \in [Members -> Groups \cup {Default}]
  /\ IsFiniteSet(Members) /\ Definitions \subseteq [grouped : BOOLEAN, cap : Nat] /\ MaxClaim \in Nat \ {0}

VARIABLES
  queue,   \* what Redis holds of the queue
  paused

groupVars == <<queue, paused>>

AnyGroup == Groups \cup {Default}

\* No mode is written yet.
Unset == {}

Places == {"none", "ready", "delayed", "active", "failed"}

Lines == UNION { [1 .. n -> Members] : n \in 0 .. Cardinality(Members) }

\* place: the job hash's state and the set it is in; group: its group field;
\* line: group:<g>:ready; held: group:<g>:active; turns and queued:
\* groups:ready and groups:queued; mode: groups:mode.
Queues == [place : [Members -> Places], group : [Members -> AnyGroup], ready : Lines,
           line : [AnyGroup -> Lines], held : [Groups -> 0 .. Cardinality(Members)],
           turns : Seq(AnyGroup), queued : SUBSET AnyGroup, mode : SUBSET Definitions]

GroupsInit ==
  /\ queue = [place |-> [j \in Members |-> "none"], group |-> [j \in Members |-> Default],
              ready |-> <<>>, line |-> [g \in AnyGroup |-> <<>>],
              held |-> [g \in Groups |-> 0], turns |-> <<>>, queued |-> {}, mode |-> Unset]
  /\ paused = FALSE

(***************************************************************************)
(* GROUP_FN                                                                *)
(***************************************************************************)

HasSlot(q, d, g) == g = Default \/ d.cap = 0 \/ q.held[g] < d.cap

Queue(q, g) ==
  IF g \in q.queued THEN q ELSE [q EXCEPT !.queued = @ \cup {g}, !.turns = Append(@, g)]

ReadyAdd(q, d, j) ==
  LET g == q.group[j]
      p == [q EXCEPT !.place[j] = "ready", !.ready = Append(@, j)]
      m == [p EXCEPT !.line[g] = Append(@, j)]
  IN  IF ~d.grouped THEN p ELSE IF HasSlot(q, d, g) THEN Queue(m, g) ELSE m

\* A sorted set without a member, which it may not have.
Without(s, j) ==
  LET at == CHOOSE i \in DOMAIN s : s[i] = j
  IN  IF \A i \in DOMAIN s : s[i] # j THEN s
      ELSE [i \in 1 .. Len(s) - 1 |-> IF i < at THEN s[i] ELSE s[i + 1]]

ReadyRem(q, d, j) ==
  LET p == [q EXCEPT !.ready = Without(@, j)]
  IN  IF d.grouped THEN [p EXCEPT !.line[q.group[j]] = Without(@, j)] ELSE p

SlotTaken(q, d, g) == IF d.grouped /\ g # Default THEN [q EXCEPT !.held[g] = @ + 1] ELSE q

\* A mistake: the group is not given its turn back.
BadSlotFreed(q, d, g) ==
  IF d.grouped /\ g # Default THEN [q EXCEPT !.held[g] = IF @ > 0 THEN @ - 1 ELSE 0] ELSE q

SlotFreed(q, d, g) ==
  LET p == IF g # Default THEN [q EXCEPT !.held[g] = IF @ > 0 THEN @ - 1 ELSE 0] ELSE q
  IN  IF ~d.grouped THEN q
      ELSE IF p.line[g] = <<>> \/ ~HasSlot(p, d, g) THEN p ELSE Queue(p, g)

\* A job leaves `active'.
Leaves(q, d, j, place) == SlotFreed([q EXCEPT !.place[j] = place], d, q.group[j])

(***************************************************************************)
(* The claim                                                               *)
(***************************************************************************)

Starts(q, d, j, g) == SlotTaken([q EXCEPT !.place[j] = "active", !.ready = Without(@, j)], d, g)

\* The head of the turns: its first job starts, and it goes to the tail while
\* it has jobs and slots.  A group with none of either loses its turn.
Turn(q, d) ==
  LET g == Head(q.turns)
      p == [q EXCEPT !.turns = Tail(@), !.queued = @ \ {g}]
      s == Starts([p EXCEPT !.line[g] = Tail(@)], d, Head(p.line[g]), g)
  IN  IF ~HasSlot(p, d, g) \/ p.line[g] = <<>> THEN p
      ELSE IF HasSlot(s, d, g) /\ s.line[g] # <<>> THEN Queue(s, g) ELSE s

Running(q) == Cardinality({ j \in Members : q.place[j] = "active" })

\* At most 2n + 10 turns.
PopGroups(q, d, n) ==
  LET after[i \in 0 .. 2 * n + 10] ==
        IF i = 0 THEN q
        ELSE LET p == after[i - 1]
             IN  IF p.turns = <<>> \/ Running(p) = Running(q) + n THEN p ELSE Turn(p, d)
  IN  after[2 * n + 10]

PopReady(q, d, n) ==
  LET after[i \in 0 .. n] ==
        IF i = 0 THEN q
        ELSE LET p == after[i - 1]
             IN  IF p.ready = <<>> THEN p ELSE Starts(p, d, Head(p.ready), Default)
  IN  after[n]

\* A job whose lease lapsed waits again, or failed where no attempt is left.
Lapsed(q, d, j, back) ==
  IF j \in back THEN ReadyAdd(Leaves(q, d, j, "none"), d, j) ELSE Leaves(q, d, j, "failed")

\* Some order of a set of jobs.
Order(S) ==
  CHOOSE order \in [1 .. Cardinality(S) -> S] :
    \A i, k \in 1 .. Cardinality(S) : order[i] = order[k] => i = k

Reclaim(q, d, back, dead) ==
  LET order == Order(back \cup dead)
      after[i \in 0 .. Cardinality(back \cup dead)] == IF i = 0 THEN q ELSE Lapsed(after[i - 1], d, order[i], back)
  IN  after[Cardinality(back \cup dead)]

Promote(q, d, due) ==
  LET order == Order(due)
      after[i \in 0 .. Cardinality(due)] == IF i = 0 THEN q ELSE ReadyAdd(after[i - 1], d, order[i])
  IN  after[Cardinality(due)]

In(place) == { j \in Members : queue.place[j] = place }

\* `n' after the rate limit: none while paused.
ClaimFrom(q, d, back, dead, due, n) ==
  LET p == Promote(Reclaim(q, d, back, dead), d, due)
  IN  IF d.grouped THEN PopGroups(p, d, n) ELSE PopReady(p, d, n)

\* What lapsed, what fell due and what the rate admits are the clock's.
Claims(q, d, most) ==
  { ClaimFrom(q, d, back, dead, due, n) :
      back \in SUBSET { j \in Members : q.place[j] = "active" },
      dead \in {{}} \cup { {j} : j \in { k \in Members : q.place[k] = "active" } },
      due  \in SUBSET { j \in Members : q.place[j] = "delayed" },
      n    \in IF paused THEN {0} ELSE 0 .. most }

(***************************************************************************)
(* The scripts, each under a definition                                    *)
(***************************************************************************)

Agrees(d) == queue.mode \subseteq {d}

\* The script's writes, after the check of the mode.
Writes(d, q) ==
  /\ Agrees(d)
  /\ queue' = [q EXCEPT !.mode = IF @ = Unset THEN {d} ELSE @]
  /\ UNCHANGED paused

Add(d, j) ==
  /\ queue.place[j] = "none"
  /\ LET q == [queue EXCEPT !.group[j] = IF d.grouped THEN Belongs[j] ELSE Default]
     IN  Writes(d, ReadyAdd(q, d, j)) \/ Writes(d, [q EXCEPT !.place[j] = "delayed"])

\* A debounce moves a job that has not run back to `delayed'.
Debounce(d, j) ==
  /\ queue.place[j] = "ready"
  /\ Writes(d, [ReadyRem(queue, d, j) EXCEPT !.place[j] = "delayed"])

Claim(d) == Agrees(d) /\ \E q \in Claims(queue, d, MaxClaim) : Writes(d, q)

\* Completed (its hash is deleted), failed, or to be retried; the worker's
\* free slot may claim in the same script.
Settle(d, j) ==
  /\ Agrees(d) /\ queue.place[j] = "active"
  /\ \E place \in {"none", "failed", "delayed"} :
       LET q == Leaves(queue, d, j, place)
       IN  Writes(d, q) \/ \E p \in Claims(q, d, 1) : Writes(d, p)

\* Given back by a worker that closes.
Release(d, j) ==
  /\ queue.place[j] = "active"
  /\ Writes(d, ReadyAdd(Leaves(queue, d, j, "none"), d, j))

Cancel(d, j) ==
  /\ queue.place[j] \in {"ready", "delayed", "active"}
  /\ Writes(d, IF queue.place[j] = "active" THEN Leaves(queue, d, j, "none")
               ELSE [(IF queue.place[j] = "ready" THEN ReadyRem(queue, d, j) ELSE queue)
                     EXCEPT !.place[j] = "none"])

Retry(d, j) ==
  /\ queue.place[j] = "failed"
  /\ Writes(d, ReadyAdd(queue, d, j))

\* The sets but `active'.
RemoveJob(d, j) ==
  /\ queue.place[j] \in {"ready", "delayed", "failed"}
  /\ Writes(d, [ReadyRem(queue, d, j) EXCEPT !.place[j] = "none"])

Pause == ~paused /\ paused' = TRUE /\ UNCHANGED queue

Resume == paused /\ paused' = FALSE /\ UNCHANGED queue

\* The way to change a queue's groups: drain it, and delete the mode.
ResetMode ==
  /\ \A j \in Members : queue.place[j] \in {"none", "failed"}
  /\ queue.mode # Unset
  /\ queue' = [queue EXCEPT !.mode = Unset]
  /\ UNCHANGED paused

GroupsNext ==
  \/ \E d \in Definitions :
       \/ Claim(d)
       \/ \E j \in Members :
            \/ Add(d, j) \/ Debounce(d, j) \/ Settle(d, j) \/ Release(d, j)
            \/ Cancel(d, j) \/ Retry(d, j) \/ RemoveJob(d, j)
  \/ Pause \/ Resume \/ ResetMode

GroupsSpec == GroupsInit /\ [][GroupsNext]_groupVars

(***************************************************************************)
(* Properties                                                              *)
(***************************************************************************)

\* The types of the two variables.
GroupsTypeOK == queue \in Queues /\ paused \in BOOLEAN

Elements(s) == { s[i] : i \in DOMAIN s }

InGroup(g, place) == { j \in Members : queue.place[j] = place /\ queue.group[j] = g }

\* The four invariants groups.ts states, and the cap they are for: a grouped
\* queue's jobs wait once in `ready' and once in their group's line, the
\* counter is the number of the group's jobs that run and never above the cap,
\* the turns and their set agree, and a group with a job and a slot has a turn:
\* through every order of claims, settles, lapses, cancels and repairs.
GroupsSound == \A d \in queue.mode : d.grouped =>
  /\ Elements(queue.ready) = In("ready") /\ Len(queue.ready) = Cardinality(In("ready"))
  /\ \A g \in AnyGroup :
       /\ Elements(queue.line[g]) = InGroup(g, "ready")
       /\ Len(queue.line[g]) = Cardinality(InGroup(g, "ready"))
       /\ queue.line[g] # <<>> /\ HasSlot(queue, d, g) => g \in queue.queued
  /\ \A g \in Groups :
       /\ queue.held[g] = Cardinality(InGroup(g, "active"))
       /\ d.cap # 0 => queue.held[g] <= d.cap
  /\ Elements(queue.turns) = queue.queued /\ Len(queue.turns) = Cardinality(queue.queued)

=============================================================================
