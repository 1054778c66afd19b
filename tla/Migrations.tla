----------------------------- MODULE Migrations -----------------------------
(***************************************************************************)
(* Runs of migrate and rollback over one database                          *)
(* (packages/mongo/src/migrations): each takes the lock document, reads    *)
(* what is recorded, and goes through its plan step by step while a timer  *)
(* renews the lock.  Before each step it asks only whether a renewal found *)
(* the lock gone (checkLock).                                              *)
(*                                                                         *)
(* A step and its record are one transaction, or, for a migration that a   *)
(* transaction cannot hold, writes one after the other.                    *)
(***************************************************************************)
EXTENDS Naturals, Sequences, FiniteSets

CONSTANTS
  Deploys,        \* the calls of migrate and rollback, each a holder of its own
  Ids,            \* migrations
  Transactional,  \* those that run in a transaction
  Reversible,     \* those with a down
  Orders,         \* the calls the deploys may make, each a function of Deploys
  Pasts,          \* what earlier deploys may have applied
  LockTtl,        \* how long the lock is held without news
  NoId            \* `to' left out

ASSUME MigrationsAssumption ==
  /\ Transactional \subseteq Ids /\ Reversible \subseteq Ids /\ NoId \notin Ids
  /\ "nobody" \notin Deploys
  /\ LockTtl \in Nat \ {0} /\ Pasts \subseteq SUBSET Ids
  /\ \A orders \in Orders : \A r \in Deploys :
       /\ orders[r].kind \in {"migrate", "rollback"}
       /\ orders[r].list \in Seq(Ids) /\ orders[r].to \in Ids \cup {NoId}

VARIABLES
  lockDoc,    \* the lock document
  records,    \* the migrations recorded as applied
  effect,     \* what the steps of each migration left in the database
  deploy      \* the runs

migrationVars == <<lockDoc, records, effect, deploy>>

NoLock == [by |-> "nobody", left |-> 0]

LockDocs == [by : Deploys, left : 0 .. LockTtl]

\* "half": some of what a step outside a transaction writes.
Effects == {"none", "half", "all", "twice"}

\* Where a run holds the lock, as far as it knows.
AtWork == {"reading", "next", "stepping", "halfway", "recording"}

RunPhases == AtWork \cup {"new", "inserting", "overtaking", "releasing", "over", "crashed"}

Plans == UNION { [1 .. n -> Ids] : n \in 0 .. Cardinality(Ids) }

\* `lost': a renewal found the lock gone; `beat': a renewal is on its way;
\* `taken': another run took the lock over once it had lapsed.
DeployRun == [phase : RunPhases, plan : Plans, lost : BOOLEAN, beat : BOOLEAN, taken : BOOLEAN,
              kind : {"migrate", "rollback"}, list : Seq(Ids), to : Ids \cup {NoId}]

MigrationsInit ==
  /\ lockDoc = NoLock
  /\ records \in Pasts
  /\ effect = [i \in Ids |-> IF i \in records THEN "all" ELSE "none"]
  /\ \E orders \in Orders :
       deploy = [r \in Deploys |->
         [phase |-> "new", plan |-> <<>>, lost |-> FALSE, beat |-> FALSE, taken |-> FALSE,
          kind |-> orders[r].kind, list |-> orders[r].list, to |-> orders[r].to]]

(***************************************************************************)
(* The plan: pure, of the list and the records read                        *)
(***************************************************************************)

Listed(list) == { list[i] : i \in DOMAIN list }

ListedTwice(list) == Cardinality(Listed(list)) < Len(list)

\* How many of the list are recorded.
CountApplied(list, recs) == Cardinality(recs \cap Listed(list))

\* A mistake: what follows the last record is applied, whatever is before it.
BadDiverged(list, recs) == FALSE

\* A record the list lost, or a pending migration listed before an applied one.
Diverged(list, recs) ==
  \/ recs \ Listed(list) # {}
  \/ \E i \in 1 .. CountApplied(list, recs) : list[i] \notin recs

IndexOf(list, id) == CHOOSE i \in DOMAIN list : list[i] = id

Larger(a, b) == IF a > b THEN a ELSE b

ToApply(list, recs, to) ==
  LET applied == CountApplied(list, recs)
      end     == IF to = NoId THEN Len(list) ELSE IndexOf(list, to)
  IN  SubSeq(list, applied + 1, Larger(applied, end))

\* The last applied first.
ToRevert(list, recs, to) ==
  LET applied == CountApplied(list, recs)
      start   == IF to = NoId THEN Larger(1, applied) - 1 ELSE IndexOf(list, to)
      count   == Larger(start, applied) - start
  IN  [i \in 1 .. count |-> list[start + count + 1 - i]]

PlanOf(run, recs) ==
  IF run.kind = "migrate" THEN ToApply(run.list, recs, run.to)
  ELSE ToRevert(run.list, recs, run.to)

\* Refused as a whole, before anything runs.
Refused(run, recs) ==
  \/ Diverged(run.list, recs)
  \/ run.to # NoId /\ run.to \notin Listed(run.list)
  \/ run.kind = "rollback" /\ \E id \in Listed(PlanOf(run, recs)) : id \notin Reversible

(***************************************************************************)
(* Taking the lock                                                         *)
(***************************************************************************)

Locked(r) == lockDoc.by = r

Phase(r, phase) == deploy' = [deploy EXCEPT ![r].phase = phase]

\* Nothing a run that ended knows matters any more.
MigrationEnds(r, phase) ==
  deploy' = [deploy EXCEPT ![r].phase = phase, ![r].plan = <<>>, ![r].lost = FALSE]

Deploy(r) ==
  /\ deploy[r].phase = "new"
  /\ \/ ~ListedTwice(deploy[r].list) /\ Phase(r, "inserting")
     \/ MigrationEnds(r, "over")
  /\ UNCHANGED <<lockDoc, records, effect>>

\* The insert collides with a document that is there.  It may fail, and have
\* run: the lock is then nobody's until it lapses.
InsertLock(r) ==
  /\ deploy[r].phase = "inserting"
  /\ IF lockDoc = NoLock
     THEN lockDoc' = [by |-> r, left |-> LockTtl] /\ (Phase(r, "reading") \/ MigrationEnds(r, "over"))
     ELSE Phase(r, "overtaking") /\ UNCHANGED lockDoc
  /\ UNCHANGED <<records, effect>>

\* A mistake: whoever holds it.
BadLapsed == lockDoc # NoLock

Lapsed == lockDoc # NoLock /\ lockDoc.left = 0

\* A lock that lapsed is taken over, once more in one write.
Overtake(r) ==
  /\ deploy[r].phase = "overtaking" /\ Lapsed
  /\ lockDoc' = [by |-> r, left |-> LockTtl]
  /\ \E phase \in {"reading", "over"} :
       deploy' = [s \in Deploys |->
         IF s = r THEN [deploy[r] EXCEPT !.phase = phase]
         ELSE [deploy[s] EXCEPT !.taken = @ \/ (Locked(s) /\ lockDoc.left = 0)]]
  /\ UNCHANGED <<records, effect>>

\* MIGRATION_LOCKED, also where the lock was released just now; or any of the
\* requests fails.
LockedOut(r) ==
  /\ deploy[r].phase \in {"inserting", "overtaking"}
  /\ deploy[r].phase = "overtaking" => ~Lapsed
  /\ MigrationEnds(r, "over")
  /\ UNCHANGED <<lockDoc, records, effect>>

(***************************************************************************)
(* Keeping it                                                              *)
(***************************************************************************)

\* The timer sends a renewal.  One on its way at a time stands for all: their
\* order says nothing.
SendBeat(r) ==
  /\ deploy[r].phase \in AtWork /\ ~deploy[r].beat
  /\ deploy' = [deploy EXCEPT ![r].beat = TRUE]
  /\ UNCHANGED <<lockDoc, records, effect>>

\* It runs, maybe after its run ended; or it does not reach the server.
Renewal(r) ==
  /\ deploy[r].beat
  /\ \/ /\ lockDoc' = IF Locked(r) THEN [lockDoc EXCEPT !.left = LockTtl] ELSE lockDoc
        /\ deploy' = [deploy EXCEPT ![r].beat = FALSE,
                                    ![r].lost = @ \/ (~Locked(r) /\ deploy[r].phase \in AtWork)]
     \/ UNCHANGED lockDoc /\ deploy' = [deploy EXCEPT ![r].beat = FALSE]
  /\ UNCHANGED <<records, effect>>

LockReleased(r) == IF Locked(r) THEN NoLock ELSE lockDoc

\* The lock is deleted, or left to lapse where the delete fails.
ReleaseLock(r) ==
  /\ deploy[r].phase = "releasing"
  /\ lockDoc' \in {lockDoc, LockReleased(r)}
  /\ MigrationEnds(r, "over")
  /\ UNCHANGED <<records, effect>>

(***************************************************************************)
(* Going through the plan                                                  *)
(***************************************************************************)

Current(r) == Head(deploy[r].plan)

Up(r) == deploy[r].kind = "migrate"

\* The records are read under the lock, once.
ReadRecords(r) ==
  /\ deploy[r].phase = "reading"
  /\ \/ /\ ~Refused(deploy[r], records)
        /\ deploy' = [deploy EXCEPT ![r].phase = "next", ![r].plan = PlanOf(deploy[r], records)]
     \/ Phase(r, "releasing")
  /\ UNCHANGED <<lockDoc, records, effect>>

GoesOn(r) == ~deploy[r].lost

NextStep(r) ==
  /\ deploy[r].phase = "next"
  /\ IF deploy[r].plan # <<>> /\ GoesOn(r) THEN Phase(r, "stepping") ELSE Phase(r, "releasing")
  /\ UNCHANGED <<lockDoc, records, effect>>

\* The record is inserted: one that is there fails the step.
Recordable(r) == Up(r) => Current(r) \notin records

Recorded(r) == IF Up(r) THEN records \cup {Current(r)} ELSE records \ {Current(r)}

Done(r) == deploy' = [deploy EXCEPT ![r].phase = "next", ![r].plan = Tail(@)]

\* In a transaction: the step and its record, or neither; and where the commit
\* is lost sight of, both and a failure.
CommitStep(r) ==
  /\ deploy[r].phase = "stepping" /\ Current(r) \in Transactional /\ Recordable(r)
  /\ records' = Recorded(r)
  /\ effect' = [effect EXCEPT ![Current(r)] =
       IF ~Up(r) THEN "none" ELSE IF @ = "none" THEN "all" ELSE "twice"]
  /\ Done(r) \/ Phase(r, "releasing")
  /\ UNCHANGED lockDoc

\* Without one: it may be done over what an earlier attempt left.
WriteSome(r) ==
  /\ deploy[r].phase = "stepping" /\ Current(r) \notin Transactional
  /\ effect' = [effect EXCEPT ![Current(r)] = "half"]
  /\ Phase(r, "halfway")
  /\ UNCHANGED <<lockDoc, records>>

WriteRest(r) ==
  /\ deploy[r].phase = "halfway"
  /\ effect' = [effect EXCEPT ![Current(r)] = IF Up(r) THEN "all" ELSE "none"]
  /\ Phase(r, "recording")
  /\ UNCHANGED <<lockDoc, records>>

WriteRecord(r) ==
  /\ deploy[r].phase = "recording" /\ Recordable(r)
  /\ records' = Recorded(r)
  /\ Done(r) \/ Phase(r, "releasing")
  /\ UNCHANGED <<lockDoc, effect>>

\* It throws, its transaction aborts, or its record is there.
StepFails(r) ==
  /\ deploy[r].phase \in {"stepping", "halfway", "recording"}
  /\ Phase(r, "releasing")
  /\ UNCHANGED <<lockDoc, records, effect>>

DeployCrashes(r) ==
  /\ deploy[r].phase \notin {"new", "over", "crashed"}
  /\ MigrationEnds(r, "crashed")
  /\ UNCHANGED <<lockDoc, records, effect>>

\* The server's clock, which every time is read from.
LockAges ==
  /\ lockDoc # NoLock /\ lockDoc.left > 0
  /\ lockDoc' = [lockDoc EXCEPT !.left = @ - 1]
  /\ UNCHANGED <<records, effect, deploy>>

MigrationsNext ==
  \/ \E r \in Deploys :
       \/ Deploy(r) \/ InsertLock(r) \/ Overtake(r) \/ LockedOut(r)
       \/ SendBeat(r) \/ Renewal(r) \/ ReleaseLock(r)
       \/ ReadRecords(r) \/ NextStep(r) \/ CommitStep(r)
       \/ WriteSome(r) \/ WriteRest(r) \/ WriteRecord(r) \/ StepFails(r) \/ DeployCrashes(r)
  \/ LockAges

MigrationsSpec == MigrationsInit /\ [][MigrationsNext]_migrationVars

(***************************************************************************)
(* Properties                                                              *)
(***************************************************************************)

\* The types of the four variables.
MigrationsTypeOK ==
  /\ lockDoc \in LockDocs \cup {NoLock}
  /\ records \subseteq Ids
  /\ effect \in [Ids -> Effects]
  /\ deploy \in [Deploys -> DeployRun]

\* Two runs are at work at once only where one of them did not renew its lock
\* for a whole TTL and the other took it over (lock.ts; errors.ts "two runs
\* never migrate at once").
OneMigrates == \A r, s \in Deploys :
  deploy[r].phase \in AtWork /\ deploy[s].phase \in AtWork =>
    r = s \/ deploy[r].taken \/ deploy[s].taken

\* Some run reverts migrations this one is among.
Reverted(id) == \E r \in Deploys : ~Up(r) /\ id \in Listed(deploy[r].list)

\* While no lock was taken over, what is recorded is a prefix of the list of the
\* run at work, the step it is at is the next one, and what is recorded was done
\* to the end, but for the migration being reverted without a transaction:
\* whatever failed, crashed or was sent twice before it, and whichever versions
\* of the list were deployed (plan.ts checkApplied, run.ts runStep).  And a
\* migration in a transaction is there exactly where it is recorded, and once,
\* even when two runs go through the same plan at once (run.ts runStep: one
\* transaction; store.ts writeRecord: an insert).
RecordsTellAll ==
  /\ \A id \in Transactional : effect[id] = IF id \in records THEN "all" ELSE "none"
  /\ (\A r \in Deploys : ~deploy[r].taken) =>
    /\ \A r \in Deploys : deploy[r].phase \in AtWork \ {"reading"} =>
         LET list == deploy[r].list
             n    == Cardinality(records)
         IN  /\ records = { list[i] : i \in 1 .. n }
             /\ deploy[r].plan # <<>> =>
                  Current(r) = IF Up(r) THEN list[n + 1] ELSE list[n]
    /\ \A id \in records :
         effect[id] = "all" \/ (id \notin Transactional /\ Reverted(id))

=============================================================================
