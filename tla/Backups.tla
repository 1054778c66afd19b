------------------------------ MODULE Backups -------------------------------
(***************************************************************************)
(* The backups of one definition in one repository                         *)
(* (packages/backup/src): create, prune, hold and unhold, called by any    *)
(* number of processes that may die at any step, under the lock of         *)
(* BackupLock.                                                             *)
(*                                                                         *)
(* A repository gives no transaction: a call is a series of puts and       *)
(* deletes, each preceded by a check of the lease, and each landing some   *)
(* time after it was sent - at most PutTime ticks, even when the process   *)
(* that sent it died since.  A backup exists once its manifest is there.   *)
(* Its other objects - entries, catalog, signature - are put, and deleted, *)
(* as one here: `data'.                                                    *)
(***************************************************************************)
EXTENDS BackupLock, RotationPlan, Sequences, SequencesExt

CONSTANTS
  MaxId,             \* bounds the backups created: their ids are 1 .. MaxId
  PutTime,           \* how long a put or a delete may be under way
  IncompleteAfter,   \* prune's incompleteAfter, two leases or more
  Kinds,             \* the calls that are made
  Policies,          \* the policies prune is given
  Repositories       \* what the repository may hold at first

Ids == 1 .. MaxId

Creates == {"full", "incremental", "differential"}

Full == [kind |-> "full", parent |-> NoBackup]

Manifests == [kind : Creates, parent : Ids \cup {NoBackup}]

Holdings ==
  [manifest : [Ids -> Manifests \cup {Gone}], data : SUBSET Ids, held : SUBSET Ids,
   born : [Ids -> (0 .. IncompleteAfter) \cup {Gone}]]

CompleteIn(holds) == {i \in Ids : holds.manifest[i] # Gone}

\* Each backup that exists has its objects and what it builds on, which is older;
\* what is held exists.
RestorableFrom(holds) ==
  /\ \A i \in CompleteIn(holds) :
       /\ i \in holds.data
       /\ holds.manifest[i].parent # NoBackup =>
            holds.manifest[i].parent \in CompleteIn(holds) /\ holds.manifest[i].parent < i
  /\ holds.held \subseteq CompleteIn(holds)

ASSUME BackupsAssumption ==
  /\ MaxId \in Nat /\ PutTime \in Nat
  /\ IncompleteAfter \in Nat /\ IncompleteAfter >= 2 * Lease
  /\ Gone \notin Manifests
  /\ Repositories \subseteq Holdings /\ \A holds \in Repositories : RestorableFrom(holds)

VARIABLES
  repo,   \* what the repository holds
  call,   \* where each call is
  sent    \* the request each call has under way

vars == <<file, lease, repo, call, sent>>

\* No request under way.
Quiet == [what |-> "none", id |-> NoBackup, age |-> 0]

NoScan == [complete |-> {}, data |-> {}]

\* A call that found nothing out yet.
Begun(kind, step, id) ==
  [kind |-> kind, step |-> step, id |-> id, base |-> NoBackup, scan |-> NoScan, todo |-> <<>>]

NoCall == Begun("none", "none", NoBackup)

IsRequest(q) ==
  q.what \in {"none", "putData", "putManifest", "deleteManifest", "deleteData",
              "hold", "unhold"} /\ q.id \in Ids \cup {NoBackup}

TypeOK ==
  /\ LockTypeOK
  /\ repo \in Holdings
  /\ \A r \in Runs : IsRequest(sent[r]) /\ sent[r].age \in 0 .. PutTime

Init ==
  /\ LockInit /\ repo \in Repositories
  /\ call = [r \in Runs |-> NoCall] /\ sent = [r \in Runs |-> Quiet]

Complete == CompleteIn(repo)

(***************************************************************************)
(* Calls                                                                   *)
(***************************************************************************)

\* A create takes its id before the lock; an id starts with the time.
NextId == 1 + Cardinality({i \in Ids : repo.born[i] # Gone})

StartCreate(r, kind) ==
  /\ kind \in Creates /\ NextId \in Ids
  /\ repo' = [repo EXCEPT !.born[NextId] = 0]
  /\ call' = [call EXCEPT ![r] = Begun(kind, IF kind = "full" THEN "data" ELSE "base", NextId)]

StartPrune(r) ==
  /\ call' = [call EXCEPT ![r] = Begun("prune", "scan", NoBackup)]
  /\ UNCHANGED repo

StartHold(r, id) ==
  /\ call' = [call EXCEPT ![r] = Begun("hold", "find", id)]
  /\ UNCHANGED repo

StartUnhold(r, id) ==
  /\ call' = [call EXCEPT ![r] = Begun("unhold", "unhold", id)]
  /\ UNCHANGED repo

Start(r) ==
  /\ WriteLock(r)
  /\ \E kind \in Kinds :
       \/ StartCreate(r, kind)
       \/ kind = "prune" /\ StartPrune(r)
       \/ kind = "hold" /\ \E id \in Complete : StartHold(r, id)
       \/ kind = "unhold" /\ \E id \in repo.held : StartUnhold(r, id)
  /\ UNCHANGED sent

Busy(r) == sent[r] # Quiet

At(r, step) == Stage(r) = "held" /\ ~Busy(r) /\ call[r].step = step

Goes(r, step) == call' = [call EXCEPT ![r].step = step]

\* What the work sends after a request landed, or once it failed.
Following(step) ==
  CASE step = "data" -> "manifest" [] step = "remove" -> "remove" [] OTHER -> "done"

(***************************************************************************)
(* create: the backup built on                                             *)
(***************************************************************************)

\* The newest of those it may build on, older than itself: newestFor.
Base(r) ==
  LET fit == {i \in Complete : /\ i < call[r].id
                               /\ call[r].kind = "incremental" \/ repo.manifest[i].kind = "full"}
  IN  IF fit = {} THEN NoBackup ELSE Newest(fit)

\* Its chain, as chainOf walks it: every manifest it builds on is there.
WholeChain(i) ==
  LET whole[k \in Ids] == /\ repo.manifest[k] # Gone
                          /\ \/ repo.manifest[k].parent = NoBackup
                             \/ repo.manifest[k].parent < k /\ whole[repo.manifest[k].parent]
  IN  whole[i]

\* NOT_FOUND where there is none, INTEGRITY where its chain is broken.
FindBase(r) ==
  /\ At(r, "base")
  /\ LET base == Base(r)
     IN  IF base # NoBackup /\ WholeChain(base)
         THEN call' = [call EXCEPT ![r].base = base, ![r].step = "data"]
         ELSE Goes(r, "done")
  /\ UNCHANGED <<file, lease, repo, sent>>

(***************************************************************************)
(* prune: what goes                                                        *)
(***************************************************************************)

Scan(r) ==
  /\ At(r, "scan")
  /\ call' = [call EXCEPT ![r].step = "decide",
                          ![r].scan = [complete |-> Complete, data |-> repo.data]]
  /\ UNCHANGED <<file, lease, repo, sent>>

\* The manifests found by the scan that are still there, with the holds.
Candidates(ids) ==
  [i \in ids |-> [age |-> repo.born[i], parent |-> repo.manifest[i].parent, size |-> 1,
                  held |-> i \in repo.held, standIn |-> FALSE]]

\* A mistake: the oldest goes first.
BadPruneOrder(ids) == Reverse(NewestFirst(ids))

\* Newest first: a prune cut short leaves no backup without its parent.
PruneOrder(ids) == NewestFirst(ids)

\* The ids that never got a manifest, old enough.
Incomplete(scan) ==
  {i \in scan.data \ scan.complete : repo.born[i] >= IncompleteAfter}

Decide(r) ==
  /\ At(r, "decide")
  /\ LET scan == call[r].scan
         ids  == scan.complete \cap Complete
     IN  \E p \in Policies :
           call' = [call EXCEPT ![r].step = "remove",
                     ![r].todo = PruneOrder(Removed(Candidates(ids), p)) \o Reverse(NewestFirst(Incomplete(scan)))]
  /\ UNCHANGED <<file, lease, repo, sent>>

(***************************************************************************)
(* hold                                                                    *)
(***************************************************************************)

\* A backup that is not there is not held.
FindHeld(r) ==
  /\ At(r, "find")
  /\ Goes(r, IF call[r].id \in Complete THEN "hold" ELSE "done")
  /\ UNCHANGED <<file, lease, repo, sent>>

(***************************************************************************)
(* Requests to the repository                                              *)
(***************************************************************************)

\* Of the backup being removed the manifest goes first, so that it stops
\* existing before anything else goes.
Asked(c) ==
  CASE c.step = "data"     -> <<"putData", c.id>>
    [] c.step = "manifest" -> <<"putManifest", c.id>>
    [] c.step = "remove"   ->
         <<IF Head(c.todo) \in c.scan.complete THEN "deleteManifest" ELSE "deleteData", Head(c.todo)>>
    [] OTHER               -> <<c.step, c.id>>

\* The lease is checked before each request.
MaySend(r) == Stage(r) = "held" /\ HeldBy(r)

Sends == {"data", "manifest", "remove", "hold", "unhold"}

Send(r) ==
  /\ \E step \in Sends : At(r, step)
  /\ call[r].step = "remove" => call[r].todo # <<>>
  /\ IF MaySend(r)
     THEN /\ sent' = [sent EXCEPT ![r] = [what |-> Asked(call[r])[1], id |-> Asked(call[r])[2], age |-> 0]]
          /\ UNCHANGED call
     ELSE Goes(r, "done") /\ UNCHANGED sent
  /\ UNCHANGED <<file, lease, repo>>

ManifestOf(c) == [kind |-> c.kind, parent |-> IF c.kind = "full" THEN NoBackup ELSE c.base]

\* What the repository holds after the request of r landed.
Applied(r) ==
  LET q == sent[r]
  IN  CASE q.what = "putData"        -> [repo EXCEPT !.data = @ \cup {q.id}]
        [] q.what = "putManifest"    -> [repo EXCEPT !.manifest[q.id] = ManifestOf(call[r])]
        [] q.what = "deleteManifest" -> [repo EXCEPT !.manifest[q.id] = Gone]
        [] q.what = "deleteData"     -> [repo EXCEPT !.data = @ \ {q.id}]
        [] q.what = "hold"           -> [repo EXCEPT !.held = @ \cup {q.id}]
        [] q.what = "unhold"         -> [repo EXCEPT !.held = @ \ {q.id}]

\* The next object of the backup being removed, or the next backup.
Onwards(c) ==
  IF c.step = "remove" /\ Head(c.todo) \in c.scan.complete \cap c.scan.data
  THEN [c EXCEPT !.scan.complete = @ \ {Head(c.todo)}]
  ELSE [c EXCEPT !.step = Following(@), !.todo = IF @ = <<>> THEN @ ELSE Tail(@)]

Arrive(r) ==
  /\ Stage(r) = "held" /\ Busy(r)
  /\ repo' = Applied(r)
  /\ call' = [call EXCEPT ![r] = Onwards(@)]
  /\ sent' = [sent EXCEPT ![r] = Quiet]
  /\ UNCHANGED <<file, lease>>

\* It rejects, whether or not it landed: nothing more is sent.
Fails(r) ==
  /\ Stage(r) = "held" /\ Busy(r)
  /\ repo' \in {repo, Applied(r)}
  /\ call' = [call EXCEPT ![r].step = "done", ![r].todo = <<>>]
  /\ sent' = [sent EXCEPT ![r] = Quiet]
  /\ UNCHANGED <<file, lease>>

\* The process that sent it died since.
ArriveAfterCrash(r) ==
  /\ Stage(r) = "crashed" /\ Busy(r)
  /\ repo' \in {repo, Applied(r)}
  /\ call' = [call EXCEPT ![r] = NoCall]
  /\ sent' = [sent EXCEPT ![r] = Quiet]
  /\ UNCHANGED <<file, lease>>

(***************************************************************************)
(* The end of a call                                                       *)
(***************************************************************************)

Done(r) == call[r].step = "done" \/ (call[r].step = "remove" /\ call[r].todo = <<>>)

\* What it returns or throws says what it did; only that is left of it.
Finish(r) ==
  /\ ~Busy(r) /\ Done(r)
  /\ Release(r)
  /\ call' = [call EXCEPT ![r] = NoCall]
  /\ UNCHANGED <<repo, sent>>

Locked(r) == Denied(r) /\ call' = [call EXCEPT ![r] = NoCall] /\ UNCHANGED <<repo, sent>>

\* What it sent is still under way.
Crash(r) ==
  /\ CrashLock(r)
  /\ call' = [call EXCEPT ![r] =
       IF Busy(r) THEN [@ EXCEPT !.step = "none", !.todo = <<>>, !.scan = NoScan] ELSE NoCall]
  /\ UNCHANGED <<repo, sent>>

Tick ==
  /\ \A r \in Runs : Busy(r) => sent[r].age < PutTime
  /\ TickLock
  /\ sent' = [r \in Runs |-> IF Busy(r) THEN [sent[r] EXCEPT !.age = @ + 1] ELSE sent[r]]
  /\ repo' = [repo EXCEPT !.born = [i \in Ids |->
       IF @[i] = Gone \/ @[i] = IncompleteAfter THEN @[i] ELSE @[i] + 1]]
  /\ UNCHANGED call

LockCall(r) == LockStep(r) /\ UNCHANGED <<repo, call, sent>>

Next ==
  \/ \E r \in Runs :
       \/ Start(r) \/ LockCall(r) \/ Locked(r) \/ FindBase(r) \/ Scan(r) \/ Decide(r) \/ FindHeld(r)
       \/ Send(r) \/ Arrive(r) \/ Fails(r) \/ ArriveAfterCrash(r) \/ Finish(r) \/ Crash(r)
  \/ Tick

Spec == Init /\ [][Next]_vars

(***************************************************************************)
(* Properties                                                              *)
(***************************************************************************)

\* A backup that exists can be restored: its objects are there, and so is what
\* it builds on.  It holds between the steps of a prune, after one was cut
\* short, and when a put lands after the lease of its run ran out (the chain
\* of a new backup is read under the lock, base.ts; prune keeps parents and
\* removes the newest first, prune.ts).  What it builds on is older, so that a
\* chain ends.  And a legal hold that was recorded is on
\* a backup that exists: no prune that read the holds before removes it after
\* (holds.ts).
Restorable == RestorableFrom(repo)

\* Two calls never have requests under way at once (docs/guide/locking.md, "Why
\* two writers never write at once").
NeverAtOnce == \A r, s \in Runs : Busy(r) /\ Busy(s) => r = s

=============================================================================
