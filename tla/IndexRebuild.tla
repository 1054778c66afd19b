---------------------------- MODULE IndexRebuild ----------------------------
(***************************************************************************)
(* An index of Meilisearch rebuilt beside the live one and swapped in, run *)
(* after run, one at a time.  The server takes tasks in a queue and may    *)
(* fail any of them; a request or a wait of the rebuild may fail, whether  *)
(* the server took the task or not, and its process may die, with its      *)
(* tasks still in the queue.  A request that failed reaches the server by  *)
(* then or never.                                                          *)
(*                                                                         *)
(* The settings are as the definition says or not, and the primary key is  *)
(* one.  Writes to the live index are left out.                            *)
(***************************************************************************)
EXTENDS Naturals, Sequences

CONSTANTS
  Batches,  \* what fill adds to the next index
  MaxRebuilds,  \* how many rebuilds are run
  NoIndex

ASSUME RebuildAssumption ==
  MaxRebuilds \in Nat /\ NoIndex \notin [has : SUBSET ((0 .. MaxRebuilds) \X Batches), set : BOOLEAN]

Uids == {"live", "next"}

VARIABLES
  indexes, \* the documents of each index, by the run that added them, and its settings
  tasks,   \* every task, the served ones first
  served,
  rebuild, \* the run at work
  told,    \* what the caller of each run was told
  plain,   \* whether the definition has no settings to send
  filled,  \* the batches that each run's fill added; those of 0 are not of a rebuild
  late     \* the runs that began while tasks of earlier ones were in the queue

rebuildVars == <<indexes, tasks, served, rebuild, told, plain, filled, late>>

\* The documents of a run.
AllOf(run) == {run} \X filled[run]

Index(has, set) == [has |-> has, set |-> set]

Before(run) == [run |-> run, at |-> "over", task |-> 0, since |-> 0, created |-> FALSE, stop |-> "raw"]

RebuildInit ==
  /\ filled = [r \in 0 .. MaxRebuilds |-> IF r = 0 THEN Batches ELSE {}] /\ late = {}
  /\ \E live \in {NoIndex, Index(AllOf(0), TRUE)} :
       indexes = [uid \in Uids |-> IF uid = "live" THEN live ELSE NoIndex]
  /\ tasks = <<>> /\ served = 0
  /\ rebuild = Before(0) /\ told = [r \in 1 .. MaxRebuilds |-> "nothing"]
  /\ plain \in BOOLEAN

-----------------------------------------------------------------------------
(* The server. *)

Task(kind, uid, of) == [kind |-> kind, uid |-> uid, of |-> of, status |-> "enqueued"]

\* How a task the server does not refuse ends, and the indexes it leaves.
Outcome(t) ==
  LET was == indexes[t.uid]
      End(status, is) == [status |-> status, indexes |-> [indexes EXCEPT ![t.uid] = is]]
  IN  CASE t.kind = "create" -> IF was = NoIndex THEN End("succeeded", Index({}, plain))
                                ELSE End("exists", was)
        [] t.kind = "delete" -> IF was # NoIndex THEN End("succeeded", NoIndex) ELSE End("missing", was)
        [] t.kind = "settings" -> IF was # NoIndex THEN End("succeeded", [was EXCEPT !.set = TRUE])
                                  ELSE End("succeeded", Index({}, TRUE))
        [] t.kind = "add" -> IF was # NoIndex THEN End("succeeded", [was EXCEPT !.has = { d \in @ : \A e \in t.of : d[2] # e[2] } \cup t.of])
                             ELSE End("succeeded", Index(t.of, plain))
        [] t.kind = "swap" -> IF NoIndex \in {indexes["live"], indexes["next"]} THEN End("missing", was)
                              ELSE [status |-> "succeeded",
                                    indexes |-> [live |-> indexes["next"], next |-> indexes["live"]]]
        [] t.kind = "rename" -> IF indexes["next"] = NoIndex \/ indexes["live"] # NoIndex THEN End("exists", was)
                                ELSE [status |-> "succeeded",
                                      indexes |-> [live |-> indexes["next"], next |-> NoIndex]]

Serve ==
  /\ served < Len(tasks) /\ served' = served + 1
  /\ LET t == tasks[served + 1] IN
     \E end \in {Outcome(t), [status |-> "failed", indexes |-> indexes]} :
       tasks' = [tasks EXCEPT ![served + 1].status = end.status] /\ indexes' = end.indexes
  /\ UNCHANGED <<rebuild, told, plain, filled, late>>

\* Another process creates the live index, and fills it.
SyncLive ==
  /\ indexes["live"] = NoIndex
  /\ indexes' = [indexes EXCEPT !["live"] = Index(AllOf(0), TRUE)]
  /\ UNCHANGED <<tasks, served, rebuild, told, plain, filled, late>>

-----------------------------------------------------------------------------
(* A run. *)

Tells(what) == /\ rebuild' = Before(rebuild.run) /\ told' = [told EXCEPT ![rebuild.run] = what]

\* A failure: of the leftover's deletion or of the last one it arrives as it
\* comes, while the swap is unknown nothing is deleted, and else the next index is.
Throws ==
  \/ rebuild.stop = "raw" /\ Tells("the failure")
  \/ rebuild.stop = "unknown" /\ Tells("unknown")
  \/ /\ rebuild.stop \in {"creating", "filling"} /\ rebuild' = [rebuild EXCEPT !.at = "discarding"]
     /\ UNCHANGED told

GoesTo(to) == rebuild' = [rebuild EXCEPT !.at = to] /\ UNCHANGED told

\* A request that enqueues a task, and goes on to wait for it.
Sends(t, then) ==
  \/ tasks' = Append(tasks, t)
     /\ rebuild' = [then EXCEPT !.task = Len(tasks) + 1] /\ UNCHANGED told
  \/ tasks' \in {tasks, Append(tasks, t)} /\ Throws

Stage(at) == rebuild.at = at /\ UNCHANGED <<plain, filled, late>>

\* The task that is waited for.
Awaited == tasks[rebuild.task].status

BeginRebuild ==
  /\ rebuild.at = "over" /\ rebuild.run < MaxRebuilds
  /\ rebuild' = [Before(rebuild.run + 1) EXCEPT !.at = "looking"]
  /\ late' = IF served < Len(tasks) THEN late \cup {rebuild.run + 1} ELSE late
  /\ UNCHANGED <<indexes, tasks, served, told, plain, filled>>

\* The reads: findIndex of the leftover, of the next index and of the live one.
Looks ==
  /\ UNCHANGED <<indexes, tasks, served>>
  /\ \/ Stage("looking")
          /\ IF indexes["next"] # NoIndex THEN GoesTo("leftover")
             ELSE rebuild' = [rebuild EXCEPT !.at = "creating", !.stop = "creating"] /\ UNCHANGED told
     \/ Stage("creating") /\ indexes["next"] # NoIndex /\ GoesTo("setting")
     \/ Stage("live") /\ rebuild' = [rebuild EXCEPT !.at = "swap", !.created = indexes["live"] = NoIndex]
          /\ UNCHANGED told
     \/ Stage("looking") /\ Throws
     \/ Stage("creating") /\ Throws
     \/ Stage("live") /\ Throws

DeletesLeftover ==
  Stage("leftover") /\ Sends(Task("delete", "next", {}), [rebuild EXCEPT !.at = "leftover's deletion"])
    /\ UNCHANGED <<indexes, served>>

\* syncIndexFor: the index it did not find.
Creates ==
  /\ Stage("creating") /\ indexes["next"] = NoIndex
  /\ Sends(Task("create", "next", {}), [rebuild EXCEPT !.at = "creation"])
  /\ UNCHANGED <<indexes, served>>

\* diffSettings: an update of what differs, and none where nothing does.
SetsUp ==
  /\ Stage("setting") /\ UNCHANGED <<indexes, served>>
  /\ IF indexes["next"] # NoIndex /\ indexes["next"].set
     THEN /\ rebuild' = [rebuild EXCEPT !.at = "filling", !.stop = "filling"]
          /\ UNCHANGED <<tasks, told>>
     ELSE Sends(Task("settings", "next", {}), [rebuild EXCEPT !.at = "settings"])

\* fill adds what it has, in any order, and waits for it or not; or it throws.
Fills ==
  /\ rebuild.at = "filling" /\ UNCHANGED <<indexes, served, plain, late>>
  /\ \/ \E b \in Batches \ filled[rebuild.run] :
          /\ filled' = [filled EXCEPT ![rebuild.run] = @ \cup {b}]
          /\ Sends(Task("add", "next", {<<rebuild.run, b>>}), rebuild)
     \/ (GoesTo("settling") \/ Throws) /\ UNCHANGED <<tasks, filled>>

\* The failed tasks of the next index since the one that created it.
FailedSince ==
  { i \in 1 .. served : tasks[i].uid = "next" /\ tasks[i].kind \notin {"swap", "rename"}
      /\ tasks[i].status # "succeeded" /\ i > rebuild.since }

Settled == FailedSince = {}

\* No task is left on the next index, and none of them failed.
SettlesFill ==
  /\ Stage("settling") /\ UNCHANGED <<indexes, tasks, served>>
  /\ \/ (\A i \in served + 1 .. Len(tasks) : tasks[i].uid # "next") /\ (IF Settled THEN GoesTo("live") ELSE Throws)
     \/ Throws

\* The stop from the moment the swap is sent until its task is read.
Sent == "unknown"

\* The stop is unknown before the request is sent.
Swaps ==
  /\ Stage("swap") /\ rebuild' = [rebuild EXCEPT !.at = "sending", !.stop = Sent]
  /\ UNCHANGED <<indexes, tasks, served, told>>

SendsSwap ==
  /\ Stage("sending")
  /\ Sends(Task(IF rebuild.created THEN "rename" ELSE "swap", "live", {}), [rebuild EXCEPT !.at = "swapping"])
  /\ UNCHANGED <<indexes, served>>

DeletesPrevious ==
  /\ Stage("swapped") /\ UNCHANGED <<indexes, served>>
  /\ Sends(Task("delete", "next", {}), [rebuild EXCEPT !.at = "previous' deletion"])

\* A discard never throws.
Discards ==
  /\ Stage("discarding") /\ UNCHANGED <<indexes, served>>
  /\ \/ tasks' = Append(tasks, Task("delete", "next", {}))
        /\ rebuild' = [rebuild EXCEPT !.at = "discard", !.task = Len(tasks) + 1] /\ UNCHANGED told
     \/ tasks' \in {tasks, Append(tasks, Task("delete", "next", {}))} /\ Tells("as it was")

\* A mistake: a deletion that is over is taken for one that was done.
BadLeftNothing == Awaited # "enqueued"

\* The deletion of an index that is not there fails, and leaves nothing either.
LeftNothing == Awaited \in {"succeeded", "missing"}

\* What is read of a task that was waited for, and where it goes on.
Waited ==
  /\ rebuild.task > 0 /\ rebuild.task <= served /\ UNCHANGED <<indexes, tasks, served>>
  /\ \/ Stage("leftover's deletion")
          /\ IF Awaited = "succeeded"
             THEN rebuild' = [rebuild EXCEPT !.at = "creating", !.stop = "creating"] /\ UNCHANGED told
             ELSE Throws
     \/ Stage("creation") /\ rebuild' = [rebuild EXCEPT !.at = "setting", !.since = rebuild.task]
          /\ Awaited = "succeeded" /\ UNCHANGED told
     \/ Stage("creation") /\ Awaited = "exists" /\ GoesTo("setting")
     \/ Stage("creation") /\ Awaited \notin {"succeeded", "exists"} /\ Throws
     \/ Stage("settings")
          /\ IF Awaited = "succeeded"
             THEN /\ rebuild' = [rebuild EXCEPT !.at = "filling", !.stop = "filling",
                                                !.since = IF @ = 0 THEN rebuild.task ELSE @]
                  /\ UNCHANGED told
             ELSE Throws
     \/ Stage("swapping")
          /\ IF Awaited # "succeeded" THEN rebuild' = [rebuild EXCEPT !.at = "discarding"] /\ UNCHANGED told
             ELSE IF rebuild.created THEN Tells("done")
             ELSE rebuild' = [rebuild EXCEPT !.at = "swapped", !.stop = "raw"] /\ UNCHANGED told
     \/ Stage("previous' deletion") /\ (IF Awaited = "succeeded" THEN Tells("done") ELSE Throws)
     \/ Stage("discard") /\ Tells(IF LeftNothing THEN "deleted" ELSE "as it was")

\* Its time is over, or the request that asks fails.
NotAwaited ==
  /\ rebuild.at \in {"leftover's deletion", "creation", "settings", "swapping", "previous' deletion", "discard"}
  /\ IF rebuild.at = "discard" THEN Tells("as it was") ELSE Throws
  /\ UNCHANGED <<indexes, tasks, served, plain, filled, late>>

Dies ==
  /\ rebuild.at # "over" /\ Tells("nothing")
  /\ UNCHANGED <<indexes, tasks, served, plain, filled, late>>

RebuildNext ==
  \/ Serve \/ SyncLive
  \/ BeginRebuild \/ Looks \/ DeletesLeftover \/ Creates \/ SetsUp \/ Fills \/ SettlesFill \/ Swaps \/ SendsSwap
  \/ DeletesPrevious \/ Discards \/ Waited \/ NotAwaited \/ Dies

RebuildSpec == RebuildInit /\ [][RebuildNext]_rebuildVars

-----------------------------------------------------------------------------

\* The server and the run are in states the code can bring about.
RebuildTypeOK ==
  /\ indexes \in [Uids -> {NoIndex} \cup [has : SUBSET ((0 .. MaxRebuilds) \X Batches), set : BOOLEAN]]
  /\ served \in 0 .. Len(tasks) /\ rebuild.run \in 0 .. MaxRebuilds /\ rebuild.task \in 0 .. Len(tasks)
  /\ \A i \in 1 .. Len(tasks) : (tasks[i].status = "enqueued") <=> i > served

\* What is there is what a run added, all of it and nothing else, under the
\* definition's settings.  Of a run that began while tasks of earlier ones were in
\* the queue it is all it added: a deletion among them takes the settings along,
\* and an addition leaves its documents.
Rebuilt(run, index) ==
  /\ index # NoIndex /\ AllOf(run) \subseteq index.has
  /\ run \notin late => index = Index(AllOf(run), TRUE)

AsItWas(run) == run > 0 /\ told[run] \in {"as it was", "deleted"}

\* A search never sees half of a rebuild: the live index holds what it held, or
\* everything that a run added, whatever failed, died or was left by earlier runs
\* (rebuild-index.ts rebuildIndex, settle).  And what a caller is told is so:
\* after "done" its documents, or later ones, are live; "as it was" and "deleted"
\* are of a run that never is, and after "deleted" its documents are nowhere
\* (rebuild-index.ts stopped).
NeverHalf ==
  LET live == indexes["live"]
  IN  /\ live = NoIndex \/ \E r \in 0 .. rebuild.run : Rebuilt(r, live) /\ ~AsItWas(r)
      /\ \A r \in 1 .. MaxRebuilds :
           /\ told[r] = "done" => \E s \in r .. rebuild.run : Rebuilt(s, live)
           /\ told[r] = "deleted" => \A uid \in Uids :
                indexes[uid] # NoIndex => indexes[uid].has \cap AllOf(r) = {}

=============================================================================
