----------------------------- MODULE SearchSync -----------------------------
(***************************************************************************)
(* A search sync (packages/mongo-meilisearch/src): processes that keep a   *)
(* Meilisearch index equal to a MongoDB collection by following its change *)
(* stream from a recorded point, one of them at a time under a lease, after *)
(* a reindex when there is no point to follow from.                        *)
(*                                                                         *)
(* Every step is one request of one process; between two requests anything *)
(* may happen.  A version of a document is named by the position of its    *)
(* change in the log, so that a stale version is told from the latest one; *)
(* Nothing is what the index holds of a document that is deleted or that   *)
(* the transform keeps out.  A resume token is a position in the log.      *)
(* The collection has no soft deletes, and a page of a reindex is one      *)
(* document.                                                               *)
(***************************************************************************)
EXTENDS Naturals, Sequences, FiniteSets, FiniteSetsExt

CONSTANTS
  Processes,       \* the processes that share the sync's name
  Steady,          \* the one its supervisor starts again
  Reindexers,      \* those whose onHistoryLost is 'reindex'
  NumDocs,         \* the documents, numbered in the order of their ids
  Lease,           \* leaseMs
  BatchSize,       \* batchSize
  Kinds,           \* the kinds of changes made in the database
  MaxLog,          \* bounds the changes
  MaxUpsets,       \* bounds the calls, closes, crashes, failures and stalls
  BreaksMidFlush,  \* whether a stream may break while a flush is under way
  None

ASSUME SearchSyncAssumption ==
  /\ Steady \in Processes /\ Reindexers \subseteq Processes
  /\ {NumDocs, Lease, BatchSize} \subseteq Nat \ {0}
  /\ {MaxLog, MaxUpsets} \subseteq Nat
  /\ Kinds \subseteq {"shown", "hidden", "other", "drop"}
  /\ BreaksMidFlush \in BOOLEAN
  /\ None \notin Processes /\ None \notin Nat

VARIABLES
  log,       \* the changes made in the database
  history,   \* the oldest point the server's history still reaches
  index,     \* the version of each document that the index holds
  recorded,  \* the resume point in the state collection
  lease,     \* the lease document: who holds it, and for how much longer
  sync,      \* where each process's call of start or reindex is
  follow,    \* its change stream, and what it holds between changes
  flush,     \* the flush it has under way
  upsets,    \* how many there were
  stalled    \* whether a live process ever let its lease run out

vars == <<log, history, index, recorded, lease, sync, follow, flush, upsets, stalled>>

mongo == <<log, history>>
Docs == 1 .. NumDocs
Nothing == 0
Versions == 0 .. MaxLog
Points == 0 .. MaxLog

Writes == [kind : {"shown", "hidden"}, doc : Docs]
Other == [kind |-> "other", doc |-> None]   \* in another collection
Drop == [kind |-> "drop", doc |-> None]     \* of the collection

\* The version of d after the first n changes.
VersionAt(d, n) ==
  LET touching == {i \in 1 .. n : log[i] = Drop \/ log[i].doc = d}
  IN IF touching # {} /\ log[Max(touching)].kind = "shown" THEN Max(touching) ELSE Nothing

Now == Len(log)

Free == [holder |-> None, left |-> 0]

NoPending == [d \in Docs |-> None]

NoSync == [pc |-> "off", goal |-> "none", again |-> FALSE, lost |-> FALSE,
           from |-> 0, page |-> 1, wanted |-> {}, read |-> Nothing]

NoFollow == [at |-> 0, position |-> None, pending |-> NoPending, last |-> None, saved |-> 0,
             doing |-> "nothing", change |-> [doc |-> 1, version |-> Nothing, at |-> 0],
             failure |-> FALSE, stop |-> "no"]

NoFlush == [stage |-> "none", batch |-> NoPending, upTo |-> 0, wakes |-> FALSE]

Stages == {"off", "read", "token", "page", "send", "confirm", "remove", "confirmPoint",
           "record", "reread", "confirmOpen", "open", "follow", "clear", "letGo"}

TypeOK ==
  /\ log \in Seq(Writes \cup {Other, Drop}) /\ Now <= MaxLog /\ history \in 0 .. Now
  /\ index \in [Docs -> Versions]
  /\ recorded \in Points \cup {None}
  /\ lease \in [holder : Processes \cup {None}, left : 0 .. Lease]
  /\ \A p \in Processes :
       /\ sync[p].pc \in Stages /\ sync[p].goal \in {"none", "start", "reindex"}
       /\ sync[p].from \in 0 .. Now /\ sync[p].page \in Docs /\ sync[p].wanted \subseteq Docs
       /\ follow[p].pending \in [Docs -> Versions \cup {None}]
       /\ follow[p].last \in Points \cup {None} /\ follow[p].at \in 0 .. Now
       /\ follow[p].doing = "wait" => Cardinality({d \in Docs : follow[p].pending[d] # None}) <= BatchSize
       /\ flush[p].stage \in {"none", "add", "delete", "save"}
       /\ flush[p].upTo \in 0 .. Now
  /\ upsets \in 0 .. MaxUpsets /\ stalled \in BOOLEAN

Init ==
  /\ log = <<>> /\ history = 0
  /\ index = [d \in Docs |-> Nothing]
  /\ recorded = None
  /\ lease = Free
  /\ sync = [p \in Processes |-> NoSync]
  /\ follow = [p \in Processes |-> NoFollow]
  /\ flush = [p \in Processes |-> NoFlush]
  /\ upsets = 0 /\ stalled = FALSE

Upset == upsets < MaxUpsets /\ upsets' = upsets + 1

Is(p, pc) == sync[p].pc = pc

Set(p, s) == sync' = [sync EXCEPT ![p] = s]

Goto(p, pc) == sync' = [sync EXCEPT ![p].pc = pc]

-----------------------------------------------------------------------------
(* The lease *)

Holds(p) == lease.holder = p

\* take and acquire: the update decides, and a lease that runs refuses.
Acquire(p, goal) ==
  /\ Is(p, "off") /\ flush[p] = NoFlush
  /\ lease.left = 0
  /\ lease' = [holder |-> p, left |-> Lease]
  /\ Set(p, [NoSync EXCEPT !.pc = IF goal = "start" THEN "read" ELSE "token", !.goal = goal])
  /\ UNCHANGED <<mongo, index, recorded, follow, flush, stalled>>

\* A start by the supervisor, or by another process, which bounds them.
Start(p) ==
  /\ Acquire(p, "start")
  /\ IF p = Steady THEN UNCHANGED upsets ELSE Upset

Reindex(p) == Acquire(p, "reindex") /\ Upset

\* What of p's call renews the lease: not once its stream has stopped.
Renews(p) ==
  /\ ~ Is(p, "off") /\ ~ Is(p, "clear") /\ ~ Is(p, "letGo")
  /\ Is(p, "follow") => follow[p].stop = "no" \/ follow[p].doing # "nothing"

\* keepLease: a renewal that matches its holder, even past its end; or that
\* finds it gone, which stops a follower.
Renew(p) ==
  /\ Renews(p)
  /\ IF Holds(p)
     THEN /\ lease.left < Lease
          /\ lease' = [lease EXCEPT !.left = Lease]
          /\ UNCHANGED <<sync, follow>>
     ELSE /\ ~ sync[p].lost \/ (Is(p, "follow") /\ ~ follow[p].failure)
          /\ sync' = [sync EXCEPT ![p].lost = TRUE]
          /\ follow' = IF Is(p, "follow") /\ ~ follow[p].failure
                       THEN [follow EXCEPT ![p].failure = TRUE,
                               ![p].stop = IF @ = "no" THEN "close" ELSE @]
                       ELSE follow
          /\ UNCHANGED lease
  /\ UNCHANGED <<mongo, index, recorded, flush, upsets, stalled>>

\* confirmLease, before what must not run beside another holder.
Confirm(p, from, to) ==
  /\ Is(p, from)
  /\ IF Holds(p) /\ ~ sync[p].lost
     THEN Goto(p, to) /\ lease' = [lease EXCEPT !.left = Lease]
     ELSE Goto(p, "letGo") /\ UNCHANGED lease
  /\ UNCHANGED <<mongo, index, recorded, follow, flush, upsets, stalled>>

\* release: of a lease that is still p's.
LetGo(p) ==
  /\ Is(p, "letGo")
  /\ lease' = IF Holds(p) THEN Free ELSE lease
  /\ Set(p, NoSync)
  /\ UNCHANGED <<mongo, index, recorded, follow, flush, upsets, stalled>>

\* Nobody renews a lease whose holder is gone, and no later holder has its name.
Orphaned(p) == IF Holds(p) THEN [lease EXCEPT !.holder = None] ELSE lease

\* A release that fails leaves the lease to lapse.
LetGoFails(p) ==
  /\ Is(p, "letGo") /\ Upset
  /\ lease' = Orphaned(p)
  /\ Set(p, NoSync)
  /\ UNCHANGED <<mongo, index, recorded, follow, flush, stalled>>

\* The server's clock.  A live process whose lease runs out has stalled.
Tick ==
  /\ lease.left > 0
  /\ lease' = IF lease.left = 1 /\ lease.holder = None THEN Free
              ELSE [lease EXCEPT !.left = @ - 1]
  /\ IF lease.left = 1 /\ lease.holder # None
     THEN Upset /\ stalled' = TRUE
     ELSE UNCHANGED <<upsets, stalled>>
  /\ UNCHANGED <<mongo, index, recorded, sync, follow, flush>>

-----------------------------------------------------------------------------
(* start and reindex *)

others == <<mongo, lease, follow, flush, upsets, stalled>>

\* readState: nothing recorded asks for a reindex.
ReadState(p) ==
  /\ Is(p, "read")
  /\ IF recorded = None THEN Goto(p, "token")
     ELSE Set(p, [sync[p] EXCEPT !.pc = "confirmOpen", !.from = recorded])
  /\ UNCHANGED <<others, index, recorded>>

\* currentToken, before anything is read.
CurrentToken(p) ==
  /\ Is(p, "token")
  /\ Set(p, [sync[p] EXCEPT !.pc = "page", !.from = Now, !.page = 1, !.wanted = {}])
  /\ UNCHANGED <<others, index, recorded>>

\* The page after s's, unless a renewal found the lease lost.
NextPage(s) ==
  IF s.lost THEN [s EXCEPT !.pc = "letGo"]
  ELSE IF s.page = NumDocs THEN [s EXCEPT !.pc = "confirm", !.read = Nothing]
  ELSE [s EXCEPT !.pc = "page", !.page = @ + 1, !.read = Nothing]

\* sendAll: a document the transform keeps out is skipped.
ReadPage(p) ==
  LET s == sync[p]
      version == VersionAt(s.page, Now)
  IN /\ Is(p, "page")
     /\ Set(p, IF version = Nothing THEN NextPage(s)
               ELSE [s EXCEPT !.pc = "send", !.read = version, !.wanted = @ \cup {s.page}])
     /\ UNCHANGED <<others, index, recorded>>

SendPage(p) ==
  /\ Is(p, "send")
  /\ index' = [index EXCEPT ![sync[p].page] = sync[p].read]
  /\ Set(p, NextPage(sync[p]))
  /\ UNCHANGED <<others, recorded>>

\* removeUnwanted: what the index lists and the pages did not give.
RemoveUnwanted(p) ==
  /\ Is(p, "remove")
  /\ index' = [d \in Docs |-> IF d \in sync[p].wanted THEN index[d] ELSE Nothing]
  /\ Goto(p, "confirmPoint")
  /\ UNCHANGED <<others, recorded>>

\* saveState, of the point taken first.
RecordReindex(p) ==
  /\ Is(p, "record")
  /\ recorded' = sync[p].from
  /\ Goto(p, IF sync[p].goal = "reindex" THEN "letGo" ELSE "reread")
  /\ UNCHANGED <<others, index>>

ReadBack(p) ==
  /\ Is(p, "reread")
  /\ IF recorded = None THEN Goto(p, "letGo")
     ELSE Set(p, [sync[p] EXCEPT !.pc = "confirmOpen", !.from = recorded])
  /\ UNCHANGED <<others, index, recorded>>

\* The stream opens where the history still reaches; else a second reindex,
\* once, for a process that asked for it.
Open(p) ==
  LET s == sync[p] IN
  /\ Is(p, "open")
  /\ IF s.from >= history
     THEN /\ Set(p, [NoSync EXCEPT !.pc = "follow", !.goal = s.goal, !.lost = s.lost])
          /\ follow' = [follow EXCEPT ![p] = [NoFollow EXCEPT !.at = s.from, !.saved = s.from]]
     ELSE /\ IF p \in Reindexers /\ ~ s.again
             THEN Set(p, [s EXCEPT !.pc = "token", !.again = TRUE])
             ELSE Goto(p, "letGo")
          /\ UNCHANGED follow
  /\ UNCHANGED <<mongo, lease, flush, upsets, stalled, index, recorded>>

\* A request of a start or a reindex fails, and so does the call.
CallFails(p) ==
  /\ sync[p].pc \notin {"off", "follow", "letGo"} /\ Upset
  /\ Goto(p, "letGo")
  /\ UNCHANGED <<mongo, lease, follow, flush, stalled, index, recorded>>

StartStep(p) ==
  \/ ReadState(p) \/ CurrentToken(p) \/ ReadPage(p) \/ SendPage(p)
  \/ Confirm(p, "confirm", "remove") \/ RemoveUnwanted(p)
  \/ Confirm(p, "confirmPoint", "record") \/ RecordReindex(p) \/ ReadBack(p)
  \/ Confirm(p, "confirmOpen", "open") \/ Open(p)

-----------------------------------------------------------------------------
(* The change stream: one change at a time, each handled before the next *)

Following(p) == Is(p, "follow")

\* The next event of p's stream: other collections' changes are not.
Events(p) == {i \in follow[p].at + 1 .. Now : log[i] # Other}

streamless == <<mongo, index, recorded, lease, stalled>>

\* tryNext answers a change: `handle' begins.  The document that comes with
\* it is the change's own, or is looked up and may be newer.
Hear(p) ==
  LET next == Min(Events(p))
      d == log[next].doc
  IN /\ Following(p) /\ follow[p].stop = "no" /\ follow[p].doing = "nothing"
     /\ ~ follow[p].failure
     /\ Events(p) # {} /\ log[next] # Drop
     /\ \E n \in {next, Now} :
          follow' = [follow EXCEPT ![p].doing = "transform",
                       ![p].change = [doc |-> d, version |-> VersionAt(d, n), at |-> next]]
     /\ UNCHANGED <<streamless, sync, flush, upsets>>

\* The collection was dropped: the stream ends.
Invalidated(p) ==
  /\ Following(p) /\ follow[p].stop = "no" /\ follow[p].doing = "nothing"
  /\ Events(p) # {} /\ log[Min(Events(p))] = Drop
  /\ follow' = [follow EXCEPT ![p].stop = "invalidated"]
  /\ UNCHANGED <<streamless, sync, flush, upsets>>

\* tryNext answers null: `position' is where the server says the stream is.
Quiet(p) ==
  /\ Following(p) /\ follow[p].stop = "no" /\ follow[p].doing = "nothing"
  /\ Events(p) = {} /\ follow[p].position # Now
  /\ follow' = [follow EXCEPT ![p].position = Now, ![p].at = Now]
  /\ UNCHANGED <<streamless, sync, flush, upsets>>

\* The change in hand is done with.
HandledBy(f) ==
  [f EXCEPT !.doing = "nothing", !.at = f.change.at, !.position = f.change.at,
            !.change = NoFollow.change]

Waiting(pending) == {d \in Docs : pending[d] # None}

\* handle, after the transform: one entry per document, and a full batch
\* waits for its flush.
Handled(p) ==
  LET f == follow[p]
      queued == [f EXCEPT !.pending[f.change.doc] = f.change.version, !.last = f.change.at]
  IN /\ Following(p) /\ f.doing = "transform"
     /\ follow' = [follow EXCEPT ![p] =
          IF Cardinality(Waiting(queued.pending)) >= BatchSize
          THEN [queued EXCEPT !.doing = "wait"] ELSE HandledBy(queued)]
     /\ UNCHANGED <<streamless, sync, flush, upsets>>

\* settle, when the stream ends by an error: the lease is let go at once.
EndsByError(p) ==
  /\ Goto(p, "letGo")
  /\ follow' = [follow EXCEPT ![p] = NoFollow]
  /\ UNCHANGED <<streamless, flush>>

\* The stream fails for good, or the transform throws.
StreamFails(p) ==
  /\ Following(p) /\ follow[p].stop = "no" /\ follow[p].doing # "wait"
  /\ BreaksMidFlush \/ flush[p] = NoFlush
  /\ Upset /\ EndsByError(p)

\* A change heard after a failure, or whose batch failed: `handle' throws.
HandleRefuses(p) ==
  /\ Following(p) /\ follow[p].failure
  /\ \/ follow[p].doing = "wait" /\ flush[p] = NoFlush
     \/ follow[p].doing = "nothing" /\ follow[p].stop = "no"
        /\ Events(p) # {} /\ log[Min(Events(p))] # Drop
  /\ EndsByError(p) /\ UNCHANGED upsets

-----------------------------------------------------------------------------
(* flush: sends what is pending, then records the point that covers it *)

\* The point a flush may record: of the last change queued, or, with nothing
\* to send and no change being handled, of the stream.
PointOf(f) ==
  IF f.last # None THEN f.last
  ELSE IF Waiting(f.pending) = {} /\ f.doing # "transform" THEN f.position ELSE None

\* The requests of a flush, in order: the documents, the deletions, the point.
StageOf(batch) ==
  IF \E d \in Waiting(batch) : batch[d] # Nothing THEN "add"
  ELSE IF Waiting(batch) # {} THEN "delete" ELSE "save"

\* A flush begins: by its timer, the beat, a full batch or the caller.
FlushBegins(p) ==
  LET f == follow[p]
      nothing == Waiting(f.pending) = {} /\ PointOf(f) \in {None, f.saved}
  IN /\ Following(p) /\ flush[p] = NoFlush /\ ~ f.failure
     /\ f.stop = "no" \/ f.doing # "nothing"
     /\ ~ nothing
     /\ flush' = [flush EXCEPT ![p] =
          [NoFlush EXCEPT !.stage = StageOf(f.pending), !.batch = f.pending,
                          !.upTo = PointOf(f), !.wakes = (f.doing = "wait")]]
     /\ follow' = [follow EXCEPT ![p].pending = NoPending]
     /\ UNCHANGED <<streamless, sync, upsets>>

Send(p, stage, next) ==
  LET batch == flush[p].batch
      mine == {d \in Waiting(batch) : (batch[d] # Nothing) = (stage = "add")}
  IN /\ flush[p].stage = stage
     /\ index' = [d \in Docs |-> IF d \in mine THEN batch[d] ELSE index[d]]
     /\ flush' = [flush EXCEPT ![p].stage = next]
     /\ UNCHANGED <<mongo, recorded, lease, sync, follow, upsets, stalled>>

Adds(p) ==
  LET deletes == \E d \in Docs : flush[p].batch[d] = Nothing
  IN Send(p, "add", IF deletes THEN "delete" ELSE "save")

Deletes(p) == Send(p, "delete", "save")

\* A mistake: the token is read after the batch was sent.
BadSaves(p) ==
  LET f == follow[p]
      upTo == IF f.last # None THEN f.last ELSE flush[p].upTo
      saved == [f EXCEPT !.saved = upTo]
  IN /\ flush[p].stage = "save"
     /\ recorded' = upTo
     /\ flush' = [flush EXCEPT ![p] = NoFlush]
     /\ follow' = IF ~ Following(p) THEN follow
                  ELSE [follow EXCEPT ![p] = IF flush[p].wakes THEN HandledBy(saved) ELSE saved]
     /\ UNCHANGED <<mongo, index, lease, sync, upsets, stalled>>

\* saveState, and whoever waited for the flush goes on.
Saves(p) ==
  LET f == follow[p]
      saved == [f EXCEPT !.saved = flush[p].upTo]
  IN /\ flush[p].stage = "save"
     /\ recorded' = flush[p].upTo
     /\ flush' = [flush EXCEPT ![p] = NoFlush]
     /\ follow' = IF ~ Following(p) THEN follow
                  ELSE [follow EXCEPT ![p] = IF flush[p].wakes THEN HandledBy(saved) ELSE saved]
     /\ UNCHANGED <<mongo, index, lease, sync, upsets, stalled>>

\* A request of it fails, applied or not: the sync fails with it.
FlushFails(p) ==
  /\ flush[p] # NoFlush /\ Upset
  /\ flush' = [flush EXCEPT ![p] = NoFlush]
  /\ follow' = IF Following(p) THEN [follow EXCEPT ![p].failure = TRUE] ELSE follow
  /\ recorded' \in {recorded, IF flush[p].stage = "save" THEN flush[p].upTo ELSE recorded}
  /\ UNCHANGED <<mongo, index, lease, sync, stalled>>

-----------------------------------------------------------------------------
(* The end of a running sync *)

\* close, whose flush has ended: the stream stops after the change in hand.
Close(p) ==
  /\ Following(p) /\ follow[p].stop = "no" /\ Upset
  /\ flush[p] = NoFlush /\ Waiting(follow[p].pending) = {}
  /\ follow' = [follow EXCEPT ![p].stop = "close"]
  /\ UNCHANGED <<streamless, sync, flush>>

\* A timer's flush or a beat finds the failure, and closes the stream.
ClosesOnFailure(p) ==
  /\ Following(p) /\ follow[p].stop = "no" /\ follow[p].failure
  /\ follow' = [follow EXCEPT ![p].stop = "close"]
  /\ UNCHANGED <<streamless, sync, flush, upsets>>

\* A mistake: the flush under way is not waited for.
BadSettles(p) ==
  LET f == follow[p] IN
  /\ Following(p) /\ f.stop # "no" /\ f.doing = "nothing"
  /\ Goto(p, IF f.stop = "invalidated" /\ ~ f.failure THEN "clear" ELSE "letGo")
  /\ follow' = [follow EXCEPT ![p] = NoFollow]
  /\ UNCHANGED <<streamless, flush, upsets>>

\* settle, when the stream ends by itself: after the flush under way, and
\* with nothing recorded any more if the collection is gone.
Settles(p) ==
  LET f == follow[p] IN
  /\ Following(p) /\ f.stop # "no" /\ f.doing = "nothing" /\ flush[p] = NoFlush
  /\ Goto(p, IF f.stop = "invalidated" /\ ~ f.failure THEN "clear" ELSE "letGo")
  /\ follow' = [follow EXCEPT ![p] = NoFollow]
  /\ UNCHANGED <<streamless, flush, upsets>>

\* A mistake: the point of a dropped collection stays recorded.
BadClearState(p) ==
  /\ Is(p, "clear")
  /\ Goto(p, "letGo")
  /\ UNCHANGED <<others, index, recorded>>

\* clearState: the next start reindexes.
ClearState(p) ==
  /\ Is(p, "clear")
  /\ recorded' = None
  /\ Goto(p, "letGo")
  /\ UNCHANGED <<others, index>>

\* The process dies, and leaves its lease to lapse.
Crash(p) ==
  /\ ~ Is(p, "off") /\ Upset
  /\ Set(p, NoSync)
  /\ follow' = [follow EXCEPT ![p] = NoFollow]
  /\ flush' = [flush EXCEPT ![p] = NoFlush]
  /\ lease' = Orphaned(p)
  /\ UNCHANGED <<mongo, index, recorded, stalled>>

-----------------------------------------------------------------------------
(* The database, and the specification *)

\* A change that hides a document no index need hold tells nothing apart.
Change(e) ==
  /\ Now < MaxLog /\ e.kind \in Kinds
  /\ e.kind = "hidden" => VersionAt(e.doc, Now) # Nothing
  /\ log' = Append(log, e)
  /\ UNCHANGED <<history, index, recorded, lease, sync, follow, flush, upsets, stalled>>

\* The server drops the oldest of its history.
Trim ==
  /\ history < Now /\ Upset
  /\ history' = Now
  /\ UNCHANGED <<log, index, recorded, lease, sync, follow, flush, stalled>>

FlushStep(p) == FlushBegins(p) \/ Adds(p) \/ Deletes(p) \/ Saves(p)

\* What a process does by itself.
Progress(p) ==
  \/ StartStep(p) \/ Hear(p) \/ Invalidated(p) \/ Quiet(p) \/ Handled(p)
  \/ FlushStep(p) \/ HandleRefuses(p) \/ ClosesOnFailure(p) \/ Settles(p)
  \/ ClearState(p) \/ LetGo(p)

Fault(p) == CallFails(p) \/ StreamFails(p) \/ FlushFails(p) \/ LetGoFails(p) \/ Crash(p)

Next ==
  \/ \E e \in Writes \cup {Other, Drop} : Change(e)
  \/ Tick \/ Trim
  \/ \E p \in Processes :
       Start(p) \/ Reindex(p) \/ Renew(p) \/ Progress(p) \/ Close(p) \/ Fault(p)

\* Requests are answered, timers fire, the steady process is started again,
\* and a lease nobody renews lapses.
Fairness ==
  /\ \A p \in Processes : WF_vars(Progress(p))
  /\ WF_vars(Start(Steady))
  /\ WF_vars(lease.holder = None /\ Tick)

Spec == Init /\ [][Next]_vars /\ Fairness

-----------------------------------------------------------------------------
(* Properties *)

\* What p has under way that writes.
Writing(p) ==
  flush[p] # NoFlush \/ sync[p].pc \in {"send", "remove", "record", "clear"}

\* Where no live process stalls past its lease, only the lease's holder sends
\* to the index, removes from it or records a point (run/lease.ts,
\* sync/start.ts): a flush or a page of a former holder is never under way
\* beside another process.
OneWriter == stalled \/ \A p \in Processes : Writing(p) => Holds(p)

\* A sync's stream ends, by close or by a failure, after its last flush and
\* with the lease let go only then (run/follow.ts: settle): no flush is under
\* way of a process that is not following any more.
LetGoAfterFlush == \A p \in Processes : flush[p] # NoFlush => Following(p)

\* The recorded point never runs ahead of the index (run/follow.ts: flush,
\* run/reindex.ts: reindexHeld): of each document, the index holds the version
\* of that point or a later one, so that following from there misses nothing.
NothingSkipped ==
  stalled \/ recorded = None \/
  \A d \in Docs : \E n \in recorded .. Now : index[d] = VersionAt(d, n)

\* In the end the index holds what the collection holds, after any crashes,
\* failures, take-overs, lost history and drops (docs/guide/following-changes.md),
\* where no live process stalls past its lease.
Converges == <>[](stalled \/ \A d \in Docs : index[d] = VersionAt(d, Now))

=============================================================================
