----------------------------- MODULE QueueAdds ------------------------------
(***************************************************************************)
(* What add and addMany promise of a queue (packages/redis/src/queue:      *)
(* binding, definition/dedupe.ts, scripts/add.ts): ids that exist are left *)
(* alone, a debounce collapses the adds under its key into a job that has  *)
(* not begun, a throttle lets one through per window, a batch is checked   *)
(* before its first chunk and stops between two.  Jobs live meanwhile:     *)
(* they are claimed, given back, lapse, retry, fail, are put back by hand, *)
(* canceled and removed, and their keys expire.                            *)
(***************************************************************************)
EXTENDS Integers, Sequences

CONSTANTS
  Calls,       \* the calls of add and addMany
  Batches,     \* the items each may have: "named", "debounced", "throttled", "bad"
  MaxItems,    \* how many at most
  ChunkSize,   \* ADD_CHUNK
  DebounceKey, ThrottleKey,  \* a caller uses a key for one of the two
  GivenId,     \* the id that a caller may give
  Wait,        \* a debounce's wait
  Grace,       \* DEBOUNCE_GRACE_MS
  Window,      \* a throttle's window
  MaxAttempts,
  MaxNow,
  MaxTroubles, \* claims lost or given back, failures, retries, removals
  NoJob, NotYet

ASSUME QueueAddsAssumption ==
  /\ MaxItems \in Nat \ {0} /\ ChunkSize \in Nat \ {0} /\ MaxAttempts \in Nat \ {0}
  /\ Wait \in Nat \ {0} /\ Grace \in Nat /\ Window \in Nat \ {0} /\ MaxNow \in Nat /\ MaxTroubles \in Nat
  /\ DebounceKey # ThrottleKey

Kinds == {"named", "debounced", "throttled", "bad"}

\* An item without an id gets a new one.  Its data is told by its place.
NewIds == Calls \X (1 .. MaxItems)
Ids == NewIds \cup {GivenId}

\* What the hash of a job says: `first' is the data that its handler was first
\* given, `retried' that it was put back by hand.
JobType ==
  [data : NewIds, state : {"waiting", "delayed", "active", "completed", "failed"}, attempt : Nat,
   retried : BOOLEAN, runAt : Nat, started : BOOLEAN, first : NewIds \cup {NotYet}]

ASSUME BatchesAssumption ==
  /\ \A b \in Batches : b \in [Calls -> Seq(Kinds)] /\ \A c \in Calls : Len(b[c]) <= MaxItems
  /\ GivenId \notin NewIds /\ NotYet \notin NewIds /\ NoJob \notin Ids /\ NoJob \notin JobType

VARIABLES
  moment,    \* the server's clock
  job,       \* the jobs' hashes, by id; with when a debounce last touched one
  named,     \* the dedupe keys: an id, and until when
  adder,     \* the calls
  life,      \* what the queue knows of its Redis's close
  begun,     \* what handlers were first given, and when
  lastEdit,  \* what was last added under DebounceKey
  dropped,   \* what was canceled or removed by hand
  troubles

addVars == <<moment, job, named, adder, life, begun, lastEdit, dropped, troubles>>

Keys == {DebounceKey, ThrottleKey}

NoKey == [id |-> NoJob, until |-> 0]

AddsInit ==
  /\ moment = 0 /\ life = "open" /\ troubles = 0
  /\ job = [j \in Ids |-> NoJob] /\ named = [k \in Keys |-> NoKey]
  /\ \E items \in Batches :
       adder = [c \in Calls |-> [items |-> items[c], at |-> 1, phase |-> "new", answers |-> <<>>]]
  /\ begun = {} /\ lastEdit = NotYet /\ dropped = {}

-----------------------------------------------------------------------------
(* The script ADD, one item after the other. *)

IdOf(c, i) == IF adder[c].items[i] = "named" THEN GivenId ELSE <<c, i>>

KeyOf(kind) == CASE kind = "debounced" -> DebounceKey [] kind = "throttled" -> ThrottleKey

\* The job a key holds, while the key lives.
HeldBy(keys, k) == IF keys[k] # NoKey /\ moment < keys[k].until THEN keys[k].id ELSE NoJob

\* A mistake: a job that was put back by hand counts as one that has not run.
BadStillWaits(jobs, j) ==
  j # NoJob /\ jobs[j] # NoJob /\ jobs[j].attempt = 0 /\ jobs[j].state \in {"waiting", "delayed"}

\* waiting_job: one that has run, even if put back since, is under way.
StillWaits(jobs, j) ==
  j # NoJob /\ jobs[j] # NoJob /\ jobs[j].attempt = 0 /\ ~jobs[j].retried
    /\ jobs[j].state \in {"waiting", "delayed"}

NewJob(data, wait) ==
  [data |-> data, state |-> IF wait > 0 THEN "delayed" ELSE "waiting", attempt |-> 0,
   retried |-> FALSE, runAt |-> moment + wait, started |-> FALSE, first |-> NotYet]

\* debounce: the wait is the job's delay, and the key outlives it.
Ttl(kind) == IF kind = "debounced" THEN Wait + Grace ELSE Window

Delay(kind) == IF kind = "debounced" THEN Wait ELSE 0

\* What the handle says of a part of the reply, and when it was.
Answer(id, deduplicated) == [id |-> id, deduplicated |-> deduplicated, at |-> moment]

\* One item, on what the items before it left.
AddOne(s, c, i) ==
  LET kind == adder[c].items[i]
      id == IdOf(c, i)
      k == KeyOf(kind)
      keyed == kind \in {"debounced", "throttled"}
      held == IF keyed THEN HeldBy(s.named, k) ELSE NoJob
      pointed(j) == [s.named EXCEPT ![k] = [id |-> j, until |-> moment + Ttl(kind)]]
      edit == IF kind = "debounced" THEN <<c, i>> ELSE s.lastEdit IN
  CASE kind = "debounced" /\ StillWaits(s.job, held) ->
         [s EXCEPT !.job[held] = [@ EXCEPT !.data = <<c, i>>, !.state = "delayed", !.runAt = moment + Wait],
                   !.named = pointed(held), !.lastEdit = edit,
                   !.answers = Append(@, Answer(held, TRUE))]
    [] kind = "throttled" /\ held # NoJob ->
         [s EXCEPT !.answers = Append(@, Answer(held, TRUE))]
    [] (kind = "debounced" => ~StillWaits(s.job, held)) /\ (kind = "throttled" => held = NoJob) ->
         IF s.job[id] # NoJob THEN [s EXCEPT !.answers = Append(@, Answer(id, TRUE))]
         ELSE [s EXCEPT !.job[id] = NewJob(<<c, i>>, Delay(kind)),
                        !.named = IF keyed THEN pointed(id) ELSE @, !.lastEdit = edit,
                        !.answers = Append(@, Answer(id, FALSE))]

\* What the items from i to n make of the store.
AddUpTo(c, i, n) ==
  LET after[m \in i - 1 .. n] ==
        IF m = i - 1
        THEN [job |-> job, named |-> named, lastEdit |-> lastEdit, answers |-> adder[c].answers]
        ELSE AddOne(after[m - 1], c, m)
  IN after[n]

-----------------------------------------------------------------------------
(* The calls. *)

Refuses == life = "closed"

\* Every item is checked and encoded before the first script.
Checks(c) ==
  /\ adder[c].phase = "new"
  /\ adder' = [adder EXCEPT ![c].phase =
       IF Refuses \/ \E i \in DOMAIN adder[c].items : adder[c].items[i] = "bad" THEN "refused" ELSE "sending"]
  /\ UNCHANGED <<moment, job, named, life, begun, lastEdit, dropped, troubles>>

\* One chunk: a close that came before it stops the batch.
AddsChunk(c) ==
  LET items == adder[c].items
      from == adder[c].at
      upto == IF from + ChunkSize - 1 < Len(items) THEN from + ChunkSize - 1 ELSE Len(items)
      s == AddUpTo(c, from, upto) IN
  /\ adder[c].phase = "sending"
  /\ IF Refuses
     THEN adder' = [adder EXCEPT ![c].phase = "stopped"] /\ UNCHANGED <<job, named, lastEdit>>
     ELSE /\ job' = s.job /\ named' = s.named /\ lastEdit' = s.lastEdit
          /\ adder' = [adder EXCEPT ![c].at = upto + 1, ![c].answers = s.answers,
                                    ![c].phase = IF upto = Len(items) THEN "answered" ELSE @]
  /\ UNCHANGED <<moment, life, begun, dropped, troubles>>

\* `closing' still takes adds, as `open' does; `closed' refuses them.
Closes ==
  /\ life = "open" /\ life' = "closed"
  /\ UNCHANGED <<moment, job, named, adder, begun, lastEdit, dropped, troubles>>

-----------------------------------------------------------------------------
(* The life of the jobs meanwhile. *)

In(j, states) == job[j] # NoJob /\ job[j].state \in states

Becomes(j, f) == job' = [job EXCEPT ![j] = f] /\ UNCHANGED <<moment, named, adder, life, lastEdit>>

Trouble == troubles < MaxTroubles /\ troubles' = troubles + 1

\* A delayed job is promoted once due, and claimed.
ClaimsJob(j) ==
  /\ In(j, {"waiting", "delayed"}) /\ (In(j, {"delayed"}) => job[j].runAt <= moment)
  /\ Becomes(j, [job[j] EXCEPT !.state = "active", !.attempt = @ + 1])
  /\ UNCHANGED <<begun, dropped, troubles>>

StartsJob(j) ==
  /\ In(j, {"active"}) /\ ~job[j].started
  /\ Becomes(j, [job[j] EXCEPT !.started = TRUE, !.first = IF @ = NotYet THEN job[j].data ELSE @])
  /\ begun' = IF job[j].first = NotYet THEN begun \cup {[data |-> job[j].data, at |-> moment]} ELSE begun
  /\ UNCHANGED <<dropped, troubles>>

\* RELEASE: a job that no handler was given.
GivesJobBack(j) ==
  /\ In(j, {"active"}) /\ ~job[j].started /\ Trouble
  /\ Becomes(j, [job[j] EXCEPT !.state = "waiting", !.attempt = @ - 1])
  /\ UNCHANGED <<begun, dropped>>

\* The lease lapses, or the attempt fails: it is run again while attempts are
\* left, at once or after a backoff, unless its handler asked for no more.
JobFails(j) ==
  /\ In(j, {"active"}) /\ Trouble
  /\ \E state \in {"waiting", "delayed", "failed"} :
       /\ state = "failed" => job[j].started \/ job[j].attempt >= MaxAttempts
       /\ state # "failed" => job[j].attempt < MaxAttempts
       /\ state = "delayed" => job[j].started
       /\ Becomes(j, [job[j] EXCEPT !.state = state, !.started = FALSE, !.runAt = moment + 1])
  /\ UNCHANGED <<begun, dropped>>

\* Retention may keep it, or not.
JobCompletes(j) ==
  /\ In(j, {"active"}) /\ job[j].started
  /\ \E kept \in BOOLEAN : Becomes(j, IF kept THEN [job[j] EXCEPT !.state = "completed"] ELSE NoJob)
  /\ UNCHANGED <<begun, dropped, troubles>>

RetriesJob(j) ==
  /\ In(j, {"failed"}) /\ Trouble
  /\ Becomes(j, [job[j] EXCEPT !.state = "waiting", !.attempt = 0, !.retried = TRUE, !.runAt = moment])
  /\ UNCHANGED <<begun, dropped>>

Drops(j) == Becomes(j, NoJob) /\ dropped' = dropped \cup {job[j].data} /\ UNCHANGED begun

CancelsJob(j) == In(j, {"waiting", "delayed", "active"}) /\ Trouble /\ Drops(j)

RemovesJob(j) == In(j, {"waiting", "delayed", "completed", "failed"}) /\ Trouble /\ Drops(j)

TimePasses ==
  /\ moment < MaxNow /\ moment' = moment + 1
  /\ UNCHANGED <<job, named, adder, life, begun, lastEdit, dropped, troubles>>

AddsNext ==
  \/ \E c \in Calls : Checks(c) \/ AddsChunk(c)
  \/ \E j \in Ids : \/ ClaimsJob(j) \/ StartsJob(j) \/ GivesJobBack(j) \/ JobFails(j)
                    \/ JobCompletes(j) \/ RetriesJob(j) \/ CancelsJob(j) \/ RemovesJob(j)
  \/ Closes \/ TimePasses

AddsSpec == AddsInit /\ [][AddsNext]_addVars

-----------------------------------------------------------------------------
(* Properties. *)

\* The answers that the items of a kind got: <<call, place>>.
AnswersTo(kind) ==
  {e \in NewIds : e[2] \in DOMAIN adder[e[1]].answers /\ adder[e[1]].items[e[2]] = kind}

AnswerTo(e) == adder[e[1]].answers[e[2]]

\* A job that has run once is never changed.
FixedOnceBegun == \A j \in Ids : job[j] # NoJob => job[j].first \in {NotYet, job[j].data}

\* The last data under a debounce's key is there, or ran, or was dropped by hand.
LastEditKept ==
  lastEdit # NotYet =>
    \/ lastEdit \in dropped
    \/ \E j \in Ids : job[j] # NoJob /\ job[j].data = lastEdit
    \/ \E run \in begun : run.data = lastEdit

\* A debounced add does not run before its wait is over.
RunsAfterWait ==
  \A e \in AnswersTo("debounced"), run \in begun : run.data = e => run.at >= AnswerTo(e).at + Wait

\* One job per window; the others answer the id of the one let through.
OnePerWindow ==
  LET let == {e \in AnswersTo("throttled") : ~AnswerTo(e).deduplicated}
      near(d, e) == AnswerTo(d).at <= AnswerTo(e).at /\ AnswerTo(e).at < AnswerTo(d).at + Window IN
  /\ \A d, e \in let : d # e => ~near(d, e)
  /\ \A e \in AnswersTo("throttled") \ let : \E d \in let : AnswerTo(d).id = AnswerTo(e).id /\ near(d, e)

\* A batch with one bad item, or one that found the queue closed, wrote nothing.
RefusedWhole ==
  \A c \in Calls : adder[c].phase = "refused" =>
    \A j \in Ids : job[j] # NoJob => job[j].data[1] # c

\* Whatever the jobs do while adds under one key come in batches that chunks
\* and closes cut: an edit made during a run is not lost and does not change
\* the run it came in, nothing debounced runs early, and a throttle lets one
\* through per window (scripts/add.ts, docs/guide/queues.md).
AddsKept == FixedOnceBegun /\ LastEditKept /\ RunsAfterWait /\ OnePerWindow /\ RefusedWhole
=============================================================================
