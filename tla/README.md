# nxgt-data in TLA+

Specifications of the parts of this repository whose correctness rests on the
order of things: a job queue on Redis and the guards around it, the backups of a
repository that gives no transaction, a search index that follows a MongoDB
collection, the files, migrations and schemas of MongoDB. TLC checks them on
small instances; TLAPS proves the theorems that matter most for every value of
the constants.

All paths below are under `src/packages/` unless they start with `docs/`, which
is `src/docs/`. `PROJECT.json` maps every definition to the lines it models,
lists the runs, the hazards each property is for, and what was found.

- [1. The system](#1-the-system)
- [2. The modules](#2-the-modules)
- [3. What TLC checks](#3-what-tlc-checks)
- [4. Fairness](#4-fairness)
- [5. What is proved](#5-what-is-proved)
- [6. Where the code and its documents differ](#6-where-the-code-and-its-documents-differ)
- [7. What is not modelled](#7-what-is-not-modelled)
- [8. Plan](#8-plan)
- [9. Running it](#9-running-it)

## 1. The system

The repository is a set of TypeScript libraries over stores: `redis`, `mongo`,
`meilisearch`, `drizzle` (PostgreSQL), `s3`, and what is built on several of
them: `backup`, `mongo-backup`, `mongo-meilisearch`, `drizzle-meilisearch`. A
library runs in the caller's process; every process is one of several that share
the stores and nothing else. So all coordination is through leases, tokens and
atomic scripts in a store, and what is hard is always the same: a process may
die, stall or lose an answer between any two requests.

| component | keeps | operations | hard | correct when |
|---|---|---|---|---|
| **Redis queue, store** (`redis/src/queue/scripts`) | a hash per job; sorted sets `ready`, `delayed`, `active`, `completed`, `failed`; the `wake` list; `paused` | ADD, CLAIM, COMPLETE, FAIL, RENEW, RELEASE, CANCEL, RETRY, REMOVE, pause, resume: one Lua script each | a script moves an id between sets line by line; leases lapse unseen; one wake token for many sleepers | sets and hashes agree, a token fences one job, attempts add up, claimable work wakes someone |
| **Redis queue, worker** (`redis/src/queue/worker`) | its slots and renewals | loop, run, settle, renew, abort, give back, close | replies lost, late settles, crash, close with a claim in flight, a cancel or a lost lease heard late | a job changes hands only past its lease, every job ends |
| queue groups (`scripts/groups`) | a line and a counter per group, the turns | in every script | counters kept by hand over many paths; two definitions | counters match running jobs, a group that may run has a turn |
| queue schedules (`schedule`, `worker/fire.ts`) | due moments, specs | upsert, sync, unschedule, fire, defer | moments computed on clients' clocks, two workers on one occurrence | one job per occurrence, none passed over |
| queue steps (`worker/job/steps.ts`) | step values in the job's hash | begin, commit | the lease lapses while a step runs | all attempts are given one value |
| queue deduplication (`binding`, `definition/dedupe.ts`) | debounce and throttle keys | add, addMany | batches cut by chunks and closes | no edit lost, one job per window |
| queue handles and events (`events`, `binding/handle.ts`) | listeners of a subscriber connection | finished, cancel, close | an event between read and listen, connections shared and lost | who listened is told |
| **Idempotency** (`redis/src/idempotency`) | one hash per key: running with a token, or done with a result | BEGIN, COMPLETE, RENEW, RELEASE, wait, forget | a command that timed out still runs; scripts sent twice; lease lost during work | work runs alone while its key is held; only its holder's result is stored and replayed |
| lock (`redis/src/lock`) | one key, a token, a ttl | take, release | the ttl runs out under the work, or before its SET is answered | of two works beside each other, one at most is told its value |
| rate limits (`redis/src/rate-limit`) | one bucket per key | consume, enforce, peek, reset | exact integers, failovers between clocks | never more than the limit; answers hold |
| channels (`redis/src/channel`) | a hub, iterators, attempts to subscribe | publish, iterate, close | subscriptions let go of that still deliver | each message once |
| connections (`redis`, `mongo` `connection`, `wiring`) | clients counted by holders | connect, open, close | closes while connecting | open while held, and no longer |
| **Backup lock** (`backup/src/lock`) | a lock file per call; a deadline per call | take, renew, release | no conditional write; clocks disagree; a put lands late | one call holds the lock |
| **Backups** (`backup/src/backups`, `chain`, `rotation`) | objects of each backup, its manifest, holds | create, prune, hold, unhold | each is a series of requests, cut at any point | what exists can be restored, one writer |
| rotation policy (`backup/src/rotation/policy.ts`) | nothing | plan | chains against rules against a size limit | no chain broken, nothing promised dropped |
| folder backups (`backup/src/source`, `format`, `crypto`, restore, verify) | manifests, catalogs, objects | create, restore, verify | a folder written to meanwhile, a repository that fails or lost something | what is stored reads back as it was read |
| **mongo-backup** | a dump and the changes after it | full, incremental, differential, restore | the window between, renames, drops | a restore equals one moment, and loses nothing of another's |
| **Search sync** (`mongo-meilisearch/src`) | a lease and a resume point in MongoDB; the index | start, reindex, follow, flush, close | take-over, failed requests, lost history, drops, a queue in memory | the point never ahead of the index; the index ends equal to the collection |
| change streams (`mongo/src/collection/changes`) | a position | read, resume, close | errors, invalidation | each change handled before the next |
| migrations (`mongo/src/migrations`) | a lock document, the list of those applied | migrate, rollback | a lost lock seen late, lists that differ | one run at a time, records tell what was done |
| gridfs (`mongo/src/gridfs`) | files and chunks, their indexes | put, putOnce, delete, read | content claimed twice, chunks before files, damage | what is there is whole, readers get what they asked for |
| transactions (`mongo/src/transaction`) | a session | withTransaction | runs again, unknown commits, joined calls | applied once |
| collections (`mongo/src/collection`), repositories (`drizzle/src/pg`) | versions, soft deletes | writes at a version | hooks and others between read and write | no audited write overwritten |
| pages (`pagination`) | a cursor | list after a cursor, by number | writes between pages, nulls, ties | what stands still is given once |
| schema sync (`mongo/src/sync`) | what a process has synced | sync, dry run | two deploys at once | in line, and nothing needless sent |
| index rebuild (`meilisearch/src/sync`) | an index beside the live one | rebuild, stage, swap | any request or task may fail, leftovers | no half index served |
| `drizzle-meilisearch`, `s3`, `image`, scripts | nothing of their own | single statements and requests | - | - |

How they interact. A worker and the queue's clients share only Redis: scripts
change it one at a time, `wake` passes a token to one sleeper, and a cancel is
published to whoever runs the job. The calls of backup share only the objects of
the repository. Processes of a search sync share a lease and a point in MongoDB;
the change stream calls back into the sync, whose flushes (by size, by timer, by
beat, by the caller) form one chain. A call of `run` and its repeats share one
Redis hash. A folder's or a database's backups are sources of `create`, which
`backup` stores and rotates; migrations, GridFS and collections meet on sessions
and transactions only.

## 2. The modules

Times are kept relative to now, in ticks, wherever a clock matters: a lease is
the time left of it, and a tick ages every time at once. Definitions named
`Bad...` are wrong variants of the definition after them: each property is shown
to be broken by one.

| module | what it is |
|---|---|
| `JobStore` | the keys of one queue as a record, and every Lua function as an operator from store to store; no variables |
| `JobQueue` | the store, the workers' loops and the runs: one action per script, reply, timer, failure and client call |
| `JobLifecycle` | what a queue promises of each job: the abstract specification `JobQueue` implements |
| `GroupedQueue` | the groups as the scripts keep them, and the mode two definitions disagree on |
| `QueueSchedules` | schedules, the workers that hold a due one, and the calls on their way |
| `QueueSteps` | one step of a job over its attempts |
| `QueueAdds` | adds under a debounce key, a throttle key or an id, in batches, and the jobs' life around them |
| `FinishedWaits` | calls of `finished`, the subscriber connections they share, and close |
| `Idempotency` | one key, its calls, and the commands and answers on their way |
| `RedisLock` | calls of `withLock` |
| `RateLimit` | GCRA in exact integers over one key, with failovers |
| `KeyedStreams` | the hub of a channel, its iterators and attempts to subscribe |
| `Connections` | shared clients, and the applications that open and close over them |
| `BackupLock` | lock files, deadlines, clocks that disagree |
| `RotationPlan`, `Rotation` | the policy as pure operators; one dry run of it |
| `Backups` | `BackupLock` and `RotationPlan` composed: create, prune, hold, unhold as series of requests |
| `DirectoryBackups` | the bytes: a folder read while it is written to, stored in two repositories, read back |
| `MongoBackup` | a database and its change stream, backed up and restored |
| `SearchSync` | lease, start, reindex, stream, flush and close of several processes |
| `Migrations` | deploys over one lock document and one list of records |
| `GridFS` | put, putOnce and delete of one bucket, chunk by chunk |
| `FileBytes` | the bytes of one id: source, chunks, ranges, the index, damage |
| `Transactions` | a call, its retries, the call joined to it, and a server that may lose an answer |
| `Documents` | writes at a version, in a collection and in a repository |
| `Pages` | a walk by cursor or by number over rows that are written to |
| `SchemaSync` | a collection's options, validator and indexes, and the syncs that compare and change them |
| `IndexRebuild` | Meilisearch's queue of tasks, the live and the next index, and the runs of rebuild |
| `MC...` | the small instances; `MCContention`, `MCBackups`, `MCStorage` and `MCRedis` each check several specifications, one per behaviour, told by the variable `part` |
| `...Proofs` | the theorems ([5](#5-what-is-proved)) |

### Queue

`db` is Redis: `hash` (state, token, attempt of each job), the sorted sets as
functions from members to scores, `ready` as a set with the order of its scores,
`wake` and `paused`. `ADD` is `AddJob`, `CLAIM` is `Claims` (reclaim, promote,
pop, begin, pass the baton, in the order of `claim/body.ts`), settling is
`Complete`, `Fail`, `HeadWake` and, with `next`, another `Claims` in the same
script. A worker is its loop (`claim`, `sent`, `reply`, `wait`, `ended`); a run is
one attempt, named by its token, from the reply that offers it to the end of its
slot's turn. `CountFree` counts the slots a CLAIM asks for, `Claim` runs the script,
asked for that many, and `StartOffered` receives its reply, so a settle that claims
for itself, a crash, a close or a reclaim may come between. `told` holds what a
worker is yet to hear, named by id and token as in the code: the canceled events
and what replies of RENEW say is lost. `HearCancel` and `HearLost` may come when the
run has ended and the id runs again. `MaxTold` of them are on their way at a time;
what is more is lost, as any of them may be. `BeatBehind` is a RENEW sent behind a
settle, which finds the token gone. Names of tokens are recycled once nobody holds
them and nothing on its way names them; ties the code breaks by id are left open.

What surrounds the store has modules of its own, each with as little of the
store as it needs. `GroupedQueue` drops the clock: what lapses, falls due or is
admitted by the rate is any choice, so that only the lines, counters and turns
count. `QueueSchedules` computes every moment on a client's clock and lets its
call arrive later. `QueueAdds` has a job's life as any order of its steps.
`FinishedWaits` takes a re-read and its answer as one step, and merges the
outcomes a call may be told into one.

### Guards

In `Idempotency` each call has a `pipe` of commands sent and not run, and the
`answers` on their way: a connection keeps order. `runScript` sends a script by
its SHA alone and again in full on NOSCRIPT, behind whatever followed it. Which
scripts the server holds is left open at each command, as calls with other keys
load them and a restart forgets them. `RateLimit` keeps the key as the script
stores it, a time `base` and a level `ahead`, and lets the server's clock go back
or on by `Skew` at a failover. In `RedisLock` a call stands for its token; `SetRuns`
takes the key, `WorkBegins` hears that it did, whoever holds it by then, and
`LateSet` is a SET that runs when its call has ended.

### Backups

A call is a program counter (`step`) over requests: `Send` checks the lease and
puts a request under way, `Arrive` lets it land, `Fails` lets it reject whether
or not it landed, `ArriveAfterCrash` lets it land after its process died.
`sent[r].age` bounds how long a request takes (`PutTime`). `prune` reads
(`Scan`), then reads again and decides (`Decide`, with `Removed` of
`RotationPlan`), then deletes newest first (`todo`), and of each backup the
manifest first (`Asked`, `Onwards`). The entries, catalog
and signature of a backup are one object, `data`; `DirectoryBackups` has them
apart, with one call at a time. `MongoBackup` keeps the log of what happened to
the database and derives its state at any point from it, so that what a backup
restores is compared with what was.

### Search sync

A version of a document is the position of its change in the log, so that a stale
version is told from the latest. `sync` is where a call of `start` or `reindex`
is, `follow` the stream and what is queued, `flush` the flush under way. `stalled`
records that a live process let its lease run out: the design gives no fencing
against that (`mongo-meilisearch/docs`, boundaries), so the safety properties are
stated where it did not happen.

### Storage

`Migrations` lets a timer renew the lock beside the steps, which look only at
whether a renewal found it gone (`checkLock`). `GridFS` is about who has which
chunk: contents are names with a size in chunks. `FileBytes` is about which bytes:
one id, whose chunks hold numbers. `SchemaSync` takes each request of a sync as a
step on what the server answered before; two options stand for those that can
be changed and those that cannot. In `IndexRebuild` the server runs the tasks it
took in order and may fail any.

## 3. What TLC checks

| run | instance | states | properties |
|---|---|---|---|
| `contention` | a job and 2 workers, 2 attempts, everything that can fail; 2 jobs and a worker of 2 slots; one id of a bucket; adds under one key | 1.4 M | SlotsSound, NoTheft, LifecycleSpec, ServesAsked, AddsKept |
| `baton` | 2 jobs of unlike priority, 2 workers that stay open, caps of 1 | 1.1 M | JobsInPlace, TokenIsFence, WorkHasWaker |
| `live` | 1 job, 3 attempts, one worker steady and one crashing | 92 k | JobsEnd |
| `backups` | 2 calls over a repository; a database of 3 collections; a folder of 2 files in 2 repositories | 2.2 M | Exclusion, Restorable, NeverAtOnce, RestoresAsOf, LandsSafely, ReadsBack |
| `sync` | 2 processes, 2 documents, 2 changes, 2 upsets | 531 k | OneWriter, NothingSkipped, Converges |
| `storage` | gridfs, transactions, migrations, documents, rotation, rebuild, schema, pages | 1.5 M | StorageTypeOK, StoredWhole, AppliedOnce, OneMigrates, RecordsTellAll, LockTells, KeepsPromised, NeverHalf, SyncsAgree, WalksWhole |
| `redis` | idempotency, lock, steps, groups, schedules, streams, limit, waits, connections | 1.6 M | WorksAlone, ResultsHold, DoneNeverBeside, OneStepValue, GroupsSound, OncePerOccurrence, DueIsFired, HearsOnce, NeverOver, AnswersHold, TellsOutcome, OpenWhileHeld |
| `letgo`, `givenback`, `shortfile`, `narrowed`, `leaked` | see [6](#6-where-the-code-and-its-documents-differ) | | one each, violated |

A run of several parts checks a specification that is a choice between them:
`part` says at first which one runs, and the others stand. The parts share no
variable, so a state of the run is a state of one part.

Why the bounds are enough.

- *Queue* (`contention`, `baton`, `live`). A job can be held by one worker while
  another reclaims it and the first settles late: two workers, one job, and three
  tokens (one in the store, two in stale runs) make every such overlap. How the slots
  of one worker are shared is another matter, with a part of `contention` to itself
  (`OfTwoSlots`): two slots and two jobs, so that the loop's CLAIM is on its way for
  one slot or two while a run ends and claims for itself, and three tokens, two in
  slots or offered and one more to show that a third was given out, or to be named by
  the message on its way (`MaxTold` is 1). A job there has one attempt: its id comes
  again by being added again once it lapsed, failed, was canceled or completed and is
  no longer kept. That queue is not paused and delays nothing, the jobs are alike,
  and the worker stays open. In the other part (`OfOneSlot`) workers close and crash,
  and nothing is heard late. In `baton` a run is cut off by what a renewal tells; a
  canceled job's is too, at the next renewal. The scripts treat jobs one by one,
  except where they page (the caps of 100 and 1000 are 1 here, so that a second claim
  must finish, in `baton`), order them (two priorities), and wake sleepers (two
  sleepers, two jobs). `KeepCount`, `KeepFailed` and `TrimCap` are small enough for a
  trim to take a job. `wake` holds one token at most by construction of the scripts,
  which LLEN before they push.
- *Bytes of a file* (`contention`). One id, which two puts, a delete, a drop of
  the bucket and a reader share; three bytes in chunks of two, so that a chunk is
  full, another partly, and a batch of two lands a prefix. Ranges within a chunk,
  across two, beyond the end, empty and refused. At most one of the puts is in a
  transaction, whose chunks nobody sees before it commits; it may run twice. A
  chunk is lost only while no put is under way.
- *Adds* (`contention`). Two calls with two items at most, in chunks of one: each
  order of debounced, throttled and named adds around a claim, a retry and a
  close. `Wait`, `Grace` and `Window` are 1, 1 and 2, and time ends at
  `MaxNow` = 2: a key is there, in its grace, or gone. A caller uses a key for
  debounce or throttle, not both.
- *Calls of backup* (`backups`). Exclusion and `NeverAtOnce` are about pairs, and
  are also proved, as is `Restorable`. The repository holds a full backup and an incremental on it,
  and a third can be made, so that a create can build on what a prune removes. A
  call runs once: what it leaves is met by the other. Two policies, one by number
  and one by age, make a prune remove either backup or none.
- *Database* (`backups`). Three collections (one followed, one left out by a
  filter, one that renames reach), any three events, two backups after the first,
  and one restore (`MaxRestored`) beside another process. An event meets each
  phase of a backup, and two events each pair of phases.
- *Folder* (`backups`). Two files of two contents, one write while a create reads
  and one mishap of a repository, three backups: full, then on it, then on that.
  `MaxClock`, `Settled` and `Granule` are 1: a file changes within the grain of
  its date or past it.
- *Search sync* (`sync`). Two changes make a stale and a latest version, two
  documents a batch and a page each, two upsets any pair of failures (a crash
  during another process's take-over, a failed flush then a failed release). Three
  changes were checked once for safety alone (23 M states). A second `drop`, and a
  reindex that meets lost history, are within the bounds.
- *Storage*. Files: three calls about two contents, one of them of two chunks,
  with retries; the same bytes meet in a pair, and a third call in their midst.
  Transactions: three runs of the callback. Migrations: three of them, two that a
  transaction can hold; two deploys over lists that differ by one, taken as
  unordered pairs as deploys are alike. Documents: three callers about two, which
  are both there or both absent at first, so that a pair of writes has a third
  between. Rotation: every repository of four backups (a chain of a full one and
  increments beside another chain, held ones, stand-ins, one from the future);
  sizes 1 and 2 with limits 3 and 4 make the size rule stop before, in and after a
  chain; one rule stands for the four of the calendar, which differ in the map
  from ages to periods only. Rebuild: two, one after the other, of two batches; a
  definition without settings only of an index that is there.
  Schema: two syncs at once of four that may be asked for, one mishap, drops at
  any time. Pages: four rows of two values or null, pages of two, one row that
  moves (`MaxMoves`) each way.
- *Redis*. Idempotency: a key is taken, lapses, is taken again and completed late
  with two calls; `MaxPipe` allows one renewal at a time, which may still be sent
  again behind the result. Lock: three calls, so that a release meets the second
  holder after the key passed twice, and an answer or a SET that is late meets a
  holder and one that follows it. Steps: three attempts. Groups: two jobs of
  one group and one of another, two definitions, and every sequence of scripts.
  Schedules: one (they share nothing), two workers whose clocks differ by the
  granule of the spec, one administrator, two moments. Streams: three iterators
  over two keys, two attempts to subscribe, one message. Limit: three requests in
  two milliseconds of two "microseconds", so that nothing divides evenly, a burst
  of two, and a skew longer than a refill. Waits: two calls about one queue and
  a third of another, all on one connection, two connections in all; the first
  call is `w1`, as the two are alike, and the server drops a connection while one
  has not called yet. Connections: two applications of one and two instances over
  two clients, and three connects.

`CHECK_DEADLOCK FALSE` is set where the instance comes to rest: all calls over,
changes and upsets used up, the plan made. In `contention` the parts other than
the queue may stand still, and the queue may never stop: deadlock is checked of
it, in `contention`, `baton` and `live`.

What the properties say is in the comment above each. The ones hardest to see in
the code:

- `WorkHasWaker`: claimable work always has a token on `wake` or a worker about
  to claim, though tokens are popped, lost with a connection, and deleted by a
  claim that drains `ready`. It is checked while workers neither close nor crash:
  a worker that dies with the token in its hand leaves the others to the 5 s cap
  of their wait, which `JobsEnd` covers.
- `NoTheft`: a job leaves the run that holds it by that run's own settle, by a
  cancel, or past its lease.
- `SlotsSound`: the loop counts the free slots before its CLAIM is sent, and the
  slots claim for themselves meanwhile; yet the runs never outnumber the slots
  (`SlotsBounded`). And a run cut off by a late cancel or a late renewal lets its job
  go unsettled, which is right as it holds it no more (`AbortedHoldsNothing`).
- `LifecycleSpec`: the whole queue is a refinement of `JobLifecycle`, under
  `status`, `attempt` and `paused` read off `db`.
- `AddsKept`: five promises at once - a job that began is not changed, the last
  edit is in a job that runs, it waits its whole time, one job per window, and a
  refused batch adds nothing.
- `Restorable`: holds between any two requests, after any crash, with late puts.
- `RestoresAsOf`: what a chain of backups restores is the database as it was at
  one position of its log, computed apart from the backup's own path.
- `ReadsBack`: what a create took for a file's content is what that file held at
  some moment of the create, and each repository that is complete gives it back.
- `NothingSkipped`: per document, the index holds the version at the recorded
  point or a later one, whichever process recorded it.
- `RecordsTellAll`: the records are a prefix of the list of the run at work and a
  migration in a transaction is there exactly where it is recorded, whatever
  failed, crashed or was sent twice.
- `NeverHalf`: the live index holds what it held or everything a run added, and
  each thing a caller is told ("done", "as it was", "deleted") is so; of a run that
  began among tasks of earlier ones it says less, as
  [6](#6-where-the-code-and-its-documents-differ) tells.
- `OncePerOccurrence`, `DueIsFired`: one job per moment, and none passed over,
  but for calls that were late and schedules that did not parse, named in each.
- `DoneNeverBeside`: nothing renews the lock, so two works may run beside each other,
  where the ttl ran out under one or before its SET was answered. It says that one
  of the two at most is told its value; it does not say that this one ran alone, as
  it may have taken the key of a call that still worked.
- `TellsOutcome`: a call that listened when its job ended is told so, also where
  the hash is gone when it reads, and in the grace of a close.
- `AnswersHold`: `remaining`, `retryAfter` and `resetAfter` are what the next
  calls find.

## 4. Fairness

- *Queue* (`live`): `Tick`, since time passes; the loop of a worker that is alive
  and the turn of a slot, since a handler ends by itself or by its timeout and
  an event loop goes on; and a loop that sends CLAIM again and again has one of them
  run, as not all are lost. A crash takes the worker out of these. What is on its way
  comes or is lost. Nothing else is assumed of renewals, cancels, lost replies or
  clients. One worker never crashes, the
  least under which a job can end.
- *Search sync* (`sync`): each process goes on by itself (requests are answered
  or fail, timers fire); the steady process is started again whenever it stopped,
  which is what the guide asks of a supervisor; a lease nobody renews lapses.
  Failures are bounded (`MaxUpsets`), as no sync converges while every request
  fails.
- The other specifications are safety only.

## 5. What is proved

Everything below holds for every value of the constants that satisfies the
assumptions named in the modules (`StoreAssumption`, `QueueAssumption`,
`LockAssumption`, `BackupsAssumption`, `IdempotencyAssumption`, and those of the
others): finite sets of jobs and workers, a positive lease, at least one attempt
and one slot, clocks that disagree by at most a lease, and the like.

**The queue** (`JobQueueProofs`: `Invariance`, `TypeCorrect`,
`JobsInPlaceHolds`, `TokenIsFenceHolds`, `AttemptBudgetHolds`). The inductive
invariant is `IInv == Consistent(db, worker, run)`: the store is well formed
(`StoreInv`: types, each job in the one set its hash names, tokens held by active
jobs and by one only, attempts within the budget, `ready` totally ordered),
workers and runs have their types, and a job held under the token of a run is
that run's job. None of the parts is inductive alone: a settle trusts the token
only, so that its job is `active` comes from the fence; that a reclaimed job has
an attempt left comes from its being counted when claimed. `JobStoreProofs` shows
it of each Lua function, with the store as a parameter (`...Keeps`), so that a
script is a composition of lemmas; `JobQueueProofs` then has one step per action.
The token of a new run is fresh, by the choice of `Claims`.

Three further theorems rest on it. `LifecycleHolds`: each Lua function gives each job
a `Fate` - a move of its life or none, not taken while its lease holds, and no token
given out before - and a script composes fates, at most one of which is a move; so
every step of `JobQueue` is a step of `JobLifecycle` or a stutter. The same lemmas
give `NoTheftHolds`. `SlotsSoundHolds` (`SlotsBoundedHolds`,
`AbortedHoldsNothingHolds`) needs three more invariants. `SlotInv`: a worker's runs
and the slots its CLAIM asks for are no more than its slots, and jobs are offered
only until their reply is received; the claim of a slot replaces the run that
settled, so it takes none of the free ones. `ToldInv`: a message names a token under
which no job is held any more, and which is not given out again while the message is
on its way, so that the run it finds late has lost its job, whatever runs under that
id since. `CutInv`: a run that was cut off has let its job go, or its slot is not
reused. `TypeCorrect` rests on `ToldInv` too.

**Adds under keys** (`JobQueueProofs`, `AddsKeptHolds`), for any batches, chunk
size, waits and windows. `AddsInv` speaks of what was sent so far (`Sent`): a job
with the data of a debounced add stays delayed until its wait is over (`InTime`); a
job whose handler was given its data has an attempt to show for it, or says that it
was put back by hand (`JobFixed`) - which is why `waiting_job` may trust the two;
and a throttle's key is that of a job it let through, and outlives every window
(`KeyIsLet`, `KeyLasts`). A chunk is a recursive function of its items, so the
invariant is stated of the store *and* the answers given so far, and is shown of
each outcome of one item (`AddOneKeeps`); `Counting`, from well-founded induction,
carries it to the chunk's end. It assumes that an id made for a job is not one that
a caller gives (`redis/src/queue/binding/resolve-add.ts:96`).

**Idempotency** (`IdempotencyProofs`: `TypeCorrect`, `WorkAlone`,
`ResultsHoldAlways`). Of two calls whose key was not taken from them, one works
at most. `Own` says more than the property: a call holds the key already when the
answer that lets it work is on its way (`Starts`), which is what BEGIN
establishes. `Early` is what keeps it true: until its work ends, nothing a call
sent, nor any answer it may resend, completes or releases the key, so no late or
repeated command of its own gives up a key it works under; those of others
compare the token. For `ResultsHold`: a call has one BEGIN under way at a time
and sends one COMPLETE in all, each sent again only after it heard that it did
not run; so what began and what was stored are never undone, and the record is
that of its run.

**The groups** (`RedisProofs`, `GroupsSoundHolds`), for any jobs, groups, cap and
definitions: the four invariants `groups.ts` states at its head. Sorted sets and
the list of turns are sequences that list a set, each member once (`Listing`), so
that lengths are cardinalities. `SoundUnder` is the property as one definition
sees the queue, and each function of `GROUP_FN` keeps it (`ReadyAddKeeps`,
`LeavesKeeps`, `TurnKeeps` and so on); the loops of a claim keep what their rounds
keep (`IteratesExist`, `LoopReaches`, from `Counting`). A queue of no mode is
`Idle`, and so sound for whatever definition comes next: that is why a mode may
only be deleted once the queue is drained.

**The waits** (`RedisProofs`, `TellsOutcomeHolds`, `FinishedTyped`), for any calls,
workers, queues, connections and drops. The invariant `WaitsInv` says why the
outcome owed to a call cannot be overtaken: it is on the connection the call listens
through, in front of the answer of the call's PING and of the close's
(`OwedSound`, `Ahead`). Three facts carry it. A channel whose SUBSCRIBE was answered
is heard until its connection is dropped: the commands of a channel run in turn, and
one answer is under way at a time (`ChannelSound`). A call flushes only for a job
that is gone, so its PING is asked behind the event (`CallSound`, `PlaceSound`). And
all that listen do so through one connection, which is where the close sends its
PING (`SharedSound`, `CloseSound`); so the loss of it ends the flush and the debts at
once (`FlushedByIs`). For this `WaitsAssumption` also asks that no call is
named `"life"`, the model's name for the sender of the close's PING.

**The guards and parts of the queue** (`RedisProofs`).

- `NeverOverTheLimit`, `LimitTypeCorrect`, `AnswersHoldAlways`: the bucket's time
  is never more than `Skew` ahead of what has passed, the key outlives its level,
  and `spent <= level + Limit * (base - elapsed)`. `WaitDrains` is the arithmetic
  of an answer: rounded up, a wait drains what it should.
- `DoneNeverBesideHolds`: a call's SET takes the key once at most, so a call that lost
  it has lost it for good (`Held`); and of two works beside each other one has, the
  earlier where the key lapsed under its work, the later where it lapsed before the
  answer (`LockInv`).
- `OneStepValueHolds`: an attempt that began a step while it held the job finds
  the hash without a value if it still holds it when it commits (`StepInv`).
- `OncePerOccurrenceHolds`, `DueIsFiredHolds`: past a fired occurrence its
  schedule stands at a later moment, unless a late call wrote an earlier one
  (`FiredIsPast`).
- `HearsOnceHolds`: each connection brings a message once, and an iterator is
  ready only while the hub it joined is live or its own (`StreamsInv`).
- `OpenWhileHeldHolds`: a shared client counts exactly those who hold it and
  those who wait for it, and what an application holds are the instances it has
  passed (`ClientsInv`).

**The backup lock** (`BackupsProofs`, `LockExcludes`). `LockInv` adds to the
types: `Certified` - while a run's deadline is less than a lease past, its file
is there with a date no earlier than the deadline; `Ahead` - a renewal under way
carries a later date than the deadline; `LookedAll`; and `Mutual` - of two recent
runs that listed, one saw the other. A file found stale by some clock is a lease
behind (`StaleIsOld`), so it is nobody's recent one.

**The calls of backup** (`BackupsProofs`, `CallsExclude`, `CallsNeverAtOnce`). A
step of a call is a step of the lock or leaves it alone, so it inherits
`Exclusion`. That no two calls have requests under way at once needs more, as a
dead call's request may still land: `CallInv` adds `Timed` (a request under way is
younger than what its lease, or its file, had left) and `Alone`, and rests on
`Covered == PutTime + Skew <= Lease`, stated as an assumption of the theorem. It
is tight: with `PutTime` and `Skew` each within a lease and their sum not, TLC
finds two calls that write at once.

**What exists can be restored** (`BackupsProofs`, `RestorableHolds`), whichever
calls crash, fail, lose their lease or land late, for any number of runs and
backups and any policy of the rotation. It brings the three above together
(`RestInv`, which TLC checked on two runs before). Each request under way is one
that leaves the repository restorable wherever it lands (`SafeRequest`): a
manifest goes up where its objects are and its base exists; one goes down where
nothing is built on it and no hold is. What a call has found out and will send
next is so as well, while its lease holds (`Prepared`): what it scanned is what
exists, and each backup in `todo` comes after all that is built on it. That stays
true because nobody else has a lease, or a request still to land, meanwhile
(`ActiveAlone`, from `Mutual`, `Timed` and `Alone`); before it has the lock, a
call has found nothing out (`Fresh`). That a prune's list is prepared rests on the
rotation: what is held is kept (`HeldKept`), what a kept backup builds on is kept
(`KeptClosed`), and newest first puts what is built on a backup before it
(`NewestFirstLists`), as a base is older. It assumes `Covered`, and that the
repository was restorable to begin with.

**The search sync** (`SearchSyncProofs`: `SyncInvariance`, `OneWriterHolds`,
`NothingSkippedHolds`), where `BreaksMidFlush` is FALSE, that is but for what
`letgo` shows. Every process but the holder is idle, unless one stalled; that is
`OneWriter`. For `NothingSkipped`, `Since[d][r]` is the set of versions that
document `d` had at position `r` or later, and the invariants say, of each place a
version may be: each page of a reindex gave one since the position it recorded
(`CallInv`); once what is pending is sent, the index is at the stream's reach
(`StreamInv`); the point a flush will record is at most that reach and never
before the recorded one (`FlushInv`). A take-over starts from the recorded point,
of which the invariant already speaks.

**The rotation** (`RotationPlanProofs`, `StorageProofs`: `KeepsPromisedHolds`),
for every set of candidates that manifests can describe and every policy
(`RotationAssumption`: a parent is older, as `format/manifest.ts` demands, and a
stand-in is held). The plan is recursive twice: the parents of what is kept, and
what the size rule drops, one at a time. The library's induction theorems take an
operator, which no prover here can instantiate; but for a given set of numbers,
well-founded induction over a *set* is within reach. `LeastNumber` and
`AllNumbers` state it so, `Recursion` gives from it that a recursive function on
numbers satisfies its equation, and `ChainEquation` the same of a chain, by the
descent from a backup to its parent. `WithParentsClosed` and `DropsNoSpared` -
nothing dropped is held, among the newest, or built on - then give `KeptKeeps`.

**The parts of Storage** (`StorageProofs`).

- `AppliedOnceHolds`: work is applied only when the server committed, which it
  does under a call that is committing or was not told to try again
  (`CommittedOnce`).
- `OneMigratesHolds`, `RecordsTellAllHolds`: a run at work that was not taken
  over is the one the lock names, so of two such runs there is one; what is
  recorded is a prefix of its list, and its plan the steps from there
  (`MigrationsInv`). The name of no deploy is `"nobody"`, which is what the lock
  says when it is free.
- `LockTellsHolds`: since a caller read its document, either no audited write
  came to it, or its version moved on, or it is another document
  (`DocumentsInv`).

- `NeverHalfHolds`, for any number of rebuilds and batches: each batch a run added
  is in the queue, failed, or in the next index (`Filling`), so once its tasks are
  over and none failed the next index is whole, or gone (`Filled`); a swap in the
  queue is the next task (`SwapSound`), as a run that sends one has seen the queue
  empty; and a run that met no task of another knows at each step what the next
  index is (`NextAlone`). Proving it found what
  [6](#6-where-the-code-and-its-documents-differ) says of three rebuilds: the
  property, true of two, was false.
- `StoredWholeHolds`, for any calls, contents, lengths and retries (`GridInv`): a
  call's chunks lie under the id it stands for, or aside, as far as it got
  (`PutRight`); one that is gone before its call took it down was taken by a delete
  that found another's file under that id (`Lies`, `TakenBy`), which is also the
  exception the property makes; and a chunk left behind by a call that ended is its
  document's, or a delete that took the document is on its way to it (`LeftRight`,
  `OnItsWay`). It assumes that an id made for a call is new (`new ObjectId()`,
  `mongo/src/gridfs/operations/writes.ts:43`, `put-once.ts:64`).
- `WalksWholeHolds`, for any finite rows, values, orderings, page size and writes
  beside the walk (`PagesInv`): a page is the first rows of what comes after its
  cursor, so the still documents a walk by cursors has given are exactly those its
  cursor is not before (`GivenSoFar`). A row's rank is a bijection onto `0..n - 1`,
  so page `i` by number holds the ranks from `(i - 1) * Limit` on, and
  `PageCount` pages hold them all (`NumbersSoFar`, `PagesCover`). It assumes that a
  primary key is not null: the statement was false without it, as null is the value
  a cursor compares by when it has none.

**Only model-checked.** `WorkHasWaker`; `RestoresAsOf`, `LandsSafely` and
`ReadsBack`, which compare what recursive walks over chains and catalogs compute;
`SyncsAgree` and `ServesAsked`. Liveness (`JobsEnd`, `Converges`) stays with TLC, as
TLAPS has no rule for fairness here. What the violation runs show is outside of the
theorems: each such theorem carries the condition as a hypothesis
(`~BreaksMidFlush`) or as a disjunct of its property.

## 6. Where the code and its documents differ

| run | what the code does | what is said of it |
|---|---|---|
| `letgo` | when the stream ends by an error, the lease is let go under a flush that is still sending (`mongo-meilisearch/src/run/follow.ts:135`) | "after the last queued flush, and with the lease let go" (`follow.ts:106`) |
| `givenback` | a BEGIN answered NOSCRIPT after its call timed out is sent again behind the release that should free its key (`redis/src/idempotency/run.ts:124`, `redis/src/scripts/run-script.ts:43`) | "it frees a key the late `BEGIN` took" (`run.ts:98-101`; `redis/docs/guide/guard/idempotency.md:343`) |
| `shortfile` | a delete that took the document of an earlier copy sweeps the chunks of the next one as a `putOnce` moves them in (`mongo/src/gridfs/operations/claim.ts:60`, `writes.ts:177`) | "would be stored short, and read as corrupt, which is exactly what this call exists to prevent" (`claim.ts:57`) |
| `narrowed` | under a narrower filter, a rename over a collection the chain follows is kept as nothing, or as a drop of the old name alone (`mongo-backup/src/source/events.ts:181`) | "the incremental keeps recording the changes to every collection the chain follows" (`mongo-backup/docs/guide/incremental.md:171`) |
| `leaked` | a subscription still connecting when its Redis closes is recorded after the sweep, and goes on (`redis/src/wiring/channel-of.ts:34`) | "`close()` closes every subscription the wiring started" (`redis/README.md:483`) |

`givenback` costs time: a key held for one more lease. `letgo` lets two writers
meet; the others lose or leave something behind, each in a rare order.

Others were met while modelling, and are told here only:

- RENEW compares the token alone, so a lease that lapsed and was not reclaimed
  yet is brought back (`redis/src/queue/scripts/renew.ts:26`;
  `docs/superpowers/specs/2026-10-18-redis-queue-design.md:144`).
- Once a change was queued, `f.last` is never cleared, so the beat of a quiet sync
  finds nothing to record, and its point stands still
  (`mongo-meilisearch/src/run/follow.ts:66`; `following-changes.md:71`).
- One lease past `expiresAt` is shared by clocks that disagree and puts that land
  late: each alone may take a lease (`backup/docs/guide/locking.md:192`, `:207`),
  but together no more than one, or two writers meet (`:148`).
- `abortTransaction` with `retryTransient: false` rejects
  (`mongo/src/transaction/with-transaction.ts:185-186`), where
  `mongo/README.md:1959` and `mongo/docs/guide/transactions.md:97` say that it
  resolves.
- Where collections are renamed there and back around a full backup's snapshot,
  what was listed is not what was read (`mongo-backup/src/source/catalog.ts:97`);
  `RestoresAsOf` names it.
- A collection says of every document it still finds that it moved, the
  soft-deleted ones it read as such included (`mongo/src/collection/operations/writes.ts:48`;
  `mongo/docs/guide/errors.md:31`); `LockTells` names it.
- An index without a collation of its own, in a collection with one, is rebuilt at
  every sync (`mongo/docs/guide/sync.md:110-114`).
- A cursor over values of mixed types, or NaN, skips some (`mongo/README.md:764-766`);
  a repository's cursor needs columns that are NOT NULL and of millisecond
  precision, as its documents say.
- A rebuild that timed out leaves its deletion of the next index in the queue; one
  that begins before it was served finds that index, sets it up, and fills it again
  after the deletion, without its settings, and swaps it in
  (`meilisearch/src/sync/rebuild-index.ts:203-216`; `:166` "never half of
  them"). It takes three rebuilds; `NeverHalf` names those it can befall (`late`).
- A close that meets an UNSUBSCRIBE which rejects leaves the other subscriptions
  and clients open (`redis/src/wiring/close.ts:23-31`).

## 7. What is not modelled

Components without a module are in `PROJECT.json` with the reason: most are single
requests, reads, encodings or wiring. Of the others:

- *Queue.* The rate of a queue and progress; hashes this package could not have
  written (`refuse`, `unsound`) and data that does not parse; events other than
  `canceled` and those `finished` waits for. A renewal's sending and its script are
  one step, as are a cancel's script and the event's sending; that the reply or the
  event arrives, late, or is lost is another. A throttle with a delay.
- *Waits.* One job per queue, not added again; an event takes less than
  `REREAD_MS`; commands of different channels are not ordered; the PINGs of calls
  that ended.
- *Connections.* The order of the sweep, `ping`, and instances that are alike.
- *Backups.* `requireEverywhere`; manifests that do not read, in `Backups` (they
  are in `RotationPlan`); listings that lag behind writes (the code asks for a
  store without). In `DirectoryBackups`: one create at a time; keys change only
  between creates after the first; a file is read at once; damage to an object is
  only found by verify; one mishap in all; a restore of one part.
- *mongo-backup.* One document per collection and one value for its metadata;
  history may be lost at any time; the snapshot and its listing read the latest
  state; five attempts at a pin are one that may fail at any time; views,
  time-series collections and renames into other databases.
- *Search sync.* Soft deletes; a second call on an object already following;
  tasks Meilisearch applies after the call that sent them gave up; requests that
  land after their process died; pages of more than one document;
  `removeUnwanted` listing and deleting in two steps.
- *Idempotency.* Records the package could not have written: BEGIN's `corrupt` is
  met only in the millisecond a sound record expires. What a lost connection had
  not run is never run.
- *Storage.* GridFS: renaming, listing, metadata; a batch is one insert, which may
  land a prefix. Migrations: `dryRun` and status, which read. Documents: the types,
  the coercion of ids, the wording of filters. Schema sync: one collection;
  `createIndexes` conflicts by name or key only. Rebuild: one at a time, as
  `meilisearch/docs/guide/rebuild.md` asks; a request that failed reaches the
  server by then or never; the primary key, and writes to the live index.

## 8. Plan

Done: all modules of [2](#2-the-modules), and the theorems of
[5](#5-what-is-proved). Next, in order:

1. Proofs: `WorkHasWaker` for workers that stay open; `ServesAsked`.
2. `Restorable` beside several repositories (`requireEverywhere`).
3. The moments of a cron and its zone (`redis/src/queue/schedule`), a pure
   function, against a reference that looks at every minute.

## 9. Running it

In this directory, with TLC and the community modules on the path:

    tlc -workers 2 -config Contention.cfg MCContention.tla
    tlapm JobQueueProofs.tla

Each run of `PROJECT.json` names its module and configuration; those of the
violation runs end with the counterexample. The passing runs take between a few
seconds and five minutes each, a module of proofs up to half an hour from nothing.
