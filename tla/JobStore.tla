------------------------------ MODULE JobStore ------------------------------
(***************************************************************************)
(* The Redis keys of one ungrouped, unlimited queue and the Lua functions  *)
(* its scripts are made of (packages/redis/src/queue/scripts).  A store is *)
(* a record `d' with one field per key; an operator takes the store a Lua  *)
(* function starts from and gives the one it leaves, so that a script,     *)
(* which Redis runs atomically, is a composition of them.                  *)
(*                                                                         *)
(* A sorted set is a function from its members to their scores.  Scores    *)
(* that are times are kept relative to the server's clock, which is all    *)
(* the scripts ever compare them with: `delayed' holds the time left until *)
(* runAt, `active' the time left of the lease, `completed' and `failed'    *)
(* the time since the job finished.  PassTime is one tick of that clock.   *)
(***************************************************************************)
EXTENDS Integers, FiniteSets

CONSTANTS
  Jobs,         \* the job ids
  Tokens,       \* names for the random tokens, recycled once nobody holds them
  None,         \* no token
  Priority,     \* [Jobs -> Nat], the lower number first
  Attempts,     \* the definition's attempts
  Lease,        \* the definition's lease
  KeepAge,      \* keepCompleted.age, or -1 for keepCompleted: false
  KeepCount,    \* keepCompleted.count
  KeepFailed,   \* keepFailed
  ReclaimCap,   \* 100: lapsed leases reclaimed by one claim
  PromoteCap,   \* 1000: due jobs promoted by one claim
  TrimCap       \* 100: jobs dropped by one trim

ASSUME StoreAssumption ==
  /\ IsFiniteSet(Jobs)
  /\ Tokens \subseteq Nat /\ None \notin Tokens
  /\ Priority \in [Jobs -> Nat]
  /\ Attempts \in Nat \ {0}
  /\ Lease \in Nat \ {0}
  /\ KeepAge \in Nat \cup {-1} /\ KeepCount \in Nat /\ KeepFailed \in Nat
  /\ {ReclaimCap, PromoteCap, TrimCap} \subseteq Nat \ {0}

(***************************************************************************)
(* Definitions whose name starts with "Bad" are wrong variants of the one  *)
(* they precede, each with a mistake the code could have made; the         *)
(* properties are checked to tell them apart.                              *)
(***************************************************************************)

(***************************************************************************)
(* Keys                                                                    *)
(***************************************************************************)

States == {"none", "waiting", "delayed", "active", "completed", "failed"}

Hash == [state : States, token : Tokens \cup {None}, attempt : 0 .. Attempts]

\* A job with no hash.
NoHash == [state |-> "none", token |-> None, attempt |-> 0]

EmptyStore ==
  [ hash      |-> [j \in Jobs |-> NoHash],
    ready     |-> {},              \* the ids in `ready' ...
    before    |-> {},              \* ... and the order of their scores
    delayed   |-> <<>>, active |-> <<>>, completed |-> <<>>, failed |-> <<>>,
    wake      |-> 0,               \* the length of the list
    paused    |-> FALSE ]

\* A sorted set of jobs: a score for each of its members.
IsZSet(z) == DOMAIN z \subseteq Jobs /\ z \in [DOMAIN z -> Int]

\* The keys have their types, and the times left are those the scripts tell apart.
IsStore(d) ==
  /\ d \in [ hash : [Jobs -> Hash], ready : SUBSET Jobs, before : SUBSET (Jobs \X Jobs),
             delayed : {d.delayed}, active : {d.active},
             completed : {d.completed}, failed : {d.failed},
             wake : {0, 1}, paused : BOOLEAN ]
  /\ IsZSet(d.delayed) /\ IsZSet(d.active) /\ IsZSet(d.completed) /\ IsZSet(d.failed)
  /\ \A j \in DOMAIN d.delayed : d.delayed[j] >= 0
  /\ \A j \in DOMAIN d.active : d.active[j] >= -1

(***************************************************************************)
(* Sorted sets                                                             *)
(***************************************************************************)

Put(z, S, score) ==
  [j \in DOMAIN z \cup S |-> IF j \in S THEN score ELSE z[j]]

Drop(z, S) == [j \in DOMAIN z \ S |-> z[j]]

Min2(a, b) == IF a < b THEN a ELSE b
Max2(a, b) == IF a > b THEN a ELSE b

\* What ZRANGE ... LIMIT 0 n may answer of the members S: ties go by id, which
\* the model leaves open.
Lowest(z, S, n) ==
  { T \in SUBSET S : /\ Cardinality(T) = Min2(n, Cardinality(S))
                     /\ \A a \in T, b \in S \ T : z[a] <= z[b] }

Highest(z, S, n) ==
  { T \in SUBSET S : /\ Cardinality(T) = Min2(n, Cardinality(S))
                     /\ \A a \in T, b \in S \ T : z[a] >= z[b] }

\* The orders in which a loop over S may visit it.
Orders == [ S \in SUBSET Jobs |->
  { ord \in SUBSET (S \X S) :
      /\ \A a, b \in S : a # b => (<<a, b>> \in ord <=> <<b, a>> \notin ord)
      /\ \A a \in S : <<a, a>> \notin ord
      /\ \A a, b, c \in S : <<a, b>> \in ord /\ <<b, c>> \in ord => <<a, c>> \in ord } ]

(***************************************************************************)
(* Lua functions shared by the scripts                                     *)
(***************************************************************************)

\* The jobs of S in state `st', their token field deleted.
Moved(d, S, st) ==
  [d EXCEPT !.hash = [j \in Jobs |->
     IF j \in S THEN [d.hash[j] EXCEPT !.state = st, !.token = None] ELSE d.hash[j]]]

\* The hashes of S deleted.
Deleted(d, S) ==
  [d EXCEPT !.hash = [j \in Jobs |-> IF j \in S THEN NoHash ELSE d.hash[j]]]

\* wake(key): at most one token.  The callers that respect a pause ask first.
Wake(d) == [d EXCEPT !.wake = 1]
WakeUnlessPaused(d) == IF d.paused THEN d ELSE Wake(d)

\* is_head(delayedKey, runAt)
IsHead(d, runAt) == \A j \in DOMAIN d.delayed : runAt < d.delayed[j]

\* ready_add for each job of S in the order `ord', with a fresh seq each: after
\* every job of its priority, before every job of a later one.
ReadyAdd(d, S, ord) ==
  [d EXCEPT
    !.ready  = @ \cup S,
    !.before = @ \cup { p \in d.ready \X S : Priority[p[1]] <= Priority[p[2]] }
                 \cup { p \in S \X d.ready : Priority[p[1]] < Priority[p[2]] }
                 \cup { p \in S \X S : \/ Priority[p[1]] < Priority[p[2]]
                                       \/ Priority[p[1]] = Priority[p[2]] /\ p \in ord }]

\* ready_rem, or ZPOPMIN
ReadyRem(d, S) ==
  [d EXCEPT !.ready = @ \ S, !.before = @ \cap ((d.ready \ S) \X (d.ready \ S))]

\* add_job: nothing when the id has a hash, else `ready' when due, or `delayed'.
AddJob(d, j, delay) ==
  LET new(st) == [d EXCEPT !.hash[j] = [NoHash EXCEPT !.state = st]]
  IN  IF d.hash[j].state # "none" THEN d
      ELSE IF delay = 0 THEN WakeUnlessPaused(ReadyAdd(new("waiting"), {j}, {}))
      ELSE LET poked == IF IsHead(d, delay) THEN WakeUnlessPaused(new("delayed"))
                                            ELSE new("delayed")
           IN  [poked EXCEPT !.delayed = Put(d.delayed, {j}, delay)]

(***************************************************************************)
(* The claim: reclaim, promote, pop and begin, pass the baton              *)
(***************************************************************************)

\* Reclaims a lease at its deadline, not past it.
BadLapsed(d) == { j \in DOMAIN d.active : d.active[j] <= 0 }

Lapsed(d) == { j \in DOMAIN d.active : d.active[j] < 0 }

\* Leaves the token on the reclaimed hash, and counts the attempts off by one.
BadReclaim(d, L, ord) ==
  LET back == { j \in L : d.hash[j].attempt <= Attempts }
      moved == [j \in Jobs |-> IF j \in back THEN [d.hash[j] EXCEPT !.state = "waiting"]
                               ELSE d.hash[j]]
  IN  ReadyAdd([d EXCEPT !.hash = moved, !.active = Drop(@, L)], back, ord)

Reclaim(d, L, ord) ==
  LET back  == { j \in L : d.hash[j].attempt < Attempts }
      moved == [j \in Jobs |->
                 IF j \in back THEN [d.hash[j] EXCEPT !.state = "waiting", !.token = None]
                 ELSE IF j \in L THEN [d.hash[j] EXCEPT !.state = "failed", !.token = None]
                 ELSE d.hash[j]]
  IN  ReadyAdd([d EXCEPT !.hash = moved,
                         !.active = Drop(@, L),
                         !.failed = Put(@, L \ back, 0)], back, ord)

Reclaims(d) ==
  UNION { { Reclaim(d, L, ord) : ord \in Orders[L] } :
            L \in Lowest(d.active, Lapsed(d), ReclaimCap) }

Due(d) == { j \in DOMAIN d.delayed : d.delayed[j] = 0 }

Promote(d, P, ord) ==
  ReadyAdd([Moved(d, P, "waiting") EXCEPT !.delayed = Drop(@, P)], P, ord)

Promotions(d) ==
  UNION { { Promote(d, P, ord) : ord \in Orders[P] } :
            P \in Lowest(d.delayed, Due(d), PromoteCap) }

\* Pops while paused, and pops the last.
BadHeads(d, n) ==
  { S \in SUBSET d.ready :
      /\ Cardinality(S) = Min2(n, Cardinality(d.ready))
      /\ \A a \in S, b \in d.ready \ S : <<b, a>> \in d.before }

\* The n first of `ready', none while paused.
Heads(d, n) ==
  { S \in SUBSET d.ready :
      /\ Cardinality(S) = IF d.paused THEN 0 ELSE Min2(n, Cardinality(d.ready))
      /\ \A a \in S, b \in d.ready \ S : <<a, b>> \in d.before }

\* One fresh token for each job of S: any, and the least names for a small model.
NewTokens(S, fresh) ==
  { tok \in [S -> fresh] :
      /\ \A a, b \in S : a # b => tok[a] # tok[b]
      /\ \A t \in fresh : (\E a \in S : t < tok[a]) => \E b \in S : tok[b] = t }

Begin(d, tok) ==
  LET S == DOMAIN tok
  IN  [ReadyRem(d, S) EXCEPT
        !.hash = [j \in Jobs |->
                   IF j \in S THEN [state |-> "active", token |-> tok[j],
                                    attempt |-> d.hash[j].attempt + 1]
                   ELSE d.hash[j]],
        !.active = Put(@, S, Lease)]

\* Passes no baton on.
BadBaton(d) == [d EXCEPT !.wake = 0]

Baton(d) == [d EXCEPT !.wake = IF ~d.paused /\ d.ready # {} THEN 1 ELSE 0]

\* What claim(n, ...) may leave and answer: the store, and the jobs begun with
\* their tokens.
Claims(d, n, fresh) ==
  LET kept   == UNION { Promotions(d1) : d1 \in Reclaims(d) }
      toks(d2) == UNION { NewTokens(S, fresh) : S \in Heads(d2, n) }
  IN  UNION { { [db |-> Baton(Begin(d2, tok)), tok |-> tok] : tok \in toks(d2) } :
                d2 \in kept }

\* next_wait, -1 for nothing to wait for; `cap' while paused.
NextWait(d, cap) ==
  IF d.paused THEN cap
  ELSE IF DOMAIN d.delayed = {} THEN -1
  ELSE CHOOSE t \in { d.delayed[j] : j \in DOMAIN d.delayed } :
         \A j \in DOMAIN d.delayed : t <= d.delayed[j]

(***************************************************************************)
(* The settles                                                             *)
(***************************************************************************)

\* What trim(zkey, now, age, count) drops: the entries older than `age', then
\* the oldest beyond `count' (-1 for no count), TrimCap at most in all.
TrimSets(z, age, count) ==
  LET aged      == { j \in DOMAIN z : z[j] > age }
      left(A)   == TrimCap - Cardinality(A)
      excess(A) == Cardinality(DOMAIN z \ A) - count
      more(A)   == IF count < 0 THEN 0 ELSE Max2(0, Min2(excess(A), left(A)))
  IN  UNION { { A \cup B : B \in Highest(z, DOMAIN z \ A, more(A)) } :
                A \in Highest(z, aged, TrimCap) }

TrimCompleted(d, age, count) ==
  { [Deleted(d, T) EXCEPT !.completed = Drop(@, T)] : T \in TrimSets(d.completed, age, count) }

TrimFailed(d) ==
  { [Deleted(d, T) EXCEPT !.failed = Drop(@, T)] : T \in TrimSets(d.failed, KeepFailed, -1) }

\* COMPLETE under the token, before its claim.
Complete(d, j) ==
  LET freed == [d EXCEPT !.active = Drop(@, {j})]
  IN  IF KeepAge < 0
      THEN TrimCompleted(Deleted(freed, {j}), 0, 0)
      ELSE TrimCompleted([Moved(freed, {j}, "completed") EXCEPT !.completed = Put(@, {j}, 0)],
                         KeepAge, KeepCount)

\* FAIL under the token, before its claim: to `delayed' when a retry is asked
\* for (retryIn >= 0) and an attempt is left, to `failed' otherwise.
Retries(d, j, retryIn) == retryIn >= 0 /\ d.hash[j].attempt < Attempts

Fail(d, j, retryIn) ==
  LET freed == [d EXCEPT !.active = Drop(@, {j})]
  IN  IF Retries(d, j, retryIn)
      THEN { [Moved(freed, {j}, "delayed") EXCEPT !.delayed = Put(@, {j}, retryIn)] }
      ELSE TrimFailed([Moved(freed, {j}, "failed") EXCEPT !.failed = Put(@, {j}, 0)])

\* FAIL's last line: a retry that became the head of `delayed', and is still
\* there after the claim, wakes a worker -- paused or not.
HeadWake(d, j, retryIn, after) ==
  IF Retries(d, j, retryIn) /\ IsHead(d, retryIn) /\ j \in DOMAIN after.delayed
  THEN Wake(after) ELSE after

(***************************************************************************)
(* The other scripts                                                       *)
(***************************************************************************)

Holds(d, j, t) == d.hash[j].token = t

\* RENEW of the jobs S, whose tokens hold: ZADD XX, whatever their lease was.
Renewed(d, S) ==
  [d EXCEPT !.active = [j \in DOMAIN @ |-> IF j \in S THEN Lease ELSE @[j]]]

\* RELEASE of the jobs S, active under the caller's tokens.
Release(d, S, ord) ==
  LET back == [j \in Jobs |->
                IF j \in S THEN [state |-> "waiting", token |-> None,
                                 attempt |-> d.hash[j].attempt - 1]
                ELSE d.hash[j]]
      out  == ReadyAdd([d EXCEPT !.hash = back, !.active = Drop(@, S)], S, ord)
  IN  IF S = {} THEN out ELSE WakeUnlessPaused(out)

\* CANCEL: the job leaves the set its state names, and its hash goes.
Cancelable(d, j) ==
  \/ d.hash[j].state = "waiting" /\ j \in d.ready
  \/ d.hash[j].state = "delayed" /\ j \in DOMAIN d.delayed
  \/ d.hash[j].state = "active" /\ j \in DOMAIN d.active

Cancel(d, j) ==
  LET st == d.hash[j].state
  IN  Deleted(CASE st = "waiting" -> ReadyRem(d, {j})
                [] st = "delayed" -> [d EXCEPT !.delayed = Drop(@, {j})]
                [] st = "active"  -> [d EXCEPT !.active = Drop(@, {j})], {j})

\* RETRY of a failed job: back in `ready' with all its attempts.
Retryable(d, j) == j \in DOMAIN d.failed /\ d.hash[j].state = "failed"

Retry(d, j) ==
  WakeUnlessPaused(ReadyAdd(
    [d EXCEPT !.hash[j] = [NoHash EXCEPT !.state = "waiting"],
              !.failed = Drop(@, {j})], {j}, {}))

\* Forgets `completed' and `failed'.
BadRemove(d, j) ==
  Deleted([ReadyRem(d, {j}) EXCEPT !.delayed = Drop(@, {j}), !.active = Drop(@, {j})], {j})

\* REMOVE of a job that is not running, from whatever set holds it.
Removable(d, j) == j \notin DOMAIN d.active /\ d.hash[j].state # "active"

Remove(d, j) ==
  LET out == ReadyRem(d, {j})
  IN  Deleted([out EXCEPT !.delayed = Drop(@, {j}), !.active = Drop(@, {j}),
                          !.completed = Drop(@, {j}), !.failed = Drop(@, {j})], {j})

Pause(d) == [d EXCEPT !.paused = TRUE]

Resume(d) ==
  LET on == [d EXCEPT !.paused = FALSE]
  IN  IF d.ready # {} \/ DOMAIN d.delayed # {} THEN Wake(on) ELSE on

(***************************************************************************)
(* The server's clock.  A time past the point where the scripts stop       *)
(* telling it apart is held there.                                         *)
(***************************************************************************)

PassTime(d) ==
  [d EXCEPT !.delayed   = [j \in DOMAIN @ |-> Max2(0, @[j] - 1)],
            !.active    = [j \in DOMAIN @ |-> Max2(-1, @[j] - 1)],
            !.completed = [j \in DOMAIN @ |-> Min2(Max2(KeepAge, 0) + 1, @[j] + 1)],
            !.failed    = [j \in DOMAIN @ |-> Min2(KeepFailed + 1, @[j] + 1)]]

(***************************************************************************)
(* What the scripts keep true of the keys                                  *)
(***************************************************************************)

\* Every job is in exactly the set its hash names: `state' and the five sets
\* are written by different lines of nine scripts.
SetsMatchHash(d) ==
  \A j \in Jobs :
    /\ j \in d.ready            <=> d.hash[j].state = "waiting"
    /\ j \in DOMAIN d.delayed   <=> d.hash[j].state = "delayed"
    /\ j \in DOMAIN d.active    <=> d.hash[j].state = "active"
    /\ j \in DOMAIN d.completed <=> d.hash[j].state = "completed"
    /\ j \in DOMAIN d.failed    <=> d.hash[j].state = "failed"

\* A job is held under a token exactly while it is active, and two jobs never
\* share one: the token alone can fence a settle.
TokensFence(d) ==
  /\ \A j \in Jobs : d.hash[j].token # None <=> d.hash[j].state = "active"
  /\ \A i, j \in Jobs : d.hash[i].token = d.hash[j].token => i = j \/ d.hash[i].token = None

\* A queued job has an attempt left to run, a running one has been counted.
AttemptsLeft(d) ==
  \A j \in Jobs :
    /\ d.hash[j].state \in {"waiting", "delayed"} => d.hash[j].attempt < Attempts
    /\ d.hash[j].state \in {"active", "completed"} => d.hash[j].attempt >= 1
    /\ d.hash[j].state = "none" => d.hash[j].attempt = 0

\* The scores of `ready' put its jobs in one order.
ReadyOrdered(d) ==
  /\ \A a, b \in d.ready : a # b => (<<a, b>> \in d.before <=> <<b, a>> \notin d.before)
  /\ \A a \in d.ready : <<a, a>> \notin d.before
  /\ \A a, b \in d.ready : <<a, b>> \in d.before => Priority[a] <= Priority[b]

=============================================================================
