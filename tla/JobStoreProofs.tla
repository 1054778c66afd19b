--------------------------- MODULE JobStoreProofs ---------------------------
(***************************************************************************)
(* The scripts of JobStore keep the queue's keys consistent: each lemma    *)
(* takes a store in which every job is in the one set its hash names, the  *)
(* tokens fence and the attempts add up, and shows the same of the store a *)
(* Lua function leaves. And it shows what each script makes of a single    *)
(* job: which of the moves of a job's life, and whether it takes the job   *)
(* from the run that holds it.                                             *)
(***************************************************************************)
EXTENDS JobStore, FiniteSetTheorems, TLAPS

\* The sorted sets of jobs, and the stores: the sets that IsZSet and IsStore
\* recognize, without the bounds on the times.
ZSets == UNION { [S -> Int] : S \in SUBSET Jobs }

Store ==
  [ hash : [Jobs -> Hash], ready : SUBSET Jobs, before : SUBSET (Jobs \X Jobs),
    delayed : ZSets, active : ZSets, completed : ZSets, failed : ZSets,
    wake : {0, 1}, paused : BOOLEAN ]

TimesInRange(d) ==
  /\ \A j \in DOMAIN d.delayed : d.delayed[j] >= 0
  /\ \A j \in DOMAIN d.active : d.active[j] >= -1

StoreInv(d) ==
  /\ d \in Store
  /\ TimesInRange(d)
  /\ SetsMatchHash(d)
  /\ TokensFence(d)
  /\ AttemptsLeft(d)

\* The same of one job.
JobInv(d, j) ==
  /\ j \in d.ready            <=> d.hash[j].state = "waiting"
  /\ j \in DOMAIN d.delayed   <=> d.hash[j].state = "delayed"
  /\ j \in DOMAIN d.active    <=> d.hash[j].state = "active"
  /\ j \in DOMAIN d.completed <=> d.hash[j].state = "completed"
  /\ j \in DOMAIN d.failed    <=> d.hash[j].state = "failed"
  /\ d.hash[j].token # None <=> d.hash[j].state = "active"
  /\ d.hash[j].state \in {"waiting", "delayed"} => d.hash[j].attempt < Attempts
  /\ d.hash[j].state \in {"active", "completed"} => d.hash[j].attempt >= 1
  /\ d.hash[j].state = "none" => d.hash[j].attempt = 0

(***************************************************************************)
(* Sorted sets                                                             *)
(***************************************************************************)

\* A sorted set is a function from some jobs to integers (`ZRANGE ... WITHSCORES').
LEMMA ZSetDomain ==
  ASSUME NEW z \in ZSets
  PROVE  DOMAIN z \in SUBSET Jobs /\ z \in [DOMAIN z -> Int]
<1>1. PICK T \in SUBSET Jobs : z \in [T -> Int]
  BY DEF ZSets
<1> QED BY <1>1

\* A store that satisfies the invariant has the types the runs check.
LEMMA StoreIsTyped ==
  ASSUME NEW d, d \in Store, TimesInRange(d)
  PROVE  IsStore(d)
<1>1. \A z \in ZSets : IsZSet(z)
  BY ZSetDomain DEF IsZSet
<1>2. d.delayed \in ZSets /\ d.active \in ZSets /\ d.completed \in ZSets /\ d.failed \in ZSets
  BY DEF Store
<1>3. d \in [ hash : [Jobs -> Hash], ready : SUBSET Jobs, before : SUBSET (Jobs \X Jobs),
             delayed : {d.delayed}, active : {d.active},
             completed : {d.completed}, failed : {d.failed},
             wake : {0, 1}, paused : BOOLEAN ]
  BY DEF Store
<1> QED BY <1>1, <1>2, <1>3 DEF IsStore, TimesInRange

\* A function from some jobs to integers is a sorted set.
LEMMA ZSetIntro ==
  ASSUME NEW T \in SUBSET Jobs, NEW z \in [T -> Int]
  PROVE  z \in ZSets
BY DEF ZSets

\* ZREM takes out the members it is given, and no other.
LEMMA DropZ ==
  ASSUME NEW z \in ZSets, NEW S
  PROVE  /\ Drop(z, S) \in ZSets
         /\ DOMAIN Drop(z, S) = DOMAIN z \ S
         /\ \A j \in DOMAIN z \ S : Drop(z, S)[j] = z[j]
<1>1. DOMAIN z \in SUBSET Jobs /\ z \in [DOMAIN z -> Int]
  BY ZSetDomain
<1>2. Drop(z, S) \in [DOMAIN z \ S -> Int]
  BY <1>1 DEF Drop
<1>3. DOMAIN z \ S \in SUBSET Jobs
  BY <1>1
<1>4. Drop(z, S) \in ZSets
  BY <1>2, <1>3, ZSetIntro
<1> QED BY <1>4 DEF Drop

\* ZADD puts in the members it is given with their score, and no other.
LEMMA PutZ ==
  ASSUME NEW z \in ZSets, NEW S \in SUBSET Jobs, NEW v, v \in Int
  PROVE  /\ Put(z, S, v) \in ZSets
         /\ DOMAIN Put(z, S, v) = DOMAIN z \cup S
         /\ \A j \in S : Put(z, S, v)[j] = v
         /\ \A j \in DOMAIN z \ S : Put(z, S, v)[j] = z[j]
<1>1. DOMAIN z \in SUBSET Jobs /\ z \in [DOMAIN z -> Int]
  BY ZSetDomain
<1>2. Put(z, S, v) \in [DOMAIN z \cup S -> Int]
  BY <1>1 DEF Put
<1>3. DOMAIN z \cup S \in SUBSET Jobs
  BY <1>1
<1>4. Put(z, S, v) \in ZSets
  BY <1>2, <1>3, ZSetIntro
<1> QED BY <1>4 DEF Put

(***************************************************************************)
(* The pieces of the scripts                                               *)
(***************************************************************************)

\* ready_add writes `ready' and its order, and nothing else.
LEMMA ReadyAddFields ==
  ASSUME NEW d \in Store, NEW S \in SUBSET Jobs, NEW ord
  PROVE  LET e == ReadyAdd(d, S, ord)
         IN  /\ e \in Store
             /\ e.ready = d.ready \cup S
             /\ e.hash = d.hash /\ e.delayed = d.delayed /\ e.active = d.active
             /\ e.completed = d.completed /\ e.failed = d.failed
             /\ e.paused = d.paused
BY DEF ReadyAdd, Store

\* ready_rem takes its jobs out of `ready', and writes nothing else.
LEMMA ReadyRemFields ==
  ASSUME NEW d \in Store, NEW S
  PROVE  LET e == ReadyRem(d, S)
         IN  /\ e \in Store
             /\ e.ready = d.ready \ S
             /\ e.hash = d.hash /\ e.delayed = d.delayed /\ e.active = d.active
             /\ e.completed = d.completed /\ e.failed = d.failed
             /\ e.paused = d.paused
BY DEF ReadyRem, Store

\* e is as consistent as d, and gives out no token.
Keeps(d, e) ==
  /\ StoreInv(e)
  /\ \A j \in Jobs : e.hash[j].token \in {None, d.hash[j].token}

\* A script that keeps every job in its place and gives out no token keeps
\* the store consistent.
LEMMA JobByJob ==
  ASSUME NEW d, StoreInv(d), NEW e \in Store, TimesInRange(e),
         \A j \in Jobs : JobInv(e, j) /\ e.hash[j].token \in {None, d.hash[j].token}
  PROVE  Keeps(d, e)
<1>1. SetsMatchHash(e) /\ AttemptsLeft(e)
  BY DEF JobInv, SetsMatchHash, AttemptsLeft
<1>2. TokensFence(e)
  BY DEF JobInv, StoreInv, TokensFence
<1> QED BY <1>1, <1>2 DEF StoreInv, Keeps

\* One script after another.
LEMMA KeepsTrans ==
  ASSUME NEW d, NEW e, NEW f, Keeps(d, e), Keeps(e, f)
  PROVE  Keeps(d, f)
BY DEF Keeps

\* What StoreInv says does not depend on `wake', `paused' and the order of `ready'.
LEMMA SameKeys ==
  ASSUME NEW d, NEW e, StoreInv(d), e \in Store,
         e.hash = d.hash, e.ready = d.ready, e.delayed = d.delayed, e.active = d.active,
         e.completed = d.completed, e.failed = d.failed
  PROVE  Keeps(d, e)
BY DEF StoreInv, TimesInRange, SetsMatchHash, TokensFence, AttemptsLeft, Keeps

\* The wake token is not part of what the keys say of a job.
LEMMA WakeKeeps ==
  ASSUME NEW d, StoreInv(d)
  PROVE  /\ Keeps(d, d) /\ Keeps(d, Wake(d)) /\ Keeps(d, WakeUnlessPaused(d))
         /\ Keeps(d, Baton(d)) /\ Keeps(d, [d EXCEPT !.wake = 0])
<1>1. d \in Store
  BY DEF StoreInv
<1>2. Keeps(d, Wake(d))
  <2>1. Wake(d) \in Store
    BY <1>1 DEF Wake, Store
  <2> QED BY <1>1, <2>1, SameKeys DEF Wake, Store
<1>3. Keeps(d, Baton(d))
  <2>1. Baton(d) \in Store
    BY <1>1 DEF Baton, Store
  <2> QED BY <1>1, <2>1, SameKeys DEF Baton, Store
<1>4. Keeps(d, [d EXCEPT !.wake = 0])
  <2>1. [d EXCEPT !.wake = 0] \in Store
    BY <1>1 DEF Store
  <2> QED BY <1>1, <2>1, SameKeys DEF Store
<1>5. Keeps(d, d)
  BY DEF Keeps
<1> QED BY <1>2, <1>3, <1>4, <1>5 DEF WakeUnlessPaused

\* What a consistent store says of a job.
LEMMA OneJob ==
  ASSUME NEW d, StoreInv(d), NEW j \in Jobs
  PROVE  JobInv(d, j) /\ d.hash[j] \in Hash
<1>1. JobInv(d, j)
  BY DEF JobInv, StoreInv, SetsMatchHash, TokensFence, AttemptsLeft
<1>2. d.hash[j] \in Hash
  BY DEF StoreInv, Store
<1> QED BY <1>1, <1>2

(***************************************************************************)
(* The claim                                                               *)
(***************************************************************************)

\* reclaim: a lapsed job is back in `ready' with an attempt left, or failed.
LEMMA ReclaimKeeps ==
  ASSUME NEW d, StoreInv(d), NEW L \in SUBSET DOMAIN d.active, NEW ord
  PROVE  Keeps(d, Reclaim(d, L, ord))
<1> DEFINE back == { j \in L : d.hash[j].attempt < Attempts }
           h == [j \in Jobs |->
                  IF j \in back THEN [d.hash[j] EXCEPT !.state = "waiting", !.token = None]
                  ELSE IF j \in L THEN [d.hash[j] EXCEPT !.state = "failed", !.token = None]
                  ELSE d.hash[j]]
           a == Drop(d.active, L)
           f == Put(d.failed, L \ back, 0)
           m == [d EXCEPT !.hash = h, !.active = a, !.failed = f]
           e == ReadyAdd(m, back, ord)
<1>1. d \in Store /\ d.hash \in [Jobs -> Hash] /\ d.active \in ZSets /\ d.failed \in ZSets
  BY DEF StoreInv, Store
<1>2. L \in SUBSET Jobs /\ back \in SUBSET L
  BY <1>1, ZSetDomain
<1>3. \A j \in back : d.hash[j].attempt < Attempts
  OBVIOUS
<1>4. Reclaim(d, L, ord) = e
  BY <1>1 DEF Reclaim, Store
<1> HIDE DEF back
<1>5. h \in [Jobs -> Hash]
  BY <1>1, StoreAssumption DEF Hash, States
<1>6. /\ \A j \in back : /\ h[j].state = "waiting" /\ h[j].token = None
                         /\ h[j].attempt = d.hash[j].attempt
      /\ \A j \in L \ back : /\ h[j].state = "failed" /\ h[j].token = None
                             /\ h[j].attempt = d.hash[j].attempt
      /\ \A j \in Jobs \ L : h[j] = d.hash[j]
  BY <1>1, <1>2 DEF Hash
<1> HIDE DEF h
<1>7. /\ a \in ZSets
      /\ DOMAIN a = DOMAIN d.active \ L
      /\ \A j \in DOMAIN d.active \ L : a[j] = d.active[j]
  BY <1>1, DropZ
<1>8. L \ back \in SUBSET Jobs
  BY <1>2
<1> DEFINE gone == L \ back
<1>9. /\ f \in ZSets
      /\ DOMAIN f = DOMAIN d.failed \cup gone
  <2> HIDE DEF gone
  <2>1. gone \in SUBSET Jobs
    BY <1>8 DEF gone
  <2>2. d.failed \in ZSets /\ 0 \in Int
    BY <1>1
  <2>3. f = Put(d.failed, gone, 0)
    BY DEF gone
  <2> HIDE DEF f
  <2>4. /\ Put(d.failed, gone, 0) \in ZSets
        /\ DOMAIN Put(d.failed, gone, 0) = DOMAIN d.failed \cup gone
    BY <2>1, <2>2, PutZ, Zenon
  <2> QED BY <2>3, <2>4
<1> HIDE DEF a, f
<1>10. /\ m \in Store
       /\ m.hash = h /\ m.active = a /\ m.failed = f
       /\ m.ready = d.ready /\ m.delayed = d.delayed /\ m.completed = d.completed
  BY <1>1, <1>5, <1>7, <1>9 DEF Store
<1> HIDE DEF m
<1>11. /\ e \in Store
       /\ e.hash = h /\ e.active = a /\ e.failed = f
       /\ e.ready = d.ready \cup back /\ e.delayed = d.delayed /\ e.completed = d.completed
  BY <1>2, <1>10, ReadyAddFields
<1> HIDE DEF e
<1>12. TimesInRange(e)
  BY <1>7, <1>11 DEF StoreInv, TimesInRange
<1>13. ASSUME NEW j \in Jobs
       PROVE  JobInv(e, j) /\ e.hash[j].token \in {None, d.hash[j].token}
  <2>1. JobInv(d, j) /\ (j \in L => d.hash[j].state = "active")
    BY <1>2, OneJob DEF JobInv
  <2>2. CASE j \in back
    BY <1>2, <1>3, <1>6, <1>7, <1>9, <1>11, <2>1, <2>2 DEF JobInv
  <2>3. CASE j \in L \ back
    BY <1>2, <1>6, <1>7, <1>9, <1>11, <2>1, <2>3 DEF JobInv
  <2>4. CASE j \notin L
    BY <1>2, <1>6, <1>7, <1>9, <1>11, <2>1, <2>4 DEF JobInv
  <2> QED BY <2>2, <2>3, <2>4
<1> QED BY <1>4, <1>11, <1>12, <1>13, JobByJob

\* The jobs of S take the state `st' and lose their token.
LEMMA MovedFields ==
  ASSUME NEW d \in Store, NEW S \in SUBSET Jobs, NEW st \in States
  PROVE  LET e == Moved(d, S, st)
         IN  /\ e \in Store
             /\ \A j \in S : /\ e.hash[j].state = st /\ e.hash[j].token = None
                           /\ e.hash[j].attempt = d.hash[j].attempt
             /\ \A j \in Jobs \ S : e.hash[j] = d.hash[j]
             /\ e.ready = d.ready /\ e.delayed = d.delayed /\ e.active = d.active
             /\ e.completed = d.completed /\ e.failed = d.failed
<1> DEFINE h == [j \in Jobs |->
                  IF j \in S THEN [d.hash[j] EXCEPT !.state = st, !.token = None]
                  ELSE d.hash[j]]
<1>1. d.hash \in [Jobs -> Hash]
  BY DEF Store
<1>2. h \in [Jobs -> Hash]
  BY <1>1 DEF Hash
<1>3. /\ \A j \in S : /\ h[j].state = st /\ h[j].token = None
                    /\ h[j].attempt = d.hash[j].attempt
      /\ \A j \in Jobs \ S : h[j] = d.hash[j]
  BY <1>1 DEF Hash
<1>4. Moved(d, S, st) = [d EXCEPT !.hash = h]
  BY DEF Moved
<1> HIDE DEF h
<1> QED BY <1>2, <1>3, <1>4 DEF Store

\* DEL of the hashes of S.
LEMMA DeletedFields ==
  ASSUME NEW d \in Store, NEW S \in SUBSET Jobs
  PROVE  LET e == Deleted(d, S)
         IN  /\ e \in Store
             /\ \A j \in S : e.hash[j] = NoHash
             /\ \A j \in Jobs \ S : e.hash[j] = d.hash[j]
             /\ e.ready = d.ready /\ e.delayed = d.delayed /\ e.active = d.active
             /\ e.completed = d.completed /\ e.failed = d.failed
<1> DEFINE h == [j \in Jobs |-> IF j \in S THEN NoHash ELSE d.hash[j]]
<1>1. d.hash \in [Jobs -> Hash]
  BY DEF Store
<1>2. NoHash \in Hash
  BY StoreAssumption DEF NoHash, Hash, States
<1>3. h \in [Jobs -> Hash]
  BY <1>1, <1>2
<1>4. Deleted(d, S) = [d EXCEPT !.hash = h]
  BY DEF Deleted
<1> QED BY <1>3, <1>4 DEF Store

\* promote: a due job, or a retry, is in `ready'.
LEMMA PromoteKeeps ==
  ASSUME NEW d, StoreInv(d), NEW P \in SUBSET DOMAIN d.delayed, NEW ord
  PROVE  Keeps(d, Promote(d, P, ord))
<1> DEFINE m == Moved(d, P, "waiting")
           z == Drop(d.delayed, P)
           n == [m EXCEPT !.delayed = z]
           e == ReadyAdd(n, P, ord)
<1>1. d \in Store /\ d.delayed \in ZSets
  BY DEF StoreInv, Store
<1>2. P \in SUBSET Jobs
  BY <1>1, ZSetDomain
<1>3. /\ m \in Store
      /\ \A j \in P : /\ m.hash[j].state = "waiting" /\ m.hash[j].token = None
                    /\ m.hash[j].attempt = d.hash[j].attempt
      /\ \A j \in Jobs \ P : m.hash[j] = d.hash[j]
      /\ m.ready = d.ready /\ m.delayed = d.delayed /\ m.active = d.active
      /\ m.completed = d.completed /\ m.failed = d.failed
  BY <1>1, <1>2, MovedFields DEF States
<1>4. /\ z \in ZSets
      /\ DOMAIN z = DOMAIN d.delayed \ P
      /\ \A j \in DOMAIN d.delayed \ P : z[j] = d.delayed[j]
  BY <1>1, DropZ
<1>5. Promote(d, P, ord) = e
  BY <1>3 DEF Promote, Store
<1> HIDE DEF m, z
<1>6. /\ n \in Store
      /\ n.hash = m.hash /\ n.ready = d.ready /\ n.delayed = z /\ n.active = d.active
      /\ n.completed = d.completed /\ n.failed = d.failed
  BY <1>3, <1>4 DEF Store
<1> HIDE DEF n
<1>7. /\ e \in Store
      /\ e.hash = m.hash /\ e.ready = d.ready \cup P /\ e.delayed = z /\ e.active = d.active
      /\ e.completed = d.completed /\ e.failed = d.failed
  BY <1>2, <1>6, ReadyAddFields
<1> HIDE DEF e
<1>8. TimesInRange(e)
  BY <1>4, <1>7 DEF StoreInv, TimesInRange
<1>9. ASSUME NEW j \in Jobs
      PROVE  JobInv(e, j) /\ e.hash[j].token \in {None, d.hash[j].token}
  <2>1. JobInv(d, j)
    BY OneJob
  <2>2. CASE j \in P
    BY <1>3, <1>4, <1>7, <2>1, <2>2 DEF JobInv
  <2>3. CASE j \notin P
    BY <1>3, <1>4, <1>7, <2>1, <2>3 DEF JobInv
  <2> QED BY <2>2, <2>3
<1> QED BY <1>5, <1>7, <1>8, <1>9, JobByJob

\* begin: a job of `ready' is active under its fresh token, and counted.
LEMMA BeginKeeps ==
  ASSUME NEW d, StoreInv(d), NEW S \in SUBSET d.ready, NEW tok \in [S -> Tokens],
         \A a, b \in S : tok[a] = tok[b] => a = b,
         \A a \in S, i \in Jobs : tok[a] # d.hash[i].token
  PROVE  /\ StoreInv(Begin(d, tok))
         /\ \A j \in S : Begin(d, tok).hash[j].token = tok[j]
         /\ \A j \in Jobs \ S : Begin(d, tok).hash[j].token = d.hash[j].token
<1> DEFINE r == ReadyRem(d, S)
           h == [j \in Jobs |->
                  IF j \in S THEN [state |-> "active", token |-> tok[j],
                                   attempt |-> d.hash[j].attempt + 1]
                  ELSE d.hash[j]]
           a == Put(d.active, S, Lease)
           e == [r EXCEPT !.hash = h, !.active = a]
<1>1. d \in Store /\ d.hash \in [Jobs -> Hash] /\ d.active \in ZSets /\ S \in SUBSET Jobs
  BY DEF StoreInv, Store
<1>2. \A j \in S : d.hash[j].state = "waiting" /\ d.hash[j].attempt < Attempts
  BY <1>1, OneJob DEF JobInv
<1>3. \A j \in S : d.hash[j].attempt + 1 \in 0 .. Attempts
  BY <1>1, <1>2, StoreAssumption DEF Hash
<1>4. h \in [Jobs -> Hash]
  BY <1>1, <1>3 DEF Hash, States
<1>5. /\ \A j \in S : /\ h[j].state = "active" /\ h[j].token = tok[j]
                      /\ h[j].attempt = d.hash[j].attempt + 1
      /\ \A j \in Jobs \ S : h[j] = d.hash[j]
  BY <1>1
<1>6. /\ r \in Store
      /\ r.ready = d.ready \ S
      /\ r.hash = d.hash /\ r.delayed = d.delayed /\ r.active = d.active
      /\ r.completed = d.completed /\ r.failed = d.failed
  BY <1>1, ReadyRemFields
<1>7. Lease \in Int
  BY StoreAssumption
<1>8. /\ a \in ZSets
      /\ DOMAIN a = DOMAIN d.active \cup S
      /\ \A j \in S : a[j] = Lease
      /\ \A j \in DOMAIN d.active \ S : a[j] = d.active[j]
  <2>1. d.active \in ZSets /\ S \in SUBSET Jobs
    BY <1>1
  <2>2. a \in ZSets
    BY <1>7, <2>1, PutZ, Zenon
  <2> QED BY <2>2 DEF Put
<1>9. Begin(d, tok) = e
  <2>1. S = DOMAIN tok
    OBVIOUS
  <2> QED BY <1>6, <2>1 DEF Begin
<1> HIDE DEF h, a, r
<1>10. /\ e \in Store
       /\ e.hash = h /\ e.active = a /\ e.ready = d.ready \ S /\ e.delayed = d.delayed
       /\ e.completed = d.completed /\ e.failed = d.failed
  BY <1>4, <1>6, <1>8 DEF Store
<1> HIDE DEF e
<1>11. TimesInRange(e)
  <2>1. \A j \in DOMAIN a : a[j] >= -1
    BY <1>8, StoreAssumption DEF StoreInv, TimesInRange
  <2> QED BY <1>10, <2>1 DEF StoreInv, TimesInRange
<1>12. ASSUME NEW j \in Jobs
       PROVE  JobInv(e, j)
  <2>1. JobInv(d, j) /\ d.hash[j] \in Hash
    BY OneJob
  <2>2. CASE j \in S
    <3>1. tok[j] # None /\ h[j].attempt >= 1
      BY <1>1, <1>5, <2>1, <2>2, StoreAssumption DEF Hash
    <3> QED BY <1>2, <1>5, <1>8, <1>10, <2>1, <2>2, <3>1 DEF JobInv
  <2>3. CASE j \notin S
    BY <1>5, <1>8, <1>10, <2>1, <2>3 DEF JobInv
  <2> QED BY <2>2, <2>3
<1>13. SetsMatchHash(e) /\ AttemptsLeft(e)
  BY <1>12 DEF JobInv, SetsMatchHash, AttemptsLeft
<1>14. TokensFence(e)
  <2>1. \A j \in Jobs : e.hash[j].token # None <=> e.hash[j].state = "active"
    BY <1>12 DEF JobInv
  <2>2. ASSUME NEW i \in Jobs, NEW j \in Jobs, e.hash[i].token = e.hash[j].token
        PROVE  i = j \/ e.hash[i].token = None
    <3>1. CASE i \in S /\ j \in S
      BY <1>5, <1>10, <2>2, <3>1
    <3>2. CASE i \in S /\ j \notin S
      BY <1>5, <1>10, <2>2, <3>2
    <3>3. CASE i \notin S /\ j \in S
      BY <1>5, <1>10, <2>2, <3>3
    <3>4. CASE i \notin S /\ j \notin S
      BY <1>5, <1>10, <2>2, <3>4 DEF StoreInv, TokensFence
    <3> QED BY <3>1, <3>2, <3>3, <3>4
  <2> QED BY <2>1, <2>2 DEF TokensFence
<1>15. StoreInv(e)
  BY <1>10, <1>11, <1>13, <1>14 DEF StoreInv
<1> QED BY <1>1, <1>5, <1>9, <1>10, <1>15

\* CLAIM, and the claim of a settle: whatever it reclaims, promotes and pops,
\* the store stays consistent and each job it answers holds a token of its own.
LEMMA ClaimsKeep ==
  ASSUME NEW d, StoreInv(d), NEW n, NEW fresh \in SUBSET Tokens,
         \A j \in Jobs : d.hash[j].token \notin fresh,
         NEW r \in Claims(d, n, fresh)
  PROVE  /\ StoreInv(r.db)
         /\ DOMAIN r.tok \in SUBSET Jobs /\ r.tok \in [DOMAIN r.tok -> fresh]
         /\ \A a, b \in DOMAIN r.tok : r.tok[a] = r.tok[b] => a = b
         /\ \A j \in DOMAIN r.tok : r.db.hash[j].token = r.tok[j]
         /\ \A j \in Jobs \ DOMAIN r.tok : r.db.hash[j].token \in {None, d.hash[j].token}
<1>1. PICK d1 \in Reclaims(d) : \E d2 \in Promotions(d1) : \E S \in Heads(d2, n) :
        \E tok \in NewTokens(S, fresh) : r = [db |-> Baton(Begin(d2, tok)), tok |-> tok]
  BY DEF Claims
<1>. PICK d2 \in Promotions(d1) : \E S \in Heads(d2, n) :
        \E tok \in NewTokens(S, fresh) : r = [db |-> Baton(Begin(d2, tok)), tok |-> tok]
  BY <1>1
<1>. PICK S \in Heads(d2, n) :
        \E tok \in NewTokens(S, fresh) : r = [db |-> Baton(Begin(d2, tok)), tok |-> tok]
  OBVIOUS
<1>tok. PICK tok \in NewTokens(S, fresh) : r = [db |-> Baton(Begin(d2, tok)), tok |-> tok]
  OBVIOUS
<1>2. Keeps(d, d1)
  <2>1. \E L \in Lowest(d.active, Lapsed(d), ReclaimCap) : \E ord : d1 = Reclaim(d, L, ord)
    BY DEF Reclaims
  <2>2. \E L \in SUBSET DOMAIN d.active : \E ord : d1 = Reclaim(d, L, ord)
    BY <2>1 DEF Lowest, Lapsed
  <2> QED BY <2>2, ReclaimKeeps
<1>3. Keeps(d1, d2)
  <2>1. \E P \in Lowest(d1.delayed, Due(d1), PromoteCap) : \E ord : d2 = Promote(d1, P, ord)
    BY DEF Promotions
  <2>2. \E P \in SUBSET DOMAIN d1.delayed : \E ord : d2 = Promote(d1, P, ord)
    BY <2>1 DEF Lowest, Due
  <2>3. StoreInv(d1)
    BY <1>2 DEF Keeps
  <2> QED BY <2>2, <2>3, PromoteKeeps
<1>4. Keeps(d, d2) /\ StoreInv(d2)
  BY <1>2, <1>3, KeepsTrans DEF Keeps
<1>5. S \in SUBSET d2.ready /\ S \in SUBSET Jobs
  BY <1>4 DEF Heads, StoreInv, Store
<1>6. tok \in [S -> fresh] /\ \A a, b \in S : tok[a] = tok[b] => a = b
  BY DEF NewTokens
<1>7. \A a \in S, i \in Jobs : tok[a] # d2.hash[i].token
  BY <1>4, <1>6, StoreAssumption DEF Keeps
<1> DEFINE b == Begin(d2, tok)
<1>8. /\ StoreInv(b)
      /\ \A j \in S : b.hash[j].token = tok[j]
      /\ \A j \in Jobs \ S : b.hash[j].token = d2.hash[j].token
  <2>1. tok \in [S -> Tokens]
    BY <1>6
  <2> QED BY <1>4, <1>5, <1>6, <1>7, <2>1, BeginKeeps
<1> HIDE DEF b
<1>9. StoreInv(Baton(b)) /\ Baton(b).hash = b.hash
  <2>1. b \in Store
    BY <1>8 DEF StoreInv
  <2> QED BY <1>8, <2>1, WakeKeeps DEF Baton, Store, Keeps
<1>10. r.db = Baton(b) /\ r.tok = tok /\ DOMAIN r.tok = S
  BY <1>tok, <1>6 DEF b
<1> QED BY <1>4, <1>5, <1>6, <1>8, <1>9, <1>10 DEF Keeps

(***************************************************************************)
(* The settles                                                             *)
(***************************************************************************)

\* A job leaves `active', and its hash goes: COMPLETE with keepCompleted off.
LEMMA DoneKeeps ==
  ASSUME NEW d, StoreInv(d), NEW j \in DOMAIN d.active
  PROVE  Keeps(d, Deleted([d EXCEPT !.active = Drop(d.active, {j})], {j}))
<1> DEFINE a == Drop(d.active, {j})
           m == [d EXCEPT !.active = a]
           e == Deleted(m, {j})
<1>1. d \in Store /\ d.active \in ZSets
  BY DEF StoreInv, Store
<1>2. j \in Jobs
  BY <1>1, ZSetDomain
<1>3. /\ a \in ZSets
      /\ DOMAIN a = DOMAIN d.active \ {j}
      /\ \A i \in DOMAIN d.active \ {j} : a[i] = d.active[i]
  BY <1>1, DropZ
<1> HIDE DEF a
<1>4. /\ m \in Store
      /\ m.hash = d.hash /\ m.ready = d.ready /\ m.delayed = d.delayed /\ m.active = a
      /\ m.completed = d.completed /\ m.failed = d.failed
  BY <1>1, <1>3 DEF Store
<1> HIDE DEF m
<1>5. /\ e \in Store
      /\ e.hash[j] = NoHash
      /\ \A i \in Jobs \ {j} : e.hash[i] = d.hash[i]
      /\ e.ready = d.ready /\ e.delayed = d.delayed /\ e.active = a
      /\ e.completed = d.completed /\ e.failed = d.failed
  BY <1>2, <1>4, DeletedFields
<1> HIDE DEF e
<1>6. TimesInRange(e)
  BY <1>3, <1>5 DEF StoreInv, TimesInRange
<1>7. ASSUME NEW i \in Jobs
      PROVE  JobInv(e, i) /\ e.hash[i].token \in {None, d.hash[i].token}
  <2>1. JobInv(d, i)
    BY OneJob
  <2>2. CASE i = j
    BY <1>3, <1>5, <2>1, <2>2 DEF JobInv, NoHash
  <2>3. CASE i # j
    BY <1>3, <1>5, <2>1, <2>3 DEF JobInv
  <2> QED BY <2>2, <2>3
<1>8. Keeps(d, e)
  BY <1>5, <1>6, <1>7, JobByJob
<1> QED BY <1>8 DEF e, m, a

\* A job leaves `active' for `completed'.
LEMMA CompletedKeeps ==
  ASSUME NEW d, StoreInv(d), NEW j \in DOMAIN d.active
  PROVE  LET freed == [d EXCEPT !.active = Drop(d.active, {j})]
         IN  Keeps(d, [Moved(freed, {j}, "completed") EXCEPT !.completed = Put(@, {j}, 0)])
<1> DEFINE a == Drop(d.active, {j})
           m == [d EXCEPT !.active = a]
           n == Moved(m, {j}, "completed")
           c == Put(d.completed, {j}, 0)
           e == [n EXCEPT !.completed = c]
<1>1. d \in Store /\ d.active \in ZSets /\ d.completed \in ZSets
  BY DEF StoreInv, Store
<1>2. j \in Jobs /\ {j} \in SUBSET Jobs
  BY <1>1, ZSetDomain
<1>3. /\ a \in ZSets
      /\ DOMAIN a = DOMAIN d.active \ {j}
      /\ \A i \in DOMAIN d.active \ {j} : a[i] = d.active[i]
  BY <1>1, DropZ
<1>4. c \in ZSets /\ DOMAIN c = DOMAIN d.completed \cup {j}
  <2>1. c \in ZSets
    BY <1>1, <1>2, 0 \in Int, PutZ, Zenon
  <2> QED BY <2>1 DEF Put
<1> HIDE DEF a
<1>5. /\ m \in Store
      /\ m.hash = d.hash /\ m.ready = d.ready /\ m.delayed = d.delayed /\ m.active = a
      /\ m.completed = d.completed /\ m.failed = d.failed
  BY <1>1, <1>3 DEF Store
<1> HIDE DEF m
<1>6. /\ n \in Store
      /\ n.hash[j].state = "completed" /\ n.hash[j].token = None
      /\ n.hash[j].attempt = d.hash[j].attempt
      /\ \A i \in Jobs \ {j} : n.hash[i] = d.hash[i]
      /\ n.ready = d.ready /\ n.delayed = d.delayed /\ n.active = a
      /\ n.completed = d.completed /\ n.failed = d.failed
  BY <1>2, <1>5, MovedFields DEF States
<1>7. [n EXCEPT !.completed = Put(@, {j}, 0)] = e
  BY <1>6
<1> HIDE DEF n, c
<1>8. /\ e \in Store
      /\ e.hash = n.hash /\ e.ready = d.ready /\ e.delayed = d.delayed /\ e.active = a
      /\ e.completed = c /\ e.failed = d.failed
  BY <1>4, <1>6 DEF Store
<1> HIDE DEF e
<1>9. TimesInRange(e)
  BY <1>3, <1>8 DEF StoreInv, TimesInRange
<1>10. ASSUME NEW i \in Jobs
       PROVE  JobInv(e, i) /\ e.hash[i].token \in {None, d.hash[i].token}
  <2>1. JobInv(d, i)
    BY OneJob
  <2>2. CASE i = j
    BY <1>3, <1>4, <1>6, <1>8, <2>1, <2>2 DEF JobInv
  <2>3. CASE i # j
    BY <1>3, <1>4, <1>6, <1>8, <2>1, <2>3 DEF JobInv
  <2> QED BY <2>2, <2>3
<1>11. Keeps(d, e)
  BY <1>8, <1>9, <1>10, JobByJob
<1> QED BY <1>7, <1>11 DEF n, m, a

\* A job leaves `active' for `failed'.
LEMMA FailedKeeps ==
  ASSUME NEW d, StoreInv(d), NEW j \in DOMAIN d.active
  PROVE  LET freed == [d EXCEPT !.active = Drop(d.active, {j})]
         IN  Keeps(d, [Moved(freed, {j}, "failed") EXCEPT !.failed = Put(@, {j}, 0)])
<1> DEFINE a == Drop(d.active, {j})
           m == [d EXCEPT !.active = a]
           n == Moved(m, {j}, "failed")
           c == Put(d.failed, {j}, 0)
           e == [n EXCEPT !.failed = c]
<1>1. d \in Store /\ d.active \in ZSets /\ d.failed \in ZSets
  BY DEF StoreInv, Store
<1>2. j \in Jobs /\ {j} \in SUBSET Jobs
  BY <1>1, ZSetDomain
<1>3. /\ a \in ZSets
      /\ DOMAIN a = DOMAIN d.active \ {j}
      /\ \A i \in DOMAIN d.active \ {j} : a[i] = d.active[i]
  BY <1>1, DropZ
<1>4. c \in ZSets /\ DOMAIN c = DOMAIN d.failed \cup {j}
  <2>1. c \in ZSets
    BY <1>1, <1>2, 0 \in Int, PutZ, Zenon
  <2> QED BY <2>1 DEF Put
<1> HIDE DEF a
<1>5. /\ m \in Store
      /\ m.hash = d.hash /\ m.ready = d.ready /\ m.delayed = d.delayed /\ m.active = a
      /\ m.completed = d.completed /\ m.failed = d.failed
  BY <1>1, <1>3 DEF Store
<1> HIDE DEF m
<1>6. /\ n \in Store
      /\ n.hash[j].state = "failed" /\ n.hash[j].token = None
      /\ n.hash[j].attempt = d.hash[j].attempt
      /\ \A i \in Jobs \ {j} : n.hash[i] = d.hash[i]
      /\ n.ready = d.ready /\ n.delayed = d.delayed /\ n.active = a
      /\ n.completed = d.completed /\ n.failed = d.failed
  BY <1>2, <1>5, MovedFields DEF States
<1>7. [n EXCEPT !.failed = Put(@, {j}, 0)] = e
  BY <1>6
<1> HIDE DEF n, c
<1>8. /\ e \in Store
      /\ e.hash = n.hash /\ e.ready = d.ready /\ e.delayed = d.delayed /\ e.active = a
      /\ e.completed = d.completed /\ e.failed = c
  BY <1>4, <1>6 DEF Store
<1> HIDE DEF e
<1>9. TimesInRange(e)
  BY <1>3, <1>8 DEF StoreInv, TimesInRange
<1>10. ASSUME NEW i \in Jobs
       PROVE  JobInv(e, i) /\ e.hash[i].token \in {None, d.hash[i].token}
  <2>1. JobInv(d, i)
    BY OneJob
  <2>2. CASE i = j
    BY <1>3, <1>4, <1>6, <1>8, <2>1, <2>2 DEF JobInv
  <2>3. CASE i # j
    BY <1>3, <1>4, <1>6, <1>8, <2>1, <2>3 DEF JobInv
  <2> QED BY <2>2, <2>3
<1>11. Keeps(d, e)
  BY <1>8, <1>9, <1>10, JobByJob
<1> QED BY <1>7, <1>11 DEF n, m, a

\* A job leaves `active' for `delayed', with an attempt left.
LEMMA RetryKeeps ==
  ASSUME NEW d, StoreInv(d), NEW j \in DOMAIN d.active, NEW in \in Nat,
         d.hash[j].attempt < Attempts
  PROVE  LET freed == [d EXCEPT !.active = Drop(d.active, {j})]
         IN  Keeps(d, [Moved(freed, {j}, "delayed") EXCEPT !.delayed = Put(@, {j}, in)])
<1> DEFINE a == Drop(d.active, {j})
           m == [d EXCEPT !.active = a]
           n == Moved(m, {j}, "delayed")
           c == Put(d.delayed, {j}, in)
           e == [n EXCEPT !.delayed = c]
<1>1. d \in Store /\ d.active \in ZSets /\ d.delayed \in ZSets
  BY DEF StoreInv, Store
<1>2. j \in Jobs /\ {j} \in SUBSET Jobs
  BY <1>1, ZSetDomain
<1>3. /\ a \in ZSets
      /\ DOMAIN a = DOMAIN d.active \ {j}
      /\ \A i \in DOMAIN d.active \ {j} : a[i] = d.active[i]
  BY <1>1, DropZ
<1>4. /\ c \in ZSets /\ DOMAIN c = DOMAIN d.delayed \cup {j}
      /\ c[j] = in /\ \A i \in DOMAIN d.delayed \ {j} : c[i] = d.delayed[i]
  <2>1. c \in ZSets
    BY <1>1, <1>2, in \in Int, PutZ, Zenon
  <2> QED BY <2>1 DEF Put
<1> HIDE DEF a
<1>5. /\ m \in Store
      /\ m.hash = d.hash /\ m.ready = d.ready /\ m.delayed = d.delayed /\ m.active = a
      /\ m.completed = d.completed /\ m.failed = d.failed
  BY <1>1, <1>3 DEF Store
<1> HIDE DEF m
<1>6. /\ n \in Store
      /\ n.hash[j].state = "delayed" /\ n.hash[j].token = None
      /\ n.hash[j].attempt = d.hash[j].attempt
      /\ \A i \in Jobs \ {j} : n.hash[i] = d.hash[i]
      /\ n.ready = d.ready /\ n.delayed = d.delayed /\ n.active = a
      /\ n.completed = d.completed /\ n.failed = d.failed
  BY <1>2, <1>5, MovedFields DEF States
<1>7. [n EXCEPT !.delayed = Put(@, {j}, in)] = e
  BY <1>6
<1> HIDE DEF n, c
<1>8. /\ e \in Store
      /\ e.hash = n.hash /\ e.ready = d.ready /\ e.delayed = c /\ e.active = a
      /\ e.completed = d.completed /\ e.failed = d.failed
  BY <1>4, <1>6 DEF Store
<1> HIDE DEF e
<1>9. TimesInRange(e)
  BY <1>3, <1>4, <1>8 DEF StoreInv, TimesInRange
<1>10. ASSUME NEW i \in Jobs
       PROVE  JobInv(e, i) /\ e.hash[i].token \in {None, d.hash[i].token}
  <2>1. JobInv(d, i)
    BY OneJob
  <2>2. CASE i = j
    BY <1>3, <1>4, <1>6, <1>8, <2>1, <2>2 DEF JobInv
  <2>3. CASE i # j
    BY <1>3, <1>4, <1>6, <1>8, <2>1, <2>3 DEF JobInv
  <2> QED BY <2>2, <2>3
<1>11. Keeps(d, e)
  BY <1>8, <1>9, <1>10, JobByJob
<1> QED BY <1>7, <1>11 DEF n, m, a

\* trim drops whole jobs, of the sets `completed' and `failed' only.
LEMMA TrimKeeps ==
  ASSUME NEW d, StoreInv(d)
  PROVE  /\ \A T \in SUBSET DOMAIN d.completed :
               Keeps(d, [Deleted(d, T) EXCEPT !.completed = Drop(@, T)])
         /\ \A T \in SUBSET DOMAIN d.failed :
               Keeps(d, [Deleted(d, T) EXCEPT !.failed = Drop(@, T)])
<1>1. d \in Store /\ d.completed \in ZSets /\ d.failed \in ZSets
  BY DEF StoreInv, Store
<1>2. ASSUME NEW T \in SUBSET DOMAIN d.completed
      PROVE  Keeps(d, [Deleted(d, T) EXCEPT !.completed = Drop(@, T)])
  <2> DEFINE m == Deleted(d, T)
             c == Drop(d.completed, T)
             e == [m EXCEPT !.completed = c]
  <2>1. T \in SUBSET Jobs
    BY <1>1, ZSetDomain
  <2>2. /\ m \in Store
        /\ \A i \in T : m.hash[i] = NoHash
        /\ \A i \in Jobs \ T : m.hash[i] = d.hash[i]
        /\ m.ready = d.ready /\ m.delayed = d.delayed /\ m.active = d.active
        /\ m.completed = d.completed /\ m.failed = d.failed
    BY <1>1, <2>1, DeletedFields
  <2>3. c \in ZSets /\ DOMAIN c = DOMAIN d.completed \ T
    BY <1>1, DropZ
  <2>4. [m EXCEPT !.completed = Drop(@, T)] = e
    BY <2>2
  <2> HIDE DEF m, c
  <2>5. /\ e \in Store
        /\ e.hash = m.hash /\ e.ready = d.ready /\ e.delayed = d.delayed
        /\ e.active = d.active /\ e.completed = c /\ e.failed = d.failed
    BY <2>2, <2>3 DEF Store
  <2> HIDE DEF e
  <2>6. TimesInRange(e)
    BY <2>5 DEF StoreInv, TimesInRange
  <2>7. ASSUME NEW i \in Jobs
        PROVE  JobInv(e, i) /\ e.hash[i].token \in {None, d.hash[i].token}
    <3>1. JobInv(d, i)
      BY OneJob
    <3>2. CASE i \in T
      BY <2>2, <2>3, <2>5, <3>1, <3>2 DEF JobInv, NoHash
    <3>3. CASE i \notin T
      BY <2>2, <2>3, <2>5, <3>1, <3>3 DEF JobInv
    <3> QED BY <3>2, <3>3
  <2>8. Keeps(d, e)
    BY <2>5, <2>6, <2>7, JobByJob
  <2> QED BY <2>4, <2>8 DEF m
<1>3. ASSUME NEW T \in SUBSET DOMAIN d.failed
      PROVE  Keeps(d, [Deleted(d, T) EXCEPT !.failed = Drop(@, T)])
  <2> DEFINE m == Deleted(d, T)
             c == Drop(d.failed, T)
             e == [m EXCEPT !.failed = c]
  <2>1. T \in SUBSET Jobs
    BY <1>1, ZSetDomain
  <2>2. /\ m \in Store
        /\ \A i \in T : m.hash[i] = NoHash
        /\ \A i \in Jobs \ T : m.hash[i] = d.hash[i]
        /\ m.ready = d.ready /\ m.delayed = d.delayed /\ m.active = d.active
        /\ m.completed = d.completed /\ m.failed = d.failed
    BY <1>1, <2>1, DeletedFields
  <2>3. c \in ZSets /\ DOMAIN c = DOMAIN d.failed \ T
    BY <1>1, DropZ
  <2>4. [m EXCEPT !.failed = Drop(@, T)] = e
    BY <2>2
  <2> HIDE DEF m, c
  <2>5. /\ e \in Store
        /\ e.hash = m.hash /\ e.ready = d.ready /\ e.delayed = d.delayed
        /\ e.active = d.active /\ e.completed = d.completed /\ e.failed = c
    BY <2>2, <2>3 DEF Store
  <2> HIDE DEF e
  <2>6. TimesInRange(e)
    BY <2>5 DEF StoreInv, TimesInRange
  <2>7. ASSUME NEW i \in Jobs
        PROVE  JobInv(e, i) /\ e.hash[i].token \in {None, d.hash[i].token}
    <3>1. JobInv(d, i)
      BY OneJob
    <3>2. CASE i \in T
      BY <2>2, <2>3, <2>5, <3>1, <3>2 DEF JobInv, NoHash
    <3>3. CASE i \notin T
      BY <2>2, <2>3, <2>5, <3>1, <3>3 DEF JobInv
    <3> QED BY <3>2, <3>3
  <2>8. Keeps(d, e)
    BY <2>5, <2>6, <2>7, JobByJob
  <2> QED BY <2>4, <2>8 DEF m
<1> QED BY <1>2, <1>3

\* trim picks among the entries of its set.
LEMMA TrimSetsIn ==
  ASSUME NEW z, NEW age, NEW count, NEW T \in TrimSets(z, age, count)
  PROVE  T \in SUBSET DOMAIN z
<1>1. \A S, n : \A B \in Highest(z, S, n) : B \in SUBSET S
  BY DEF Highest
<1> DEFINE aged      == { j \in DOMAIN z : z[j] > age }
           left(A)   == TrimCap - Cardinality(A)
           excess(A) == Cardinality(DOMAIN z \ A) - count
           more(A)   == IF count < 0 THEN 0 ELSE Max2(0, Min2(excess(A), left(A)))
           both(A)   == { A \cup B : B \in Highest(z, DOMAIN z \ A, more(A)) }
<1>2. \E A \in Highest(z, aged, TrimCap) :
        \E n : \E B \in Highest(z, DOMAIN z \ A, n) : T = A \cup B
  <2>1. T \in UNION { both(A) : A \in Highest(z, aged, TrimCap) }
    BY Zenon DEF TrimSets
  <2> HIDE DEF aged, more
  <2> QED BY <2>1, Zenon
<1>3. PICK A \in Highest(z, aged, TrimCap) :
        \E n : \E B \in Highest(z, DOMAIN z \ A, n) : T = A \cup B
  BY <1>2
<1>4. PICK n : \E B \in Highest(z, DOMAIN z \ A, n) : T = A \cup B
  BY <1>3
<1>5. PICK B \in Highest(z, DOMAIN z \ A, n) : T = A \cup B
  BY <1>4
<1>6. A \in SUBSET aged /\ B \in SUBSET (DOMAIN z \ A)
  BY <1>1
<1> QED BY <1>5, <1>6

\* COMPLETE of a job held under the caller's token.
LEMMA CompleteKeeps ==
  ASSUME NEW d, StoreInv(d), NEW j \in Jobs, d.hash[j].token # None,
         NEW e \in Complete(d, j)
  PROVE  Keeps(d, e)
<1> DEFINE freed == [d EXCEPT !.active = Drop(d.active, {j})]
           gone  == Deleted(freed, {j})
           kept  == [Moved(freed, {j}, "completed") EXCEPT !.completed = Put(@, {j}, 0)]
<1>1. j \in DOMAIN d.active
  BY OneJob DEF JobInv
<1>2. Keeps(d, gone) /\ Keeps(d, kept)
  BY <1>1, DoneKeeps, CompletedKeeps
<1>3. \E f \in {gone, kept} : \E age, count : e \in TrimCompleted(f, age, count)
  <2>1. [d EXCEPT !.active = Drop(@, {j})] = freed
    BY DEF StoreInv, Store
  <2> QED BY <2>1, Zenon DEF Complete
<1> HIDE DEF freed, gone, kept
<1>4. PICK f \in {gone, kept} : \E T \in SUBSET DOMAIN f.completed :
        e = [Deleted(f, T) EXCEPT !.completed = Drop(@, T)]
  BY <1>3, TrimSetsIn DEF TrimCompleted
<1>5. Keeps(d, f) /\ StoreInv(f)
  BY <1>2 DEF Keeps
<1>6. Keeps(f, e)
  BY <1>4, <1>5, TrimKeeps
<1> QED BY <1>5, <1>6, KeepsTrans

\* FAIL of a job held under the caller's token.
LEMMA FailKeeps ==
  ASSUME NEW d, StoreInv(d), NEW j \in Jobs, d.hash[j].token # None,
         NEW retryIn \in Nat \cup {-1}, NEW e \in Fail(d, j, retryIn)
  PROVE  Keeps(d, e)
<1> DEFINE freed == [d EXCEPT !.active = Drop(d.active, {j})]
           later == [Moved(freed, {j}, "delayed") EXCEPT !.delayed = Put(@, {j}, retryIn)]
           over  == [Moved(freed, {j}, "failed") EXCEPT !.failed = Put(@, {j}, 0)]
<1>1. j \in DOMAIN d.active
  BY OneJob DEF JobInv
<1>2. [d EXCEPT !.active = Drop(@, {j})] = freed
  BY DEF StoreInv, Store
<1>3. CASE Retries(d, j, retryIn)
  <2>1. e = later
    BY <1>2, <1>3, Zenon DEF Fail
  <2>2. retryIn \in Nat /\ d.hash[j].attempt < Attempts
    BY <1>3 DEF Retries
  <2> QED BY <1>1, <2>1, <2>2, RetryKeeps
<1>4. CASE ~Retries(d, j, retryIn)
  <2>1. e \in TrimFailed(over)
    BY <1>2, <1>4, Zenon DEF Fail
  <2>2. Keeps(d, over) /\ StoreInv(over)
    BY <1>1, FailedKeeps DEF Keeps
  <2> HIDE DEF over
  <2>3. PICK T \in SUBSET DOMAIN over.failed :
          e = [Deleted(over, T) EXCEPT !.failed = Drop(@, T)]
    BY <2>1, TrimSetsIn DEF TrimFailed
  <2>4. Keeps(over, e)
    BY <2>2, <2>3, TrimKeeps
  <2> QED BY <2>2, <2>4, KeepsTrans
<1> QED BY <1>3, <1>4
(***************************************************************************)
(* The other scripts                                                       *)
(***************************************************************************)

\* RENEW changes how long leases last, and which job holds one never.
LEMMA RenewedKeeps ==
  ASSUME NEW d, StoreInv(d), NEW S
  PROVE  Keeps(d, Renewed(d, S))
<1> DEFINE a == [j \in DOMAIN d.active |-> IF j \in S THEN Lease ELSE d.active[j]]
           e == [d EXCEPT !.active = a]
<1>1. d \in Store /\ d.active \in ZSets
  BY DEF StoreInv, Store
<1>2. DOMAIN d.active \in SUBSET Jobs /\ d.active \in [DOMAIN d.active -> Int]
  BY <1>1, ZSetDomain
<1>3. a \in [DOMAIN d.active -> Int]
  BY <1>2, StoreAssumption
<1>4. a \in ZSets
  BY <1>2, <1>3, ZSetIntro
<1>5. \A j \in DOMAIN d.active : a[j] >= -1
  BY <1>2, StoreAssumption DEF StoreInv, TimesInRange
<1>6. DOMAIN a = DOMAIN d.active
  OBVIOUS
<1>7. Renewed(d, S) = e
  BY <1>1 DEF Renewed, Store
<1> HIDE DEF a
<1>8. /\ e \in Store
      /\ e.hash = d.hash /\ e.ready = d.ready /\ e.delayed = d.delayed /\ e.active = a
      /\ e.completed = d.completed /\ e.failed = d.failed
  BY <1>1, <1>4 DEF Store
<1> HIDE DEF e
<1>9. TimesInRange(e)
  BY <1>5, <1>6, <1>8 DEF StoreInv, TimesInRange
<1>10. ASSUME NEW j \in Jobs
       PROVE  JobInv(e, j) /\ e.hash[j].token \in {None, d.hash[j].token}
  BY <1>6, <1>8, OneJob DEF JobInv
<1> QED BY <1>7, <1>8, <1>9, <1>10, JobByJob

\* RELEASE: a job given back has one more attempt left, and runs no more.
LEMMA ReleaseKeeps ==
  ASSUME NEW d, StoreInv(d), NEW S \in SUBSET DOMAIN d.active, NEW ord
  PROVE  Keeps(d, Release(d, S, ord))
<1> DEFINE h == [j \in Jobs |->
                  IF j \in S THEN [state |-> "waiting", token |-> None,
                                   attempt |-> d.hash[j].attempt - 1]
                  ELSE d.hash[j]]
           a == Drop(d.active, S)
           m == [d EXCEPT !.hash = h, !.active = a]
           e == ReadyAdd(m, S, ord)
<1>1. d \in Store /\ d.hash \in [Jobs -> Hash] /\ d.active \in ZSets
  BY DEF StoreInv, Store
<1>2. S \in SUBSET Jobs
  BY <1>1, ZSetDomain
<1>3. \A j \in S : d.hash[j].state = "active" /\ d.hash[j].attempt >= 1
  BY <1>2, OneJob DEF JobInv
<1>4. \A j \in S : d.hash[j].attempt - 1 \in 0 .. Attempts /\ d.hash[j].attempt - 1 < Attempts
  BY <1>1, <1>2, <1>3, StoreAssumption DEF Hash
<1>5. h \in [Jobs -> Hash]
  BY <1>1, <1>4 DEF Hash, States
<1>6. /\ \A j \in S : /\ h[j].state = "waiting" /\ h[j].token = None
                      /\ h[j].attempt < Attempts
      /\ \A j \in Jobs \ S : h[j] = d.hash[j]
  BY <1>2, <1>4
<1>7. /\ a \in ZSets
      /\ DOMAIN a = DOMAIN d.active \ S
      /\ \A j \in DOMAIN d.active \ S : a[j] = d.active[j]
  BY <1>1, DropZ
<1>8. Release(d, S, ord) = e \/ Release(d, S, ord) = WakeUnlessPaused(e)
  BY <1>1 DEF Release, Store
<1> HIDE DEF h, a
<1>9. /\ m \in Store
      /\ m.hash = h /\ m.ready = d.ready /\ m.delayed = d.delayed /\ m.active = a
      /\ m.completed = d.completed /\ m.failed = d.failed
  BY <1>1, <1>5, <1>7 DEF Store
<1> HIDE DEF m
<1>10. /\ e \in Store
       /\ e.hash = h /\ e.ready = d.ready \cup S /\ e.delayed = d.delayed /\ e.active = a
       /\ e.completed = d.completed /\ e.failed = d.failed
  BY <1>2, <1>9, ReadyAddFields
<1> HIDE DEF e
<1>11. TimesInRange(e)
  BY <1>7, <1>10 DEF StoreInv, TimesInRange
<1>12. ASSUME NEW j \in Jobs
       PROVE  JobInv(e, j) /\ e.hash[j].token \in {None, d.hash[j].token}
  <2>1. JobInv(d, j)
    BY OneJob
  <2>2. CASE j \in S
    BY <1>3, <1>6, <1>7, <1>10, <2>1, <2>2 DEF JobInv
  <2>3. CASE j \notin S
    BY <1>6, <1>7, <1>10, <2>1, <2>3 DEF JobInv
  <2> QED BY <2>2, <2>3
<1>13. Keeps(d, e)
  BY <1>10, <1>11, <1>12, JobByJob
<1>14. Keeps(e, WakeUnlessPaused(e))
  BY <1>13, WakeKeeps DEF Keeps
<1> QED BY <1>8, <1>13, <1>14, KeepsTrans

\* RETRY: a failed job starts over.
LEMMA RetryJobKeeps ==
  ASSUME NEW d, StoreInv(d), NEW j \in Jobs, Retryable(d, j)
  PROVE  Keeps(d, Retry(d, j))
<1> DEFINE new == [NoHash EXCEPT !.state = "waiting"]
           h == [d.hash EXCEPT ![j] = new]
           f == Drop(d.failed, {j})
           m == [d EXCEPT !.hash = h, !.failed = f]
           e == ReadyAdd(m, {j}, {})
<1>1. d \in Store /\ d.hash \in [Jobs -> Hash] /\ d.failed \in ZSets
  BY DEF StoreInv, Store
<1>2. new \in Hash /\ new.state = "waiting" /\ new.token = None /\ new.attempt = 0
  BY StoreAssumption DEF NoHash, Hash, States
<1>3. Retry(d, j) = WakeUnlessPaused(e)
  <2>1. [d EXCEPT !.hash[j] = new, !.failed = Drop(@, {j})] = m
    BY <1>1 DEF Store
  <2> HIDE DEF m
  <2> QED BY <2>1, Zenon DEF Retry
<1> HIDE DEF new
<1>4. h \in [Jobs -> Hash] /\ h[j] = new /\ \A i \in Jobs \ {j} : h[i] = d.hash[i]
  BY <1>1, <1>2
<1>5. f \in ZSets /\ DOMAIN f = DOMAIN d.failed \ {j}
  BY <1>1, DropZ
<1> HIDE DEF h, f
<1>6. /\ m \in Store
      /\ m.hash = h /\ m.ready = d.ready /\ m.delayed = d.delayed /\ m.active = d.active
      /\ m.completed = d.completed /\ m.failed = f
  BY <1>1, <1>4, <1>5 DEF Store
<1> HIDE DEF m
<1>7. /\ e \in Store
      /\ e.hash = h /\ e.ready = d.ready \cup {j} /\ e.delayed = d.delayed
      /\ e.active = d.active /\ e.completed = d.completed /\ e.failed = f
  <2> DEFINE S == {j}
             ord == {}
  <2>1. S \in SUBSET Jobs
    OBVIOUS
  <2>2. e = ReadyAdd(m, S, ord) /\ S = {j}
    OBVIOUS
  <2> HIDE DEF S, ord, e
  <2>3. m \in Store
    BY <1>6
  <2>4. \A n \in Store : /\ ReadyAdd(n, S, ord) \in Store
                         /\ ReadyAdd(n, S, ord).hash = n.hash
                         /\ ReadyAdd(n, S, ord).ready = n.ready \cup S
                         /\ ReadyAdd(n, S, ord).delayed = n.delayed
                         /\ ReadyAdd(n, S, ord).active = n.active
                         /\ ReadyAdd(n, S, ord).completed = n.completed
                         /\ ReadyAdd(n, S, ord).failed = n.failed
    BY <2>1, ReadyAddFields
  <2> QED BY <1>6, <2>2, <2>3, <2>4
<1> HIDE DEF e
<1>8. TimesInRange(e)
  BY <1>7 DEF StoreInv, TimesInRange
<1>9. ASSUME NEW i \in Jobs
      PROVE  JobInv(e, i) /\ e.hash[i].token \in {None, d.hash[i].token}
  <2>1. JobInv(d, i)
    BY OneJob
  <2>2. CASE i = j
    BY <1>2, <1>4, <1>5, <1>7, <2>1, <2>2, StoreAssumption DEF JobInv, Retryable
  <2>3. CASE i # j
    BY <1>4, <1>5, <1>7, <2>1, <2>3 DEF JobInv
  <2> QED BY <2>2, <2>3
<1>10. Keeps(d, e)
  BY <1>7, <1>8, <1>9, JobByJob
<1>11. Keeps(e, WakeUnlessPaused(e))
  BY <1>10, WakeKeeps DEF Keeps
<1> QED BY <1>3, <1>10, <1>11, KeepsTrans

\* A store whose job j is in none of its sets, and has no hash, as d's others are.
LEMMA GoneKeeps ==
  ASSUME NEW d, StoreInv(d), NEW j \in Jobs, NEW e \in Store,
         e.hash[j] = NoHash, \A i \in Jobs \ {j} : e.hash[i] = d.hash[i],
         e.ready = d.ready \ {j},
         DOMAIN e.delayed = DOMAIN d.delayed \ {j},
         \A i \in DOMAIN e.delayed : e.delayed[i] = d.delayed[i],
         DOMAIN e.active = DOMAIN d.active \ {j},
         \A i \in DOMAIN e.active : e.active[i] = d.active[i],
         DOMAIN e.completed = DOMAIN d.completed \ {j},
         DOMAIN e.failed = DOMAIN d.failed \ {j}
  PROVE  Keeps(d, e)
<1>1. TimesInRange(e)
  BY DEF StoreInv, TimesInRange
<1>2. ASSUME NEW i \in Jobs
      PROVE  JobInv(e, i) /\ e.hash[i].token \in {None, d.hash[i].token}
  <2>1. JobInv(d, i)
    BY OneJob
  <2>2. CASE i = j
    BY <2>1, <2>2 DEF JobInv, NoHash
  <2>3. CASE i # j
    BY <2>1, <2>3 DEF JobInv
  <2> QED BY <2>2, <2>3
<1> QED BY <1>1, <1>2, JobByJob

\* CANCEL and REMOVE: the job is in no set, and has no hash.
LEMMA CancelKeeps ==
  ASSUME NEW d, StoreInv(d), NEW j \in Jobs, Cancelable(d, j)
  PROVE  Keeps(d, Cancel(d, j))
<1> DEFINE e == Cancel(d, j)
           y == Drop(d.delayed, {j})
           a == Drop(d.active, {j})
<1>1. d \in Store /\ d.delayed \in ZSets /\ d.active \in ZSets /\ JobInv(d, j)
  BY OneJob DEF StoreInv, Store
<1>2. /\ y \in ZSets /\ DOMAIN y = DOMAIN d.delayed \ {j}
      /\ \A i \in DOMAIN d.delayed \ {j} : y[i] = d.delayed[i]
  BY <1>1, DropZ
<1>3. /\ a \in ZSets /\ DOMAIN a = DOMAIN d.active \ {j}
      /\ \A i \in DOMAIN d.active \ {j} : a[i] = d.active[i]
  BY <1>1, DropZ
<1>4. CASE d.hash[j].state = "waiting"
  <2> DEFINE m == ReadyRem(d, {j})
  <2>1. e = Deleted(m, {j})
    BY <1>4 DEF Cancel
  <2>2. /\ m \in Store
        /\ m.ready = d.ready \ {j}
        /\ m.hash = d.hash /\ m.delayed = d.delayed /\ m.active = d.active
        /\ m.completed = d.completed /\ m.failed = d.failed
    BY <1>1, ReadyRemFields
  <2> HIDE DEF m
  <2>3. /\ e \in Store /\ e.hash[j] = NoHash /\ \A i \in Jobs \ {j} : e.hash[i] = d.hash[i]
        /\ e.ready = d.ready \ {j} /\ e.delayed = d.delayed /\ e.active = d.active
        /\ e.completed = d.completed /\ e.failed = d.failed
    BY <2>1, <2>2, DeletedFields
  <2> HIDE DEF e
  <2>4. /\ DOMAIN d.delayed \ {j} = DOMAIN d.delayed
        /\ DOMAIN d.active \ {j} = DOMAIN d.active
        /\ DOMAIN d.completed \ {j} = DOMAIN d.completed
        /\ DOMAIN d.failed \ {j} = DOMAIN d.failed
    BY <1>1, <1>4 DEF JobInv
  <2>5. /\ e \in Store /\ e.hash[j] = NoHash
        /\ \A i \in Jobs \ {j} : e.hash[i] = d.hash[i]
        /\ e.ready = d.ready \ {j}
        /\ DOMAIN e.delayed = DOMAIN d.delayed \ {j}
        /\ \A i \in DOMAIN e.delayed : e.delayed[i] = d.delayed[i]
        /\ DOMAIN e.active = DOMAIN d.active \ {j}
        /\ \A i \in DOMAIN e.active : e.active[i] = d.active[i]
        /\ DOMAIN e.completed = DOMAIN d.completed \ {j}
        /\ DOMAIN e.failed = DOMAIN d.failed \ {j}
    BY <1>1, <2>3, <2>4
  <2>6. Keeps(d, e)
    BY <2>5, GoneKeeps
  <2> QED BY <2>6 DEF e
<1>5. CASE d.hash[j].state = "delayed"
  <2> DEFINE m == [d EXCEPT !.delayed = y]
  <2>1. e = Deleted(m, {j})
    BY <1>1, <1>5 DEF Cancel, Store
  <2> HIDE DEF y
  <2>2. /\ m \in Store
        /\ m.hash = d.hash /\ m.ready = d.ready /\ m.delayed = y /\ m.active = d.active
        /\ m.completed = d.completed /\ m.failed = d.failed
    BY <1>1, <1>2 DEF Store
  <2> HIDE DEF m
  <2>3. /\ e \in Store /\ e.hash[j] = NoHash /\ \A i \in Jobs \ {j} : e.hash[i] = d.hash[i]
        /\ e.ready = d.ready /\ e.delayed = y /\ e.active = d.active
        /\ e.completed = d.completed /\ e.failed = d.failed
    BY <2>1, <2>2, DeletedFields
  <2> HIDE DEF e
  <2>4. /\ d.ready \ {j} = d.ready
        /\ DOMAIN d.active \ {j} = DOMAIN d.active
        /\ DOMAIN d.completed \ {j} = DOMAIN d.completed
        /\ DOMAIN d.failed \ {j} = DOMAIN d.failed
    BY <1>1, <1>5 DEF JobInv
  <2>5. /\ e \in Store /\ e.hash[j] = NoHash
        /\ \A i \in Jobs \ {j} : e.hash[i] = d.hash[i]
        /\ e.ready = d.ready \ {j}
        /\ DOMAIN e.delayed = DOMAIN d.delayed \ {j}
        /\ \A i \in DOMAIN e.delayed : e.delayed[i] = d.delayed[i]
        /\ DOMAIN e.active = DOMAIN d.active \ {j}
        /\ \A i \in DOMAIN e.active : e.active[i] = d.active[i]
        /\ DOMAIN e.completed = DOMAIN d.completed \ {j}
        /\ DOMAIN e.failed = DOMAIN d.failed \ {j}
    BY <1>1, <1>2, <2>3, <2>4
  <2>6. Keeps(d, e)
    BY <2>5, GoneKeeps
  <2> QED BY <2>6 DEF e
<1>6. CASE d.hash[j].state = "active"
  <2> DEFINE m == [d EXCEPT !.active = a]
  <2>1. e = Deleted(m, {j})
    BY <1>1, <1>6 DEF Cancel, Store
  <2> HIDE DEF a
  <2>2. /\ m \in Store
        /\ m.hash = d.hash /\ m.ready = d.ready /\ m.delayed = d.delayed /\ m.active = a
        /\ m.completed = d.completed /\ m.failed = d.failed
    BY <1>1, <1>3 DEF Store
  <2> HIDE DEF m
  <2>3. /\ e \in Store /\ e.hash[j] = NoHash /\ \A i \in Jobs \ {j} : e.hash[i] = d.hash[i]
        /\ e.ready = d.ready /\ e.delayed = d.delayed /\ e.active = a
        /\ e.completed = d.completed /\ e.failed = d.failed
    BY <2>1, <2>2, DeletedFields
  <2> HIDE DEF e
  <2>4. /\ d.ready \ {j} = d.ready
        /\ DOMAIN d.delayed \ {j} = DOMAIN d.delayed
        /\ DOMAIN d.completed \ {j} = DOMAIN d.completed
        /\ DOMAIN d.failed \ {j} = DOMAIN d.failed
    BY <1>1, <1>6 DEF JobInv
  <2>5. /\ e \in Store /\ e.hash[j] = NoHash
        /\ \A i \in Jobs \ {j} : e.hash[i] = d.hash[i]
        /\ e.ready = d.ready \ {j}
        /\ DOMAIN e.delayed = DOMAIN d.delayed \ {j}
        /\ \A i \in DOMAIN e.delayed : e.delayed[i] = d.delayed[i]
        /\ DOMAIN e.active = DOMAIN d.active \ {j}
        /\ \A i \in DOMAIN e.active : e.active[i] = d.active[i]
        /\ DOMAIN e.completed = DOMAIN d.completed \ {j}
        /\ DOMAIN e.failed = DOMAIN d.failed \ {j}
    BY <1>1, <1>3, <2>3, <2>4
  <2>6. Keeps(d, e)
    BY <2>5, GoneKeeps
  <2> QED BY <2>6 DEF e
<1> QED BY <1>4, <1>5, <1>6 DEF Cancelable

\* REMOVE takes the job out of whatever set held it, with its hash.
LEMMA RemoveKeeps ==
  ASSUME NEW d, StoreInv(d), NEW j \in Jobs
  PROVE  Keeps(d, Remove(d, j))
<1> DEFINE r == ReadyRem(d, {j})
           y == Drop(d.delayed, {j})
           a == Drop(d.active, {j})
           c == Drop(d.completed, {j})
           f == Drop(d.failed, {j})
           m == [r EXCEPT !.delayed = y, !.active = a, !.completed = c, !.failed = f]
           e == Deleted(m, {j})
<1>1. /\ d \in Store /\ d.delayed \in ZSets /\ d.active \in ZSets
      /\ d.completed \in ZSets /\ d.failed \in ZSets
  BY DEF StoreInv, Store
<1>2. /\ y \in ZSets /\ DOMAIN y = DOMAIN d.delayed \ {j}
      /\ \A i \in DOMAIN d.delayed \ {j} : y[i] = d.delayed[i]
  BY <1>1, DropZ
<1>3. /\ a \in ZSets /\ DOMAIN a = DOMAIN d.active \ {j}
      /\ \A i \in DOMAIN d.active \ {j} : a[i] = d.active[i]
  BY <1>1, DropZ
<1>4. c \in ZSets /\ DOMAIN c = DOMAIN d.completed \ {j}
  BY <1>1, DropZ
<1>5. f \in ZSets /\ DOMAIN f = DOMAIN d.failed \ {j}
  BY <1>1, DropZ
<1>6. /\ r \in Store
      /\ r.ready = d.ready \ {j}
      /\ r.hash = d.hash /\ r.delayed = d.delayed /\ r.active = d.active
      /\ r.completed = d.completed /\ r.failed = d.failed
  BY <1>1, ReadyRemFields
<1>7. Remove(d, j) = e
  BY <1>6 DEF Remove
<1> HIDE DEF r, y, a, c, f
<1>8. /\ m \in Store
      /\ m.hash = d.hash /\ m.ready = d.ready \ {j} /\ m.delayed = y /\ m.active = a
      /\ m.completed = c /\ m.failed = f
  BY <1>2, <1>3, <1>4, <1>5, <1>6 DEF Store
<1> HIDE DEF m
<1>9. /\ e \in Store /\ e.hash[j] = NoHash /\ \A i \in Jobs \ {j} : e.hash[i] = d.hash[i]
      /\ e.ready = d.ready \ {j} /\ e.delayed = y /\ e.active = a
      /\ e.completed = c /\ e.failed = f
  BY <1>8, DeletedFields
<1> HIDE DEF e
<1>10. Keeps(d, e)
  BY <1>2, <1>3, <1>4, <1>5, <1>9, GoneKeeps
<1> QED BY <1>7, <1>10

\* PAUSE and RESUME.
LEMMA PauseKeeps ==
  ASSUME NEW d, StoreInv(d)
  PROVE  Keeps(d, Pause(d)) /\ Keeps(d, Resume(d))
<1>1. d \in Store
  BY DEF StoreInv
<1>2. ASSUME NEW b \in BOOLEAN
      PROVE  Keeps(d, [d EXCEPT !.paused = b])
  <2>1. [d EXCEPT !.paused = b] \in Store
    BY <1>1 DEF Store
  <2> QED BY <1>1, <2>1, SameKeys DEF Store
<1> DEFINE on == [d EXCEPT !.paused = FALSE]
<1>3. Keeps(d, on)
  BY <1>2
<1>4. Resume(d) = on \/ Resume(d) = Wake(on)
  BY Zenon DEF Resume
<1> HIDE DEF on
<1>5. Keeps(on, Wake(on))
  BY <1>3, WakeKeeps DEF Keeps
<1>6. Keeps(d, Wake(on))
  BY <1>3, <1>5, KeepsTrans
<1> QED BY <1>2, <1>3, <1>4, <1>6 DEF Pause

\* add_job: a new job is in `ready' or `delayed'.
LEMMA AddJobKeeps ==
  ASSUME NEW d, StoreInv(d), NEW j \in Jobs, NEW delay \in Nat
  PROVE  Keeps(d, AddJob(d, j, delay))
<1>1. d \in Store /\ d.hash \in [Jobs -> Hash] /\ d.delayed \in ZSets
  BY DEF StoreInv, Store
<1>2. CASE d.hash[j].state # "none"
  <2>1. AddJob(d, j, delay) = d
    BY <1>2 DEF AddJob
  <2> QED BY <2>1, WakeKeeps
<1>3. CASE d.hash[j].state = "none" /\ delay = 0
  <2> DEFINE new == [NoHash EXCEPT !.state = "waiting"]
             h == [d.hash EXCEPT ![j] = new]
             m == [d EXCEPT !.hash = h]
             S == {j}
             ord == {}
             e == ReadyAdd(m, S, ord)
  <2>1. AddJob(d, j, delay) = WakeUnlessPaused(e)
    <3>1. [d EXCEPT !.hash[j] = new] = m
      BY <1>1 DEF Store
    <3> HIDE DEF m
    <3> QED BY <1>3, <3>1, Zenon DEF AddJob
  <2>2. new \in Hash /\ new.state = "waiting" /\ new.token = None /\ new.attempt = 0
    BY StoreAssumption DEF NoHash, Hash, States
  <2> HIDE DEF new
  <2>3. h \in [Jobs -> Hash] /\ h[j] = new /\ \A i \in Jobs \ {j} : h[i] = d.hash[i]
    BY <1>1, <2>2
  <2> HIDE DEF h
  <2>4. /\ m \in Store
        /\ m.hash = h /\ m.ready = d.ready /\ m.delayed = d.delayed /\ m.active = d.active
        /\ m.completed = d.completed /\ m.failed = d.failed
    BY <1>1, <2>3 DEF Store
  <2>5. S \in SUBSET Jobs
    OBVIOUS
  <2> HIDE DEF m, ord
  <2>6. /\ e \in Store
        /\ e.hash = h /\ e.ready = d.ready \cup S /\ e.delayed = d.delayed
        /\ e.active = d.active /\ e.completed = d.completed /\ e.failed = d.failed
    <3> HIDE DEF S
    <3> QED BY <2>4, <2>5, ReadyAddFields
  <2> HIDE DEF e
  <2>7. TimesInRange(e)
    BY <2>6 DEF StoreInv, TimesInRange
  <2>8. ASSUME NEW i \in Jobs
        PROVE  JobInv(e, i) /\ e.hash[i].token \in {None, d.hash[i].token}
    <3>1. JobInv(d, i)
      BY OneJob
    <3>2. CASE i = j
      BY <1>3, <2>2, <2>3, <2>6, <3>1, <3>2, StoreAssumption DEF JobInv
    <3>3. CASE i # j
      BY <2>3, <2>6, <3>1, <3>3 DEF JobInv
    <3> QED BY <3>2, <3>3
  <2>9. Keeps(d, e)
    BY <2>6, <2>7, <2>8, JobByJob
  <2>10. Keeps(e, WakeUnlessPaused(e))
    BY <2>9, WakeKeeps DEF Keeps
  <2>11. Keeps(d, WakeUnlessPaused(e))
    BY <2>9, <2>10, KeepsTrans
  <2> QED BY <2>1, <2>11
<1>4. CASE d.hash[j].state = "none" /\ delay # 0
  <2> DEFINE new == [NoHash EXCEPT !.state = "delayed"]
             h == [d.hash EXCEPT ![j] = new]
             m == [d EXCEPT !.hash = h]
             y == Put(d.delayed, {j}, delay)
             n == IF IsHead(d, delay) THEN WakeUnlessPaused(m) ELSE m
             e == [n EXCEPT !.delayed = y]
  <2>1. AddJob(d, j, delay) = e
    <3>1. [d EXCEPT !.hash[j] = new] = m
      BY <1>1 DEF Store
    <3> HIDE DEF m
    <3> QED BY <1>4, <3>1, Zenon DEF AddJob
  <2>2. new \in Hash /\ new.state = "delayed" /\ new.token = None /\ new.attempt = 0
    BY StoreAssumption DEF NoHash, Hash, States
  <2> HIDE DEF new
  <2>3. h \in [Jobs -> Hash] /\ h[j] = new /\ \A i \in Jobs \ {j} : h[i] = d.hash[i]
    BY <1>1, <2>2
  <2> HIDE DEF h
  <2>4. /\ y \in ZSets /\ DOMAIN y = DOMAIN d.delayed \cup {j}
        /\ y[j] = delay /\ \A i \in DOMAIN d.delayed \ {j} : y[i] = d.delayed[i]
    <3>1. y \in ZSets
      BY <1>1, {j} \in SUBSET Jobs, delay \in Int, PutZ, Zenon
    <3> QED BY <3>1 DEF Put
  <2> HIDE DEF y
  <2>5. /\ m \in Store
        /\ m.hash = h /\ m.ready = d.ready /\ m.delayed = d.delayed /\ m.active = d.active
        /\ m.completed = d.completed /\ m.failed = d.failed
    BY <1>1, <2>3 DEF Store
  <2> HIDE DEF m
  <2>6. /\ n \in Store
        /\ n.hash = h /\ n.ready = d.ready /\ n.delayed = d.delayed /\ n.active = d.active
        /\ n.completed = d.completed /\ n.failed = d.failed
    <3>1. n = m \/ n = [m EXCEPT !.wake = 1]
      BY DEF WakeUnlessPaused, Wake
    <3> HIDE DEF n
    <3> QED BY <2>5, <3>1 DEF Store
  <2> HIDE DEF n
  <2>7. /\ e \in Store
        /\ e.hash = h /\ e.ready = d.ready /\ e.delayed = y
        /\ e.active = d.active /\ e.completed = d.completed /\ e.failed = d.failed
    BY <2>4, <2>6 DEF Store
  <2> HIDE DEF e
  <2>8. TimesInRange(e)
    BY <2>4, <2>7 DEF StoreInv, TimesInRange
  <2>9. ASSUME NEW i \in Jobs
        PROVE  JobInv(e, i) /\ e.hash[i].token \in {None, d.hash[i].token}
    <3>1. JobInv(d, i)
      BY OneJob
    <3>2. CASE i = j
      BY <1>4, <2>2, <2>3, <2>4, <2>7, <3>1, <3>2, StoreAssumption DEF JobInv
    <3>3. CASE i # j
      BY <2>3, <2>4, <2>7, <3>1, <3>3 DEF JobInv
    <3> QED BY <3>2, <3>3
  <2>10. Keeps(d, e)
    BY <2>7, <2>8, <2>9, JobByJob
  <2> QED BY <2>1, <2>10
<1> QED BY <1>2, <1>3, <1>4

\* The passing of time moves no job.
LEMMA PassTimeKeeps ==
  ASSUME NEW d, StoreInv(d)
  PROVE  Keeps(d, PassTime(d))
<1> DEFINE y == [j \in DOMAIN d.delayed |-> Max2(0, d.delayed[j] - 1)]
           a == [j \in DOMAIN d.active |-> Max2(-1, d.active[j] - 1)]
           c == [j \in DOMAIN d.completed |-> Min2(Max2(KeepAge, 0) + 1, d.completed[j] + 1)]
           f == [j \in DOMAIN d.failed |-> Min2(KeepFailed + 1, d.failed[j] + 1)]
           e == [d EXCEPT !.delayed = y, !.active = a, !.completed = c, !.failed = f]
<1>1. /\ d \in Store /\ d.delayed \in ZSets /\ d.active \in ZSets
      /\ d.completed \in ZSets /\ d.failed \in ZSets
  BY DEF StoreInv, Store
<1>2. y \in ZSets /\ DOMAIN y = DOMAIN d.delayed /\ \A j \in DOMAIN y : y[j] >= 0
  <2>1. DOMAIN d.delayed \in SUBSET Jobs /\ d.delayed \in [DOMAIN d.delayed -> Int]
    BY <1>1, ZSetDomain
  <2>2. y \in [DOMAIN d.delayed -> Int] /\ \A j \in DOMAIN y : y[j] >= 0
    BY <2>1 DEF Max2
  <2> QED BY <2>1, <2>2, ZSetIntro
<1>3. a \in ZSets /\ DOMAIN a = DOMAIN d.active /\ \A j \in DOMAIN a : a[j] >= -1
  <2>1. DOMAIN d.active \in SUBSET Jobs /\ d.active \in [DOMAIN d.active -> Int]
    BY <1>1, ZSetDomain
  <2>2. a \in [DOMAIN d.active -> Int] /\ \A j \in DOMAIN a : a[j] >= -1
    BY <2>1 DEF Max2
  <2> QED BY <2>1, <2>2, ZSetIntro
<1>4. c \in ZSets /\ DOMAIN c = DOMAIN d.completed
  <2>1. DOMAIN d.completed \in SUBSET Jobs /\ d.completed \in [DOMAIN d.completed -> Int]
    BY <1>1, ZSetDomain
  <2>2. c \in [DOMAIN d.completed -> Int]
    BY <2>1, StoreAssumption DEF Max2, Min2
  <2> QED BY <2>1, <2>2, ZSetIntro
<1>5. f \in ZSets /\ DOMAIN f = DOMAIN d.failed
  <2>1. DOMAIN d.failed \in SUBSET Jobs /\ d.failed \in [DOMAIN d.failed -> Int]
    BY <1>1, ZSetDomain
  <2>2. f \in [DOMAIN d.failed -> Int]
    BY <2>1, StoreAssumption DEF Min2
  <2> QED BY <2>1, <2>2, ZSetIntro
<1>6. PassTime(d) = e
  BY <1>1 DEF PassTime, Store
<1> HIDE DEF y, a, c, f
<1>7. /\ e \in Store
      /\ e.hash = d.hash /\ e.ready = d.ready /\ e.delayed = y /\ e.active = a
      /\ e.completed = c /\ e.failed = f
  BY <1>1, <1>2, <1>3, <1>4, <1>5 DEF Store
<1> HIDE DEF e
<1>8. TimesInRange(e)
  BY <1>2, <1>3, <1>7 DEF TimesInRange
<1>9. ASSUME NEW j \in Jobs
      PROVE  JobInv(e, j) /\ e.hash[j].token \in {None, d.hash[j].token}
  BY <1>2, <1>3, <1>4, <1>5, <1>7, OneJob DEF JobInv
<1> QED BY <1>6, <1>7, <1>8, <1>9, JobByJob

(***************************************************************************)
(* What each script does to a job                                          *)
(***************************************************************************)

\* Job j is in state st of e, with n attempts counted.
At(e, j, st, n) == e.hash[j].state = st /\ e.hash[j].attempt = n

Lapses(d, j) == d.hash[j].state = "active" /\ d.active[j] < 0

\* The steps of the claim: what each may make of a job.
ReclaimMove(d, e, j) ==
  \/ e.hash[j] = d.hash[j]
  \/ Lapses(d, j) /\ d.hash[j].attempt < Attempts /\ At(e, j, "waiting", d.hash[j].attempt)
  \/ Lapses(d, j) /\ At(e, j, "failed", d.hash[j].attempt)

PromoteMove(d, e, j) ==
  \/ e.hash[j] = d.hash[j]
  \/ d.hash[j].state = "delayed" /\ At(e, j, "waiting", d.hash[j].attempt)

BeginMove(d, e, j) ==
  \/ e.hash[j] = d.hash[j]
  \/ d.hash[j].state = "waiting" /\ ~d.paused /\ At(e, j, "active", d.hash[j].attempt + 1)

\* A claim takes a job that is queued, or whose lease lapsed, and starts none
\* while the queue is paused.
ClaimMove(d, e, j) ==
  \/ e.hash[j] = d.hash[j]
  \/ /\ d.hash[j].state \in {"waiting", "delayed"}
     /\ \/ At(e, j, "waiting", d.hash[j].attempt)
        \/ ~d.paused /\ d.hash[j].attempt < Attempts /\ At(e, j, "active", d.hash[j].attempt + 1)
  \/ /\ Lapses(d, j) /\ d.hash[j].attempt < Attempts
     /\ \/ At(e, j, "waiting", d.hash[j].attempt)
        \/ ~d.paused /\ At(e, j, "active", d.hash[j].attempt + 1)
  \/ Lapses(d, j) /\ At(e, j, "failed", d.hash[j].attempt)

\* reclaim moves lapsed jobs only.
LEMMA ReclaimMoves ==
  ASSUME NEW d, StoreInv(d), NEW L \in SUBSET Lapsed(d), NEW ord
  PROVE  /\ Reclaim(d, L, ord).paused = d.paused
         /\ \A j \in Jobs : ReclaimMove(d, Reclaim(d, L, ord), j)
<1> DEFINE back == { j \in L : d.hash[j].attempt < Attempts }
           h == [j \in Jobs |->
                  IF j \in back THEN [d.hash[j] EXCEPT !.state = "waiting", !.token = None]
                  ELSE IF j \in L THEN [d.hash[j] EXCEPT !.state = "failed", !.token = None]
                  ELSE d.hash[j]]
           a == Drop(d.active, L)
           f == Put(d.failed, L \ back, 0)
           e == Reclaim(d, L, ord)
<1>1. d \in Store /\ d.hash \in [Jobs -> Hash]
  BY DEF StoreInv, Store
<1>2. e = ReadyAdd([d EXCEPT !.hash = h, !.active = a, !.failed = f], back, ord)
  BY <1>1 DEF Reclaim, Store
<1> HIDE DEF a, f
<1>3. e.hash = h /\ e.paused = d.paused
  <2> HIDE DEF h, back
  <2> QED BY <1>1, <1>2 DEF ReadyAdd, Store
<1> HIDE DEF e
<1>4. ASSUME NEW j \in Jobs
      PROVE  ReclaimMove(d, e, j)
  <2>1. d.hash[j] \in Hash
    BY <1>1
  <2>2. CASE j \in L
    <3>1. Lapses(d, j)
      BY <2>2, OneJob DEF Lapses, Lapsed, JobInv
    <3>2. CASE j \in back
      BY <1>3, <2>1, <3>1, <3>2 DEF ReclaimMove, At, Hash
    <3>3. CASE j \notin back
      BY <1>3, <2>1, <2>2, <3>1, <3>3 DEF ReclaimMove, At, Hash
    <3> QED BY <3>2, <3>3
  <2>3. CASE j \notin L
    BY <1>3, <2>3 DEF ReclaimMove
  <2> QED BY <2>2, <2>3
<1> QED BY <1>3, <1>4 DEF e

\* promote moves delayed jobs only.
LEMMA PromoteMoves ==
  ASSUME NEW d, StoreInv(d), NEW P \in SUBSET DOMAIN d.delayed, NEW ord
  PROVE  /\ Promote(d, P, ord).paused = d.paused
         /\ \A j \in Jobs : PromoteMove(d, Promote(d, P, ord), j)
<1> DEFINE h == [j \in Jobs |-> IF j \in P THEN [d.hash[j] EXCEPT !.state = "waiting", !.token = None]
                                ELSE d.hash[j]]
           z == Drop(d.delayed, P)
           e == Promote(d, P, ord)
<1>1. d \in Store /\ d.hash \in [Jobs -> Hash]
  BY DEF StoreInv, Store
<1>2. e.hash = h /\ e.paused = d.paused
  <2>1. e = ReadyAdd([[d EXCEPT !.hash = h] EXCEPT !.delayed = z], P, ord)
    BY <1>1 DEF Promote, Moved, Store
  <2> HIDE DEF h, z, e
  <2> QED BY <1>1, <2>1 DEF ReadyAdd, Store
<1> HIDE DEF e
<1>3. ASSUME NEW j \in Jobs
      PROVE  PromoteMove(d, e, j)
  <2>1. d.hash[j] \in Hash
    BY <1>1
  <2>2. CASE j \in P
    <3>1. d.hash[j].state = "delayed"
      BY <2>2, OneJob DEF JobInv
    <3> QED BY <1>2, <2>1, <2>2, <3>1 DEF PromoteMove, At, Hash
  <2>3. CASE j \notin P
    BY <1>2, <2>3 DEF PromoteMove
  <2> QED BY <2>2, <2>3
<1> QED BY <1>2, <1>3 DEF e

\* Nothing is popped while the queue is paused.
LEMMA HeadsUnpaused ==
  ASSUME NEW d, StoreInv(d), NEW n, NEW S \in Heads(d, n), d.paused
  PROVE  S = {}
<1>1. S \in SUBSET Jobs /\ Cardinality(S) = 0
  BY DEF Heads, StoreInv, Store
<1>2. IsFiniteSet(S)
  BY <1>1, StoreAssumption, FS_Subset
<1> QED BY <1>1, <1>2, FS_EmptySet

\* begin starts jobs of `ready' only, and none while the queue is paused.
LEMMA BeginMoves ==
  ASSUME NEW d, StoreInv(d), NEW n, NEW S \in Heads(d, n), NEW tok, DOMAIN tok = S
  PROVE  /\ Baton(Begin(d, tok)).paused = d.paused
         /\ \A j \in Jobs : BeginMove(d, Baton(Begin(d, tok)), j)
<1> DEFINE h == [j \in Jobs |->
                  IF j \in S THEN [state |-> "active", token |-> tok[j],
                                   attempt |-> d.hash[j].attempt + 1]
                  ELSE d.hash[j]]
           a == Put(d.active, S, Lease)
           e == Baton(Begin(d, tok))
<1>1. d \in Store /\ d.hash \in [Jobs -> Hash]
  BY DEF StoreInv, Store
<1>2. e.hash = h /\ e.paused = d.paused
  <2>1. Begin(d, tok) = [ReadyRem(d, S) EXCEPT !.hash = h, !.active = a]
    BY <1>1 DEF Begin, ReadyRem, Store
  <2> HIDE DEF h, a
  <2> QED BY <1>1, <2>1 DEF ReadyRem, Baton, Store
<1> HIDE DEF e
<1>3. ASSUME NEW j \in Jobs
      PROVE  BeginMove(d, e, j)
  <2>1. CASE j \in S
    <3>1. d.hash[j].state = "waiting" /\ ~d.paused
      BY <2>1, HeadsUnpaused, OneJob DEF JobInv, Heads
    <3> QED BY <1>2, <2>1, <3>1 DEF BeginMove, At
  <2>2. CASE j \notin S
    BY <1>2, <2>2 DEF BeginMove
  <2> QED BY <2>1, <2>2
<1> QED BY <1>2, <1>3 DEF e

\* A claim takes queued and lapsed jobs only.
LEMMA ClaimsMove ==
  ASSUME NEW d, StoreInv(d), NEW n, NEW fresh, NEW r \in Claims(d, n, fresh)
  PROVE  \A j \in Jobs : ClaimMove(d, r.db, j)
<1>1. PICK d1 \in Reclaims(d) : \E d2 \in Promotions(d1) : \E S \in Heads(d2, n) :
        \E tok \in NewTokens(S, fresh) : r = [db |-> Baton(Begin(d2, tok)), tok |-> tok]
  BY DEF Claims
<1>. PICK d2 \in Promotions(d1) : \E S \in Heads(d2, n) :
        \E tok \in NewTokens(S, fresh) : r = [db |-> Baton(Begin(d2, tok)), tok |-> tok]
  BY <1>1
<1>. PICK S \in Heads(d2, n) :
        \E tok \in NewTokens(S, fresh) : r = [db |-> Baton(Begin(d2, tok)), tok |-> tok]
  OBVIOUS
<1>tok. PICK tok \in NewTokens(S, fresh) : r = [db |-> Baton(Begin(d2, tok)), tok |-> tok]
  OBVIOUS
<1>2. StoreInv(d1) /\ d1.paused = d.paused /\ \A j \in Jobs : ReclaimMove(d, d1, j)
  <2>1. \E L \in Lowest(d.active, Lapsed(d), ReclaimCap) : \E ord : d1 = Reclaim(d, L, ord)
    BY DEF Reclaims
  <2>2. PICK L \in SUBSET Lapsed(d) : \E ord : d1 = Reclaim(d, L, ord)
    BY <2>1 DEF Lowest
  <2>3. L \in SUBSET DOMAIN d.active
    BY DEF Lapsed
  <2> QED BY <2>2, <2>3, ReclaimKeeps, ReclaimMoves DEF Keeps
<1>3. StoreInv(d2) /\ d2.paused = d1.paused /\ \A j \in Jobs : PromoteMove(d1, d2, j)
  <2>1. \E P \in Lowest(d1.delayed, Due(d1), PromoteCap) : \E ord : d2 = Promote(d1, P, ord)
    BY DEF Promotions
  <2>2. PICK P \in SUBSET DOMAIN d1.delayed : \E ord : d2 = Promote(d1, P, ord)
    BY <2>1 DEF Lowest, Due
  <2> QED BY <1>2, <2>2, PromoteKeeps, PromoteMoves DEF Keeps
<1> DEFINE e == Baton(Begin(d2, tok))
<1>4. \A j \in Jobs : BeginMove(d2, e, j)
  <2>1. DOMAIN tok = S
    BY DEF NewTokens
  <2> QED BY <1>3, <2>1, BeginMoves
<1>5. r.db = e
  BY <1>tok
<1> HIDE DEF e
<1>6. ASSUME NEW j \in Jobs
      PROVE  ClaimMove(d, e, j)
  <2>1. JobInv(d, j) /\ JobInv(d2, j) /\ d.hash[j] \in Hash /\ d1.hash[j] \in Hash /\ d2.hash[j] \in Hash
    BY <1>2, <1>3, OneJob
  <2>2. ReclaimMove(d, d1, j) /\ PromoteMove(d1, d2, j) /\ BeginMove(d2, e, j)
    BY <1>2, <1>3, <1>4
  <2> QED BY <1>2, <1>3, <2>1, <2>2 DEF ReclaimMove, PromoteMove, BeginMove, ClaimMove, At, JobInv
<1> QED BY <1>5, <1>6

\* The settle of the jobs of S, one at most: theirs is over or waits for a
\* retry, another job is untouched or no longer retained.
SettleMove(d, e, S, j) ==
  IF j \in S
  THEN /\ d.hash[j].state = "active"
       /\ \/ At(e, j, "completed", d.hash[j].attempt)
          \/ At(e, j, "failed", d.hash[j].attempt)
          \/ d.hash[j].attempt < Attempts /\ At(e, j, "delayed", d.hash[j].attempt)
          \/ e.hash[j] = NoHash
  ELSE \/ e.hash[j] = NoHash
       \/ e.hash[j] = d.hash[j] /\ (Lapses(e, j) => Lapses(d, j))

Settled(d, e, S) == e.paused = d.paused /\ \A j \in Jobs : SettleMove(d, e, S, j)

\* A settle that touches nothing.
LEMMA NotSettled ==
  ASSUME NEW d
  PROVE  Settled(d, d, {})
BY DEF Settled, SettleMove

\* What the settle's own lines make of the jobs, before it trims.
Ended(d, e, i) ==
  /\ StoreInv(e) /\ e.paused = d.paused
  /\ \/ At(e, i, "completed", d.hash[i].attempt)
     \/ At(e, i, "failed", d.hash[i].attempt)
     \/ d.hash[i].attempt < Attempts /\ At(e, i, "delayed", d.hash[i].attempt)
     \/ e.hash[i] = NoHash
  /\ \A j \in Jobs \ {i} : e.hash[j] = d.hash[j] /\ (Lapses(e, j) => Lapses(d, j))

\* A hash that ends an attempt of job i.
EndOf(d, i, x) ==
  \/ x = NoHash
  \/ /\ x.attempt = d.hash[i].attempt
     /\ \/ x.state \in {"completed", "failed"}
        \/ x.state = "delayed" /\ d.hash[i].attempt < Attempts

\* The job leaves `active', and its hash changes or goes.
LEMMA EndsAs ==
  ASSUME NEW d, StoreInv(d), NEW i \in DOMAIN d.active, NEW e, StoreInv(e),
         e.paused = d.paused, e.active = Drop(d.active, {i}), NEW x,
         e.hash = [j \in Jobs |-> IF j \in {i} THEN x ELSE d.hash[j]],
         EndOf(d, i, x)
  PROVE  Ended(d, e, i)
<1>1. d.active \in ZSets /\ i \in Jobs
  BY ZSetDomain DEF StoreInv, Store
<1>2. ASSUME NEW j \in Jobs \ {i}
      PROVE  e.hash[j] = d.hash[j] /\ (Lapses(e, j) => Lapses(d, j))
  <2>1. e.hash[j] = d.hash[j]
    OBVIOUS
  <2>2. ASSUME Lapses(e, j)
        PROVE  Lapses(d, j)
    <3>1. j \in DOMAIN d.active \ {i}
      BY <1>2, <2>1, <2>2, OneJob DEF Lapses, JobInv
    <3>2. Drop(d.active, {i})[j] = d.active[j]
      BY <3>1 DEF Drop
    <3> QED BY <2>1, <2>2, <3>2 DEF Lapses
  <2> QED BY <2>1, <2>2
<1>3. e.hash[i] = x
  BY <1>1
<1> QED BY <1>2, <1>3 DEF Ended, At, EndOf

\* A trim deletes jobs that were over, and touches no other.
TrimOf(d, e) ==
  /\ e.paused = d.paused /\ e.active = d.active
  /\ \A j \in Jobs : e.hash[j] = d.hash[j] \/ e.hash[j] = NoHash

\* Trimming the finished jobs deletes finished jobs only.
LEMMA TrimMoves ==
  ASSUME NEW d, StoreInv(d), NEW T, NEW c, NEW e,
         e \in {[Deleted(d, T) EXCEPT !.completed = c], [Deleted(d, T) EXCEPT !.failed = c]}
  PROVE  TrimOf(d, e)
<1> DEFINE h == [j \in Jobs |-> IF j \in T THEN NoHash ELSE d.hash[j]]
<1>1. d \in Store
  BY DEF StoreInv
<1>2. \A j \in Jobs : h[j] = d.hash[j] \/ h[j] = NoHash
  OBVIOUS
<1>3. Deleted(d, T) = [d EXCEPT !.hash = h]
  BY DEF Deleted
<1> HIDE DEF h
<1> QED BY <1>1, <1>2, <1>3 DEF TrimOf, Store

\* What ended, then was trimmed, is settled.
LEMMA TrimSettles ==
  ASSUME NEW d, StoreInv(d), NEW i \in DOMAIN d.active, NEW f, Ended(d, f, i),
         NEW e, TrimOf(f, e)
  PROVE  Settled(d, e, {i})
<1>1. i \in Jobs /\ d.hash[i].state = "active"
  <2>1. i \in Jobs
    BY ZSetDomain DEF StoreInv, Store
  <2> QED BY <2>1, OneJob DEF JobInv
<1>2. ASSUME NEW j \in Jobs
      PROVE  SettleMove(d, e, {i}, j)
  <2>1. e.hash[j] = f.hash[j] \/ e.hash[j] = NoHash
    BY DEF TrimOf
  <2>2. CASE j = i
    BY <1>1, <2>1, <2>2 DEF SettleMove, Ended, At
  <2>3. CASE j # i
    BY <2>1, <2>3 DEF SettleMove, Ended, TrimOf, Lapses
  <2> QED BY <2>2, <2>3
<1> QED BY <1>2 DEF Settled, Ended, TrimOf

\* COMPLETE ends its job and lets jobs go that are no longer retained.
LEMMA CompleteMoves ==
  ASSUME NEW d, StoreInv(d), NEW i \in Jobs, d.hash[i].token # None,
         NEW e \in Complete(d, i)
  PROVE  Settled(d, e, {i})
<1> DEFINE freed == [d EXCEPT !.active = Drop(d.active, {i})]
           gone  == Deleted(freed, {i})
           kept  == [Moved(freed, {i}, "completed") EXCEPT !.completed = Put(@, {i}, 0)]
           a == Drop(d.active, {i})
           x == [d.hash[i] EXCEPT !.state = "completed", !.token = None]
           hg == [j \in Jobs |-> IF j \in {i} THEN NoHash ELSE d.hash[j]]
           hk == [j \in Jobs |-> IF j \in {i} THEN [d.hash[j] EXCEPT !.state = "completed", !.token = None]
                                 ELSE d.hash[j]]
           c == Put(d.completed, {i}, 0)
<1>1. i \in DOMAIN d.active /\ d \in Store /\ d.hash[i] \in Hash
  BY OneJob DEF JobInv, StoreInv
<1>2. StoreInv(gone) /\ StoreInv(kept)
  BY <1>1, DoneKeeps, CompletedKeeps DEF Keeps
<1>3. gone.hash = hg /\ gone.paused = d.paused /\ gone.active = a
  <2>1. gone = [[d EXCEPT !.active = a] EXCEPT !.hash = hg]
    BY <1>1 DEF Deleted, Store
  <2> HIDE DEF gone, a, hg
  <2> QED BY <1>1, <2>1 DEF Store
<1>4. kept.hash = hk /\ kept.paused = d.paused /\ kept.active = a
  <2>1. kept = [[[d EXCEPT !.active = a] EXCEPT !.hash = hk] EXCEPT !.completed = c]
    BY <1>1 DEF Moved, Store
  <2> HIDE DEF kept, a, hk, c
  <2> QED BY <1>1, <2>1 DEF Store
<1>5. hk = [j \in Jobs |-> IF j \in {i} THEN x ELSE d.hash[j]]
  OBVIOUS
<1>6. EndOf(d, i, x) /\ EndOf(d, i, NoHash)
  BY <1>1 DEF Hash, EndOf
<1>7. \E f \in {gone, kept} : \E age, count : e \in TrimCompleted(f, age, count)
  <2>1. [d EXCEPT !.active = Drop(@, {i})] = freed
    BY DEF StoreInv, Store
  <2> HIDE DEF a, x, hg, hk, c
  <2> QED BY <2>1, Zenon DEF Complete
<1> HIDE DEF freed, gone, kept, a, x, hk
<1>8. Ended(d, gone, i)
  BY <1>1, <1>2, <1>3, <1>6, EndsAs DEF a
<1>9. Ended(d, kept, i)
  <2>1. kept.hash = [j \in Jobs |-> IF j \in {i} THEN x ELSE d.hash[j]]
    BY <1>4, <1>5
  <2>2. kept.active = Drop(d.active, {i}) /\ kept.paused = d.paused
    BY <1>4 DEF a
  <2> QED BY <1>1, <1>2, <1>6, <2>1, <2>2, EndsAs
<1>10. PICK f \in {gone, kept} : \E T, c1 : e = [Deleted(f, T) EXCEPT !.completed = c1]
  <2>1. PICK f \in {gone, kept} : \E T \in SUBSET DOMAIN f.completed :
          e = [Deleted(f, T) EXCEPT !.completed = Drop(@, T)]
    BY <1>7, TrimSetsIn DEF TrimCompleted
  <2> QED BY <2>1
<1>11. Ended(d, f, i) /\ StoreInv(f)
  BY <1>8, <1>9 DEF Ended
<1>12. TrimOf(f, e)
  <2>1. PICK T, c1 : e = [Deleted(f, T) EXCEPT !.completed = c1]
    BY <1>10
  <2> QED BY <1>11, <2>1, TrimMoves
<1>13. i \in DOMAIN d.active
  BY <1>1
<1> QED BY <1>11, <1>12, <1>13, TrimSettles

\* FAIL ends its job or delays it for a retry, and lets jobs go that are no
\* longer retained.
LEMMA FailMoves ==
  ASSUME NEW d, StoreInv(d), NEW i \in Jobs, d.hash[i].token # None,
         NEW retryIn \in Nat \cup {-1}, NEW e \in Fail(d, i, retryIn)
  PROVE  Settled(d, e, {i})
<1> DEFINE freed == [d EXCEPT !.active = Drop(d.active, {i})]
           later == [Moved(freed, {i}, "delayed") EXCEPT !.delayed = Put(@, {i}, retryIn)]
           over  == [Moved(freed, {i}, "failed") EXCEPT !.failed = Put(@, {i}, 0)]
           a == Drop(d.active, {i})
           xl == [d.hash[i] EXCEPT !.state = "delayed", !.token = None]
           xo == [d.hash[i] EXCEPT !.state = "failed", !.token = None]
           hl == [j \in Jobs |-> IF j \in {i} THEN [d.hash[j] EXCEPT !.state = "delayed", !.token = None]
                                 ELSE d.hash[j]]
           ho == [j \in Jobs |-> IF j \in {i} THEN [d.hash[j] EXCEPT !.state = "failed", !.token = None]
                                 ELSE d.hash[j]]
           cl == Put(d.delayed, {i}, retryIn)
           co == Put(d.failed, {i}, 0)
<1>1. i \in DOMAIN d.active /\ d \in Store /\ d.hash[i] \in Hash
  BY OneJob DEF JobInv, StoreInv
<1>2. [d EXCEPT !.active = Drop(@, {i})] = freed
  BY DEF StoreInv, Store
<1>3. CASE Retries(d, i, retryIn)
  <2>1. e = later
    <3> HIDE DEF hl, ho, xl, xo, a, cl, co
    <3> QED BY <1>2, <1>3, Zenon DEF Fail
  <2>2. retryIn \in Nat /\ d.hash[i].attempt < Attempts
    BY <1>3 DEF Retries
  <2>3. StoreInv(later)
    BY <1>1, <2>2, RetryKeeps DEF Keeps
  <2>4. later.hash = hl /\ later.paused = d.paused /\ later.active = a
    <3>1. later = [[[d EXCEPT !.active = a] EXCEPT !.hash = hl] EXCEPT !.delayed = cl]
      BY <1>1 DEF Moved, Store
    <3> HIDE DEF later, a, hl, cl
    <3> QED BY <1>1, <3>1 DEF Store
  <2>5. EndOf(d, i, xl)
    BY <1>1, <2>2 DEF Hash, EndOf
  <2>6. hl = [j \in Jobs |-> IF j \in {i} THEN xl ELSE d.hash[j]]
    OBVIOUS
  <2> HIDE DEF later, xl, hl
  <2>7. later.hash = [j \in Jobs |-> IF j \in {i} THEN xl ELSE d.hash[j]]
    BY <2>4, <2>6
  <2>8. Ended(d, later, i)
    BY <1>1, <2>3, <2>4, <2>5, <2>7, EndsAs
  <2>9. TrimOf(later, later) /\ i \in DOMAIN d.active
    BY <1>1 DEF TrimOf
  <2> QED BY <2>1, <2>8, <2>9, TrimSettles
<1>4. CASE ~Retries(d, i, retryIn)
  <2>1. e \in TrimFailed(over)
    <3> HIDE DEF hl, ho, xl, xo, a, cl, co
    <3> QED BY <1>2, <1>4, Zenon DEF Fail
  <2>2. StoreInv(over)
    BY <1>1, FailedKeeps DEF Keeps
  <2>3. over.hash = ho /\ over.paused = d.paused /\ over.active = a
    <3>1. over = [[[d EXCEPT !.active = a] EXCEPT !.hash = ho] EXCEPT !.failed = co]
      BY <1>1 DEF Moved, Store
    <3> HIDE DEF over, a, ho, co
    <3> QED BY <1>1, <3>1 DEF Store
  <2>4. EndOf(d, i, xo)
    BY <1>1 DEF Hash, EndOf
  <2>5. ho = [j \in Jobs |-> IF j \in {i} THEN xo ELSE d.hash[j]]
    OBVIOUS
  <2> HIDE DEF over, xo, ho
  <2>6. over.hash = [j \in Jobs |-> IF j \in {i} THEN xo ELSE d.hash[j]]
    BY <2>3, <2>5
  <2>7. Ended(d, over, i)
    BY <1>1, <2>2, <2>3, <2>4, <2>6, EndsAs
  <2>8. PICK T, c1 : e = [Deleted(over, T) EXCEPT !.failed = c1]
    <3>1. PICK T \in SUBSET DOMAIN over.failed :
            e = [Deleted(over, T) EXCEPT !.failed = Drop(@, T)]
      BY <2>1, TrimSetsIn DEF TrimFailed
    <3> QED BY <3>1
  <2>9. TrimOf(over, e) /\ i \in DOMAIN d.active
    BY <1>1, <2>2, <2>8, TrimMoves
  <2> QED BY <2>7, <2>9, TrimSettles
<1> QED BY <1>3, <1>4

(***************************************************************************)
(* The life of a job                                                       *)
(***************************************************************************)

\* What a step of the queue may make of a job: the moves of JobLifecycle.
Lives(d, e, j) ==
  LET st == d.hash[j].state
      n  == d.hash[j].attempt
  IN  \/ st = "none" /\ (At(e, j, "waiting", 0) \/ At(e, j, "delayed", 0))
      \/ /\ st \in {"waiting", "delayed"}
         /\ \/ At(e, j, "waiting", n)
            \/ ~d.paused /\ n < Attempts /\ At(e, j, "active", n + 1)
      \/ st = "active" /\ At(e, j, "completed", n)
      \/ /\ st = "active" /\ n < Attempts
         /\ \/ At(e, j, "waiting", n) \/ At(e, j, "delayed", n)
            \/ ~d.paused /\ At(e, j, "active", n + 1)
      \/ st = "active" /\ At(e, j, "failed", n)
      \/ st = "active" /\ n > 0 /\ At(e, j, "waiting", n - 1)
      \/ st = "failed" /\ At(e, j, "waiting", 0)
      \/ st # "none" /\ At(e, j, "none", 0)
      \/ At(e, j, st, n)

\* Nobody took the job from the run that holds it: it is gone, or its lease lapsed.
Untaken(d, e, j) ==
  d.hash[j].token # None /\ e.hash[j].token # d.hash[j].token =>
    e.hash[j].state = "none" \/ d.active[j] < 0

\* A script that leaves a job as it is, or deletes it.
LEMMA SameOrGone ==
  ASSUME NEW d, StoreInv(d), NEW e, NEW j \in Jobs, e.hash[j] \in {d.hash[j], NoHash}
  PROVE  Lives(d, e, j) /\ Untaken(d, e, j)
<1>1. JobInv(d, j)
  BY OneJob
<1> QED BY <1>1 DEF Lives, Untaken, At, NoHash, JobInv

\* A claim after a settle: each job lives on, and only the settled one may
\* leave its run while its lease holds.
LEMMA SettleThenClaim ==
  ASSUME NEW d, StoreInv(d), NEW e, StoreInv(e), NEW S, Settled(d, e, S),
         NEW f, NEW j \in Jobs, ClaimMove(e, f, j)
  PROVE  Lives(d, f, j) /\ (j \notin S => Untaken(d, f, j))
<1>1. JobInv(d, j) /\ JobInv(e, j) /\ SettleMove(d, e, S, j) /\ e.paused = d.paused
  BY OneJob DEF Settled
<1>2. CASE e.hash[j] = NoHash
  <2>1. f.hash[j] = NoHash
    BY <1>2 DEF ClaimMove, Lapses, NoHash
  <2> QED BY <2>1, SameOrGone
<1>3. CASE e.hash[j] # NoHash /\ j \in S
  BY <1>1, <1>3 DEF SettleMove, ClaimMove, Lives, At, Lapses
<1>4. CASE e.hash[j] # NoHash /\ j \notin S
  <2>1. e.hash[j] = d.hash[j] /\ (Lapses(e, j) => Lapses(d, j))
    BY <1>1, <1>4 DEF SettleMove
  <2>2. Lives(d, f, j)
    BY <1>1, <2>1 DEF ClaimMove, Lives, At, Lapses
  <2>3. Untaken(d, f, j)
    BY <1>1, <2>1 DEF ClaimMove, Untaken, At, Lapses, JobInv
  <2> QED BY <2>2, <2>3
<1> QED BY <1>2, <1>3, <1>4

\* RELEASE gives the attempts of its jobs back.
LEMMA ReleaseMoves ==
  ASSUME NEW d, StoreInv(d), NEW S \in SUBSET DOMAIN d.active, NEW ord, NEW j \in Jobs
  PROVE  /\ Lives(d, Release(d, S, ord), j)
         /\ j \notin S => Untaken(d, Release(d, S, ord), j)
<1> DEFINE h == [i \in Jobs |->
                  IF i \in S THEN [state |-> "waiting", token |-> None,
                                   attempt |-> d.hash[i].attempt - 1]
                  ELSE d.hash[i]]
           a == Drop(d.active, S)
           e == Release(d, S, ord)
<1>1. d \in Store
  BY DEF StoreInv
<1>2. e.hash = h
  <2>1. e \in {ReadyAdd([d EXCEPT !.hash = h, !.active = a], S, ord),
               WakeUnlessPaused(ReadyAdd([d EXCEPT !.hash = h, !.active = a], S, ord))}
    BY <1>1 DEF Release, Store
  <2> HIDE DEF h, a, e
  <2> QED BY <1>1, <2>1 DEF ReadyAdd, WakeUnlessPaused, Wake, Store
<1> HIDE DEF e
<1>3. CASE j \in S
  <2>1. d.hash[j].state = "active" /\ d.hash[j].attempt >= 1 /\ d.hash[j] \in Hash
    BY <1>3, OneJob DEF JobInv
  <2>2. At(e, j, "waiting", d.hash[j].attempt - 1)
    BY <1>2, <1>3 DEF At
  <2>3. d.hash[j].attempt > 0
    BY <2>1 DEF Hash
  <2>4. Lives(d, e, j)
    BY <2>1, <2>2, <2>3 DEF Lives
  <2> QED BY <1>3, <2>4 DEF e
<1>4. CASE j \notin S
  <2>1. e.hash[j] = d.hash[j]
    BY <1>2, <1>4
  <2>2. Lives(d, e, j) /\ Untaken(d, e, j)
    BY <2>1, SameOrGone
  <2> QED BY <2>2 DEF e
<1> QED BY <1>3, <1>4

\* A script that changes one job only.
OneChange(d, e, i) == \A j \in Jobs \ {i} : e.hash[j] = d.hash[j]

\* A script that changes the hash of one job makes that move of it, or none.
LEMMA ChangeLives ==
  ASSUME NEW d, StoreInv(d), NEW e, NEW i \in Jobs, OneChange(d, e, i),
         Lives(d, e, i), Untaken(d, e, i), NEW j \in Jobs
  PROVE  Lives(d, e, j) /\ Untaken(d, e, j)
<1>1. CASE j = i
  BY <1>1
<1>2. CASE j # i
  BY <1>2, SameOrGone DEF OneChange
<1> QED BY <1>1, <1>2

\* The scripts of the queue's clients: a job is added, canceled, removed or
\* retried, and no other is touched.
LEMMA AddMoves ==
  ASSUME NEW d, StoreInv(d), NEW i \in Jobs, NEW delay \in Nat, NEW j \in Jobs
  PROVE  Lives(d, AddJob(d, i, delay), j) /\ Untaken(d, AddJob(d, i, delay), j)
<1> DEFINE x(st) == [NoHash EXCEPT !.state = st]
           h(st) == [d.hash EXCEPT ![i] = x(st)]
           e == AddJob(d, i, delay)
           z == Put(d.delayed, {i}, delay)
<1>1. d \in Store /\ d.hash \in [Jobs -> Hash]
  BY DEF StoreInv, Store
<1>2. CASE d.hash[i].state # "none"
  <2>1. e = d
    BY <1>2 DEF AddJob
  <2> QED BY <2>1, SameOrGone
<1>3. CASE d.hash[i].state = "none"
  <2>1. PICK st \in {"waiting", "delayed"} : e.hash = h(st)
    <3>1. CASE delay = 0
      <4>1. e = WakeUnlessPaused(ReadyAdd([d EXCEPT !.hash = h("waiting")], {i}, {}))
        BY <1>1, <1>3, <3>1 DEF AddJob, Store
      <4> HIDE DEF e, h
      <4>2. e.hash = h("waiting")
        BY <1>1, <4>1 DEF ReadyAdd, WakeUnlessPaused, Wake, Store
      <4> QED BY <4>2
    <3>2. CASE delay # 0
      <4> DEFINE m == [d EXCEPT !.hash = h("delayed")]
      <4>1. e \in {[WakeUnlessPaused(m) EXCEPT !.delayed = z], [m EXCEPT !.delayed = z]}
        BY <1>1, <1>3, <3>2 DEF AddJob, Store
      <4> HIDE DEF e, h, z
      <4>2. e.hash = h("delayed")
        BY <1>1, <4>1 DEF WakeUnlessPaused, Wake, Store
      <4> QED BY <4>2
    <3> QED BY <3>1, <3>2
  <2> HIDE DEF e
  <2>2. e.hash[i] = x(st)
    BY <1>1, <2>1
  <2>3. At(e, i, st, 0)
    BY <2>2 DEF At, NoHash
  <2>4. OneChange(d, e, i)
    BY <1>1, <2>1 DEF OneChange
  <2>5. Lives(d, e, i) /\ Untaken(d, e, i)
    BY <1>3, <2>3, OneJob DEF Lives, Untaken, JobInv
  <2>6. Lives(d, e, j) /\ Untaken(d, e, j)
    BY <2>4, <2>5, ChangeLives
  <2> QED BY <2>6 DEF e
<1> QED BY <1>2, <1>3

\* Deletion of a job that is not active ends its life.
LEMMA GoneMoves ==
  ASSUME NEW d, StoreInv(d), NEW i \in Jobs, NEW e, e.hash = Deleted(d, {i}).hash, NEW j \in Jobs
  PROVE  Lives(d, e, j) /\ Untaken(d, e, j)
<1>1. e.hash[j] \in {d.hash[j], NoHash}
  BY DEF Deleted, StoreInv, Store
<1> QED BY <1>1, SameOrGone

\* The cancel script.
LEMMA CancelMoves ==
  ASSUME NEW d, StoreInv(d), NEW i \in Jobs, Cancelable(d, i), NEW j \in Jobs
  PROVE  Lives(d, Cancel(d, i), j) /\ Untaken(d, Cancel(d, i), j)
<1>1. d \in Store
  BY DEF StoreInv
<1>2. Cancel(d, i).hash = Deleted(d, {i}).hash
  <2> DEFINE z == Drop(d.delayed, {i})
             a == Drop(d.active, {i})
  <2>1. Cancel(d, i) \in {Deleted(ReadyRem(d, {i}), {i}), Deleted([d EXCEPT !.delayed = z], {i}),
                          Deleted([d EXCEPT !.active = a], {i})}
    BY <1>1 DEF Cancelable, Cancel, Store
  <2> HIDE DEF z, a
  <2> QED BY <1>1, <2>1 DEF Deleted, ReadyRem, Store
<1> QED BY <1>2, GoneMoves

\* The REMOVE script.
LEMMA RemoveMoves ==
  ASSUME NEW d, StoreInv(d), NEW i \in Jobs, NEW j \in Jobs
  PROVE  Lives(d, Remove(d, i), j) /\ Untaken(d, Remove(d, i), j)
<1>1. d \in Store
  BY DEF StoreInv
<1>2. Remove(d, i).hash = Deleted(d, {i}).hash
  <2> DEFINE z == Drop(d.delayed, {i})
             a == Drop(d.active, {i})
             c == Drop(d.completed, {i})
             f == Drop(d.failed, {i})
  <2>1. Remove(d, i) = Deleted([ReadyRem(d, {i}) EXCEPT !.delayed = z, !.active = a,
                                 !.completed = c, !.failed = f], {i})
    BY <1>1 DEF Remove, ReadyRem, Store
  <2> HIDE DEF z, a, c, f
  <2> QED BY <1>1, <2>1 DEF Deleted, ReadyRem, Store
<1> QED BY <1>2, GoneMoves

\* The RETRY script.
LEMMA RetryMoves ==
  ASSUME NEW d, StoreInv(d), NEW i \in Jobs, Retryable(d, i), NEW j \in Jobs
  PROVE  Lives(d, Retry(d, i), j) /\ Untaken(d, Retry(d, i), j)
<1> DEFINE x == [NoHash EXCEPT !.state = "waiting"]
           h == [d.hash EXCEPT ![i] = x]
           f == Drop(d.failed, {i})
           e == Retry(d, i)
<1>1. d \in Store /\ d.hash \in [Jobs -> Hash]
  BY DEF StoreInv, Store
<1>2. e.hash = h
  <2>1. e = WakeUnlessPaused(ReadyAdd([d EXCEPT !.hash = h, !.failed = f], {i}, {}))
    BY <1>1 DEF Retry, Store
  <2> HIDE DEF h, f, e
  <2> QED BY <1>1, <2>1 DEF ReadyAdd, WakeUnlessPaused, Wake, Store
<1> HIDE DEF e
<1>3. e.hash[i] = x /\ OneChange(d, e, i)
  BY <1>1, <1>2 DEF OneChange
<1>4. At(e, i, "waiting", 0)
  BY <1>3 DEF At, NoHash
<1>5. Lives(d, e, i) /\ Untaken(d, e, i)
  BY <1>4, OneJob DEF Lives, Untaken, Retryable, JobInv
<1>6. Lives(d, e, j) /\ Untaken(d, e, j)
  BY <1>3, <1>5, ChangeLives
<1> QED BY <1>6 DEF e

\* RENEW, the pauses, the wake token and the clock change no hash.
LEMMA SameHash ==
  ASSUME NEW d, StoreInv(d), NEW S
  PROVE  /\ Renewed(d, S).hash = d.hash /\ PassTime(d).hash = d.hash
         /\ Pause(d).hash = d.hash /\ Resume(d).hash = d.hash
         /\ [d EXCEPT !.wake = 0].hash = d.hash
<1>1. d \in Store
  BY DEF StoreInv
<1>2. Renewed(d, S).hash = d.hash
  <2> DEFINE a == [j \in DOMAIN d.active |-> IF j \in S THEN Lease ELSE d.active[j]]
  <2>1. Renewed(d, S) = [d EXCEPT !.active = a]
    BY <1>1 DEF Renewed, Store
  <2> HIDE DEF a
  <2> QED BY <1>1, <2>1 DEF Store
<1>3. PassTime(d).hash = d.hash
  <2> DEFINE z == [j \in DOMAIN d.delayed |-> Max2(0, d.delayed[j] - 1)]
             a == [j \in DOMAIN d.active |-> Max2(-1, d.active[j] - 1)]
             c == [j \in DOMAIN d.completed |-> Min2(Max2(KeepAge, 0) + 1, d.completed[j] + 1)]
             f == [j \in DOMAIN d.failed |-> Min2(KeepFailed + 1, d.failed[j] + 1)]
  <2>1. PassTime(d) = [d EXCEPT !.delayed = z, !.active = a, !.completed = c, !.failed = f]
    BY <1>1 DEF PassTime, Store
  <2> HIDE DEF z, a, c, f
  <2> QED BY <1>1, <2>1 DEF Store
<1>4. Pause(d).hash = d.hash /\ Resume(d).hash = d.hash /\ [d EXCEPT !.wake = 0].hash = d.hash
  BY <1>1 DEF Pause, Resume, Wake, Store
<1> QED BY <1>2, <1>3, <1>4

=============================================================================
