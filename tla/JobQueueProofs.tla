--------------------------- MODULE JobQueueProofs ---------------------------
(***************************************************************************)
(* A queue and its workers keep the store consistent, and the runs in step *)
(* with it, for any number of jobs, workers, attempts and slots: whatever  *)
(* the interleaving of scripts, crashes, lost replies and closes, a job is *)
(* in the one set its hash names, and a token fences the job of its run.   *)
(* On that rest the others: each step moves every job along the life of    *)
(* JobLifecycle and takes it from no run whose lease holds, and a worker's *)
(* runs never outnumber its slots.  And what add promises of debounces and *)
(* throttles is kept, whatever the jobs do meanwhile.                      *)
(***************************************************************************)
EXTENDS JobQueue, JobStoreProofs, QueueAdds, WellFoundedInduction

RunsOK(r) ==
  IsFiniteSet(DOMAIN r) /\ DOMAIN r \subseteq Tokens /\ \A t \in DOMAIN r : r[t] \in Run

\* A job held under the token of a run is that run's job.
RunsFenced(d, r) ==
  \A j \in Jobs : d.hash[j].token \in DOMAIN r => r[d.hash[j].token].job = j

\* The inductive invariant, of a store, workers and runs ...
Consistent(d, w, r) ==
  /\ StoreInv(d)
  /\ w \in [Workers -> Worker]
  /\ RunsOK(r)
  /\ RunsFenced(d, r)

\* ... and of the system.
IInv == Consistent(db, worker, run)

\* It says what the runs check of the store and of the runs in step with it.
LEMMA Implied ==
  IInv => JobsInPlace /\ TokenIsFence /\ AttemptBudget
BY DEF IInv, Consistent, StoreInv, RunsFenced, JobsInPlace, TokenIsFence, AttemptBudget

(***************************************************************************)
(* Runs                                                                    *)
(***************************************************************************)

\* No run begins and none changes its job.
SameJobs(r, s) == DOMAIN s \subseteq DOMAIN r /\ \A t \in DOMAIN s : s[t].job = r[t].job

\* A step that gives out no token.
LEMMA NoNewToken ==
  ASSUME NEW d, NEW w, NEW r, Consistent(d, w, r),
         NEW e, Keeps(d, e), NEW v \in [Workers -> Worker],
         NEW s, RunsOK(s), SameJobs(r, s)
  PROVE  Consistent(e, v, s)
<1>1. None \notin DOMAIN s
  BY StoreAssumption DEF RunsOK
<1>2. RunsFenced(e, s)
  BY <1>1 DEF Consistent, Keeps, RunsFenced, SameJobs
<1> QED BY <1>2 DEF Consistent, Keeps

\* The wait a claim leaves its worker with is within the cap.
LEMMA WaitForIn ==
  ASSUME NEW d, StoreInv(d)
  PROVE  WaitFor(d) \in 0 .. MaxWait
<1> DEFINE times == { d.delayed[j] : j \in DOMAIN d.delayed }
           t == NextWait(d, MaxWait)
<1>1. MaxWait \in Nat /\ MaxWait > 0
  BY QueueAssumption
<1>2. d.delayed \in ZSets
  BY DEF StoreInv, Store
<1>3. times \in SUBSET Nat
  <2>1. d.delayed \in [DOMAIN d.delayed -> Int]
    BY <1>2, ZSetDomain
  <2> QED BY <2>1 DEF StoreInv, TimesInRange
<1>4. t \in Int
  <2>1. CASE d.paused
    BY <1>1, <2>1 DEF NextWait
  <2>2. CASE ~d.paused /\ DOMAIN d.delayed = {}
    BY <2>2 DEF NextWait
  <2>3. CASE ~d.paused /\ DOMAIN d.delayed # {}
    <3>1. times # {}
      BY <2>3
    <3> DEFINE less == { p \in Nat \X Nat : p[1] < p[2] }
    <3>wf. IsWellFoundedOn(less, Nat)
      BY NatLessThanWellFounded DEF OpToRel
    <3>2. PICK x \in times : \A y \in times : ~(<<y, x>> \in less)
      <4> HIDE DEF less, times
      <4> QED BY <1>3, <3>1, <3>wf, WFMin
    <3>3. \A j \in DOMAIN d.delayed : x <= d.delayed[j]
      <4>1. ASSUME NEW y \in times
            PROVE  x <= y
        <5>1. x \in Nat /\ y \in Nat /\ <<y, x>> \notin less
          <6> HIDE DEF times, less
          <6> QED BY <1>3, <3>2
        <5>2. ~(y < x)
          BY <5>1
        <5> QED BY <5>1, <5>2
      <4> HIDE DEF less
      <4> QED BY <4>1
    <3>4. \E y \in times : \A j \in DOMAIN d.delayed : y <= d.delayed[j]
      BY <3>3
    <3>5. t = CHOOSE y \in times : \A j \in DOMAIN d.delayed : y <= d.delayed[j]
      BY <2>3, Zenon DEF NextWait
    <3> HIDE DEF times, t
    <3>6. t \in times
      BY <3>4, <3>5, Zenon
    <3> QED BY <1>3, <3>6
  <2> QED BY <2>1, <2>2, <2>3
<1> HIDE DEF t
<1>5. WaitFor(d) = IF t <= 0 THEN MaxWait ELSE Min2(t, MaxWait)
  BY DEF WaitFor, t
<1> QED BY <1>1, <1>4, <1>5 DEF Min2

\* Each job of tok has its run in s, and the others of s were there.
Begun(s, tok) ==
  /\ \A j \in DOMAIN tok : tok[j] \in DOMAIN s /\ s[tok[j]].job = j
  /\ \A t \in DOMAIN s : (\A j \in DOMAIN tok : tok[j] # t)
       => t \in DOMAIN run /\ s[t].job = run[t].job

\* The runs after a claim: those of T are gone, and the jobs it began have one.
LEMMA ReplacedRuns ==
  ASSUME RunsOK(run), NEW T, NEW w \in Workers,
         NEW p \in {"offered", "next"},
         NEW tok, DOMAIN tok \in SUBSET Jobs, tok \in [DOMAIN tok -> Fresh],
         \A a, b \in DOMAIN tok : tok[a] = tok[b] => a = b,
         NEW after, after = Replaced(T, w, tok, p)
  PROVE  RunsOK(after) /\ Begun(after, tok)
<1> DEFINE starting == { tok[j] : j \in DOMAIN tok }
           new(t) == [ job |-> CHOOSE j \in DOMAIN tok : tok[j] = t, worker |-> w, phase |-> p,
                       leased |-> FALSE, next |-> FALSE ]
           s == [t \in (DOMAIN run \ T) \cup starting |-> IF t \in starting THEN new(t) ELSE run[t]]
<1>1. Replaced(T, w, tok, p) = s
  BY DEF Replaced
<1>2. \A j \in DOMAIN tok : (CHOOSE i \in DOMAIN tok : tok[i] = tok[j]) = j
  OBVIOUS
<1>3. starting \subseteq Tokens
  BY DEF Fresh
<1>4. \A j \in DOMAIN tok : new(tok[j]).job = j /\ new(tok[j]) \in Run
  BY <1>2 DEF Run
<1> HIDE DEF new
<1>5. \A t \in starting : new(t) \in Run
  BY <1>4
<1>6. RunsOK(s)
  <2>1. IsFiniteSet(starting)
    <3> DEFINE f == [j \in DOMAIN tok |-> tok[j]]
    <3>1. IsFiniteSet(DOMAIN tok) /\ f \in Surjection(DOMAIN tok, starting)
      BY StoreAssumption, FS_Subset DEF Surjection
    <3> QED BY <3>1, FS_Surjection
  <2>2. IsFiniteSet(DOMAIN run \ T)
    BY FS_Subset DEF RunsOK
  <2>3. IsFiniteSet((DOMAIN run \ T) \cup starting)
    BY <2>1, <2>2, FS_Union
  <2>4. DOMAIN s = (DOMAIN run \ T) \cup starting
    OBVIOUS
  <2>5. (DOMAIN run \ T) \cup starting \subseteq Tokens
    BY <1>3 DEF RunsOK
  <2>6. \A t \in DOMAIN s : s[t] \in Run
    BY <1>5 DEF RunsOK
  <2> QED BY <2>3, <2>4, <2>5, <2>6 DEF RunsOK
<1>7. \A j \in DOMAIN tok : tok[j] \in DOMAIN s /\ s[tok[j]].job = j
  BY <1>4
<1>8. \A t \in DOMAIN s : (\A j \in DOMAIN tok : tok[j] # t)
        => t \in DOMAIN run /\ s[t].job = run[t].job
  OBVIOUS
<1> QED BY <1>1, <1>6, <1>7, <1>8 DEF Begun

\* The same of runs that only end.
LEMMA WithoutRuns ==
  ASSUME NEW T, RunsOK(run)
  PROVE  RunsOK(Without(T)) /\ SameJobs(run, Without(T))
<1>1. Without(T) = [t \in DOMAIN run \ T |-> run[t]]
  <2>1. { <<>>[j] : j \in DOMAIN <<>> } = {}
    OBVIOUS
  <2> QED BY <2>1 DEF Without, Replaced
<1>2. IsFiniteSet(DOMAIN run \ T)
  BY FS_Subset DEF RunsOK
<1> HIDE DEF Without
<1> QED BY <1>1, <1>2 DEF RunsOK, SameJobs

\* A claim, on its own or after the settle of the slot: the jobs it answers
\* are those of the runs it begins.
LEMMA ClaimConsistent ==
  ASSUME IInv, NEW d, Keeps(db, d), NEW n, NEW r \in Claims(d, n, Fresh),
         NEW e, StoreInv(e), e.hash = r.db.hash, NEW v \in [Workers -> Worker],
         NEW T, NEW w \in Workers, NEW p \in {"offered", "next"}
  PROVE  Consistent(e, v, Replaced(T, w, r.tok, p))
<1> DEFINE tok == r.tok
           s == Replaced(T, w, tok, p)
<1>1. Fresh \in SUBSET Tokens /\ \A j \in Jobs : db.hash[j].token \notin Fresh
  BY DEF Fresh
<1>2. StoreInv(d) /\ \A j \in Jobs : d.hash[j].token \notin Fresh
  BY <1>1, StoreAssumption DEF Keeps
<1>3. /\ DOMAIN tok \in SUBSET Jobs /\ tok \in [DOMAIN tok -> Fresh]
      /\ \A a, b \in DOMAIN tok : tok[a] = tok[b] => a = b
      /\ \A j \in DOMAIN tok : e.hash[j].token = tok[j]
      /\ \A j \in Jobs \ DOMAIN tok : e.hash[j].token \in {None, d.hash[j].token}
  BY <1>1, <1>2, ClaimsKeep
<1>4. RunsOK(run) /\ RunsFenced(db, run)
  BY DEF IInv, Consistent
<1> HIDE DEF tok, s
<1>5. RunsOK(s) /\ Begun(s, tok)
  <2>1. s = Replaced(T, w, tok, p)
    BY DEF s
  <2> QED BY <1>3, <1>4, <2>1, ReplacedRuns
<1>6. ASSUME NEW j \in Jobs, e.hash[j].token \in DOMAIN s
      PROVE  s[e.hash[j].token].job = j
  <2>1. CASE j \in DOMAIN tok
    BY <1>3, <1>5, <2>1 DEF Begun
  <2>2. CASE j \notin DOMAIN tok
    <3>1. e.hash[j].token # None
      BY <1>5, <1>6, StoreAssumption DEF RunsOK
    <3>2. e.hash[j].token = db.hash[j].token
      BY <1>3, <2>2, <3>1 DEF Keeps
    <3>3. \A i \in DOMAIN tok : tok[i] # e.hash[j].token
      BY <1>1, <1>3, <3>2
    <3> QED BY <1>4, <1>5, <1>6, <3>2, <3>3 DEF RunsFenced, Begun
  <2> QED BY <2>1, <2>2
<1>7. RunsFenced(e, s)
  BY <1>6 DEF RunsFenced
<1>8. Consistent(e, v, s)
  BY <1>5, <1>7 DEF Consistent
<1> QED BY <1>8 DEF s, tok

\* Handlers begin, and are cut off: the runs stay, with their jobs.
LEMMA StartedRuns ==
  ASSUME RunsOK(run), NEW T
  PROVE  RunsOK(Started(T)) /\ SameJobs(run, Started(T))
<1>1. DOMAIN Started(T) = DOMAIN run
  BY DEF Started
<1>2. ASSUME NEW t \in DOMAIN run
      PROVE  Started(T)[t] \in Run /\ Started(T)[t].job = run[t].job
  <2>1. run[t] \in Run
    BY DEF RunsOK
  <2>2. Started(T)[t] \in {[run[t] EXCEPT !.phase = "running", !.leased = TRUE],
                           [run[t] EXCEPT !.leased = FALSE], run[t]}
    BY DEF Started
  <2> QED BY <2>1, <2>2 DEF Run
<1> QED BY <1>1, <1>2 DEF RunsOK, SameJobs

\* Cutting runs off (abortRun) gives out no token and changes no run's job.
LEMMA AbortedRuns ==
  ASSUME RunsOK(run), worker \in [Workers -> Worker], NEW T
  PROVE  RunsOK(Aborted(T)) /\ SameJobs(run, Aborted(T))
<1> DEFINE cut(t) == [run[t] EXCEPT !.phase = IF @ = "running" THEN "aborted" ELSE @,
                                   !.next  = IF run[t].phase = "running"
                                             THEN worker[run[t].worker].open ELSE @,
                                   !.leased = @ /\ run[t].phase # "running"]
<1>1. ASSUME NEW t \in DOMAIN run
      PROVE  cut(t) \in Run /\ cut(t).job = run[t].job
  <2>1. run[t] \in Run
    BY DEF RunsOK
  <2>2. run[t].worker \in Workers /\ worker[run[t].worker].open \in BOOLEAN
    BY <2>1 DEF Run, Worker
  <2>3. CASE run[t].phase = "running"
    BY <2>1, <2>2, <2>3 DEF Run
  <2>4. CASE run[t].phase # "running"
    BY <2>1, <2>2, <2>4 DEF Run
  <2> QED BY <2>3, <2>4
<1>2. Aborted(T) = [t \in DOMAIN run |-> IF t \in T THEN cut(t) ELSE run[t]]
  BY Zenon DEF Aborted
<1> HIDE DEF cut
<1> QED BY <1>1, <1>2 DEF RunsOK, SameJobs

\* The last line of FAIL writes `wake' only.
LEMMA HeadWakeKeeps ==
  ASSUME NEW d, NEW j, NEW retryIn, NEW e, StoreInv(e)
  PROVE  Keeps(e, HeadWake(d, j, retryIn, e)) /\ HeadWake(d, j, retryIn, e).hash = e.hash
<1>1. HeadWake(d, j, retryIn, e) = Wake(e) \/ HeadWake(d, j, retryIn, e) = e
  BY DEF HeadWake
<1>2. Keeps(e, Wake(e)) /\ Keeps(e, e)
  BY WakeKeeps
<1>3. Wake(e).hash = e.hash
  BY DEF Wake, StoreInv, Store
<1> QED BY <1>1, <1>2, <1>3

\* The rest of a settle, with the claim it makes for its slot.
LEMMA SettleConsistent ==
  ASSUME IInv, NEW t \in DOMAIN run, NEW d, Keeps(db, d), NEW retryIn,
         SettleAs(t, d, retryIn), UNCHANGED worker
  PROVE  IInv'
<1>1. worker' \in [Workers -> Worker] /\ RunsOK(run)
  BY DEF IInv, Consistent
<1>2. CASE run[t].next
  <2>1. PICK r \in Claims(d, 1, Fresh) :
          /\ db' = HeadWake(db, run[t].job, retryIn, r.db)
          /\ run' = Replaced({t}, run[t].worker, r.tok, "next")
    BY <1>2 DEF SettleAs
  <2>2. StoreInv(r.db)
    <3>1. Fresh \in SUBSET Tokens /\ \A j \in Jobs : d.hash[j].token \notin Fresh
      BY StoreAssumption DEF Fresh, Keeps
    <3> QED BY <3>1, ClaimsKeep DEF Keeps
  <2>3. StoreInv(db') /\ db'.hash = r.db.hash
    BY <2>1, <2>2, HeadWakeKeeps DEF Keeps
  <2>4. run[t].worker \in Workers
    BY <1>1 DEF RunsOK, Run
  <2>5. Consistent(db', worker', Replaced({t}, run[t].worker, r.tok, "next"))
    BY <1>1, <2>3, <2>4, ClaimConsistent
  <2> QED BY <2>1, <2>5 DEF IInv
<1>3. CASE ~run[t].next
  <2>1. db' = HeadWake(db, run[t].job, retryIn, d) /\ run' = Without({t})
    BY <1>3 DEF SettleAs
  <2>2. Keeps(db, db')
    BY <2>1, HeadWakeKeeps, KeepsTrans DEF Keeps
  <2>3. RunsOK(run') /\ SameJobs(run, run')
    BY <1>1, <2>1, WithoutRuns
  <2>4. Consistent(db', worker', run')
    BY <1>1, <2>2, <2>3, NoNewToken DEF IInv
  <2> QED BY <2>4 DEF IInv
<1> QED BY <1>2, <1>3

\* A step that ends runs or changes their phase, and whose script gives out no token.
LEMMA StepConsistent ==
  ASSUME IInv, Keeps(db, db'), worker' \in [Workers -> Worker],
         RunsOK(run'), SameJobs(run, run')
  PROVE  IInv'
BY NoNewToken DEF IInv

\* What may be used of the state before a step.
LEMMA Before ==
  ASSUME IInv
  PROVE  /\ StoreInv(db) /\ Keeps(db, db)
         /\ worker \in [Workers -> Worker]
         /\ RunsOK(run) /\ SameJobs(run, run)
BY WakeKeeps DEF IInv, Consistent, SameJobs

\* The jobs given back are active under the tokens of their runs.
LEMMA GivenBack ==
  ASSUME IInv, NEW T \in SUBSET DOMAIN run, ReleaseRuns(T)
  PROVE  Keeps(db, db')
<1> DEFINE S == { run[t].job : t \in { s \in T : Holds(db, run[s].job, s) } }
<1>1. ASSUME NEW t \in T, Holds(db, run[t].job, t)
      PROVE  run[t].job \in DOMAIN db.active
  <2>1. t # None /\ run[t].job \in Jobs
    BY Before, StoreAssumption DEF RunsOK, Run
  <2> QED BY <1>1, <2>1, Before, OneJob DEF Holds, JobInv
<1>2. S \in SUBSET DOMAIN db.active
  BY <1>1
<1>3. PICK ord : db' = Release(db, S, ord)
  BY DEF ReleaseRuns
<1> HIDE DEF S
<1> QED BY <1>2, <1>3, Before, ReleaseKeeps

\* A worker with no slot counted, a new one, and one whose process died.
LEMMA NewWorkerIs ==
  /\ 0 \in 0 .. MaxWait /\ 0 \in 0 .. Concurrency
  /\ NewWorker \in Worker /\ [NewWorker EXCEPT !.open = FALSE, !.phase = "ended"] \in Worker
<1>1. 0 \in 0 .. MaxWait /\ 0 \in 0 .. Concurrency
  BY QueueAssumption
<1> QED BY <1>1 DEF NewWorker, Worker

(***************************************************************************)
(* One lemma per process: its steps keep the invariant                     *)
(***************************************************************************)

\* The steps of a worker's loop -- a claim, its reply, a wake-up -- keep the
\* invariant.
LEMMA LoopSteps ==
  ASSUME IInv, NEW w \in Workers, LoopNext(w)
  PROVE  IInv'
<1>1. CASE Claim(w)
  <2>1. PICK r \in Claims(db, worker[w].free, Fresh) :
          /\ db' = r.db
          /\ run' = Replaced({}, w, r.tok, "offered")
          /\ worker' = [worker EXCEPT ![w].phase = "reply", ![w].left = WaitFor(r.db),
                                      ![w].free = 0]
    BY <1>1 DEF Claim
  <2>2. StoreInv(r.db)
    <3>1. Fresh \in SUBSET Tokens /\ \A j \in Jobs : db.hash[j].token \notin Fresh
      BY DEF Fresh
    <3> QED BY <3>1, Before, ClaimsKeep
  <2>3. WaitFor(r.db) \in 0 .. MaxWait
    BY <2>2, WaitForIn
  <2>4. worker' \in [Workers -> Worker]
    <3> DEFINE c == [worker[w] EXCEPT !.phase = "reply", !.left = WaitFor(r.db), !.free = 0]
    <3>1. worker \in [Workers -> Worker] /\ worker[w] \in Worker
      BY Before
    <3>2. c \in Worker
      BY <2>3, <3>1, NewWorkerIs DEF Worker
    <3>3. worker' = [worker EXCEPT ![w] = c]
      BY <2>1, <3>1 DEF Worker
    <3> HIDE DEF c
    <3> QED BY <3>1, <3>2, <3>3
  <2>5. Consistent(r.db, worker', Replaced({}, w, r.tok, "offered"))
    BY <2>2, <2>4, Before, ClaimConsistent
  <2> QED BY <2>1, <2>5 DEF IInv
<1>2. CASE StartOffered(w)
  <2>1. PICK p \in {"wait", "claim"} : worker' = [worker EXCEPT ![w].phase = p]
    BY <1>2 DEF StartOffered
  <2>2. worker' \in [Workers -> Worker]
    BY <2>1, Before DEF Worker
  <2>3. RunsOK(run') /\ SameJobs(run, run')
    BY <1>2, Before, StartedRuns DEF StartOffered
  <2>4. Keeps(db, db')
    BY <1>2, Before DEF StartOffered
  <2> QED BY <2>2, <2>3, <2>4, StepConsistent
<1>3. CASE WakeUp(w)
  <2>1. worker' \in [Workers -> Worker]
    <3>1. 0 \in 0 .. MaxWait
      BY QueueAssumption
    <3> QED BY <1>3, <3>1, Before DEF WakeUp, Worker
  <2>2. Keeps(db, db')
    BY <1>3, Before, WakeKeeps DEF WakeUp
  <2>3. RunsOK(run') /\ SameJobs(run, run')
    BY <1>3, Before DEF WakeUp
  <2> QED BY <2>1, <2>2, <2>3, StepConsistent
<1>4. CASE WaitEnds(w)
  <2>1. worker' \in [Workers -> Worker]
    BY <1>4, Before DEF WaitEnds, Worker
  <2>2. Keeps(db, db') /\ RunsOK(run') /\ SameJobs(run, run')
    BY <1>4, Before DEF WaitEnds
  <2> QED BY <2>1, <2>2, StepConsistent
<1>5. CASE CountFree(w)
  <2>1. Free(w) \in 0 .. Concurrency
    <3>1. IsFiniteSet(Slots(w))
      BY Before, FS_Subset DEF RunsOK, Slots, RunsOf
    <3>2. Cardinality(Slots(w)) \in Nat /\ Concurrency \in Nat
      BY <3>1, FS_CardinalityType, QueueAssumption
    <3> QED BY <1>5, <3>2 DEF CountFree, Free
  <2>2. worker' \in [Workers -> Worker]
    <3> DEFINE n == Free(w)
    <3>1. worker' = [worker EXCEPT ![w].phase = "sent", ![w].free = n]
      BY <1>5 DEF CountFree
    <3> HIDE DEF n
    <3>2. n \in 0 .. Concurrency
      BY <2>1 DEF n
    <3> QED BY <3>1, <3>2, Before DEF Worker
  <2>3. Keeps(db, db') /\ RunsOK(run') /\ SameJobs(run, run')
    BY <1>5, Before DEF CountFree
  <2> QED BY <2>2, <2>3, StepConsistent
<1> QED BY <1>1, <1>2, <1>3, <1>4, <1>5 DEF LoopNext

\* So do those of a slot: the settles, with the claim they carry, the reply
\* they bring, an abort, a lost reply, a job given back.
LEMMA SlotSteps ==
  ASSUME IInv, NEW t \in DOMAIN run,
         SlotNext(t) \/ LoseSlot(t) \/ GiveBackNext(t)
  PROVE  IInv'
<1>1. t # None /\ run[t] \in Run /\ run[t].job \in Jobs /\ run[t].worker \in Workers
  BY Before, StoreAssumption DEF RunsOK, Run
<1>2. CASE HandlerEnds(t)
  <2>1. worker[run[t].worker].open \in BOOLEAN
    BY <1>1, Before DEF Worker
  <2>2. RunsOK(run') /\ SameJobs(run, run')
    BY <1>1, <1>2, <2>1, Before DEF HandlerEnds, RunsOK, SameJobs, Run
  <2>3. Keeps(db, db') /\ worker' \in [Workers -> Worker]
    BY <1>2, Before DEF HandlerEnds
  <2> QED BY <2>2, <2>3, StepConsistent
<1>3. CASE CompleteRun(t)
  <2>1. PICK d \in IF Holds(db, run[t].job, t) THEN Complete(db, run[t].job) ELSE {db} :
          SettleAs(t, d, -1)
    BY <1>3 DEF CompleteRun
  <2>2. Keeps(db, d)
    BY <1>1, <2>1, Before, CompleteKeeps DEF Holds
  <2> QED BY <1>3, <2>1, <2>2, SettleConsistent DEF CompleteRun
<1>4. ASSUME NEW retryIn \in RetryDelays, FailRun(t, retryIn)
      PROVE  IInv'
  <2>1. retryIn \in Nat \cup {-1}
    BY QueueAssumption
  <2>2. CASE Holds(db, run[t].job, t)
    <3>1. PICK d \in Fail(db, run[t].job, retryIn) : SettleAs(t, d, retryIn)
      BY <1>4, <2>2 DEF FailRun
    <3>2. Keeps(db, d)
      BY <1>1, <2>1, <2>2, <3>1, Before, FailKeeps DEF Holds
    <3> QED BY <1>4, <3>1, <3>2, SettleConsistent DEF FailRun
  <2>3. CASE ~Holds(db, run[t].job, t)
    <3>1. SettleAs(t, db, -1)
      BY <1>4, <2>3 DEF FailRun
    <3> QED BY <1>4, <3>1, Before, SettleConsistent DEF FailRun
  <2> QED BY <2>2, <2>3
<1>5. CASE StartNext(t)
  <2>1. RunsOK(run') /\ SameJobs(run, run')
    BY <1>5, Before, StartedRuns DEF StartNext
  <2>2. Keeps(db, db') /\ worker' \in [Workers -> Worker]
    BY <1>5, Before DEF StartNext
  <2> QED BY <2>1, <2>2, StepConsistent
<1>6. CASE ClaimAfterAbort(t)
  BY <1>6, Before, SettleConsistent DEF ClaimAfterAbort
<1>7. CASE EndAborted(t)
  <2>1. RunsOK(run') /\ SameJobs(run, run')
    BY <1>7, Before, WithoutRuns DEF EndAborted
  <2>2. Keeps(db, db') /\ worker' \in [Workers -> Worker]
    BY <1>7, Before DEF EndAborted
  <2> QED BY <2>1, <2>2, StepConsistent
<1>8. CASE LoseSlot(t)
  <2>1. RunsOK(run') /\ SameJobs(run, run')
    BY <1>8, Before, WithoutRuns DEF LoseSlot
  <2>2. Keeps(db, db') /\ worker' \in [Workers -> Worker]
    BY <1>8, Before DEF LoseSlot
  <2> QED BY <2>1, <2>2, StepConsistent
<1>9. CASE GiveBackNext(t)
  <2>1. RunsOK(run') /\ SameJobs(run, run')
    BY <1>9, Before, WithoutRuns DEF GiveBackNext
  <2>2. Keeps(db, db')
    BY <1>9, GivenBack DEF GiveBackNext
  <2>3. worker' \in [Workers -> Worker]
    BY <1>9, Before DEF GiveBackNext
  <2> QED BY <2>1, <2>2, <2>3, StepConsistent
<1> QED BY <1>2, <1>3, <1>4, <1>5, <1>6, <1>7, <1>8, <1>9 DEF SlotNext, Settle

\* So do those that end a worker: its close, a crash, its replacement.
LEMMA CloseSteps ==
  ASSUME IInv, NEW w \in Workers, CloseNext(w)
  PROVE  IInv'
<1>1. 0 \in 0 .. MaxWait
  BY QueueAssumption
<1>2. CASE Close(w)
  <2>1. worker' \in [Workers -> Worker]
    <3> DEFINE c == [worker[w] EXCEPT !.open = FALSE, !.left = 0,
                       !.phase = IF @ = "wait" THEN "ended" ELSE @]
    <3>1. worker \in [Workers -> Worker] /\ worker[w] \in Worker
      BY Before
    <3>2. c \in Worker
      BY <1>1, <3>1 DEF Worker
    <3>3. worker' = [worker EXCEPT ![w] = c]
      BY <1>2, <3>1 DEF Close, Worker
    <3> HIDE DEF c
    <3> QED BY <3>1, <3>2, <3>3
  <2>2. Keeps(db, db')
    BY <1>2, Before, WakeKeeps DEF Close
  <2>3. RunsOK(run') /\ SameJobs(run, run')
    BY <1>2, Before DEF Close
  <2> QED BY <2>1, <2>2, <2>3, StepConsistent
<1>3. CASE LoopEnds(w)
  <2>1. worker' \in [Workers -> Worker]
    BY <1>3, Before, NewWorkerIs DEF LoopEnds, Worker
  <2>2. Keeps(db, db') /\ RunsOK(run') /\ SameJobs(run, run')
    BY <1>3, Before DEF LoopEnds
  <2> QED BY <2>1, <2>2, StepConsistent
<1>4. CASE GiveBackOffered(w)
  <2>1. worker' \in [Workers -> Worker]
    BY <1>1, <1>4, Before DEF GiveBackOffered, Worker
  <2>2. RunsOK(run') /\ SameJobs(run, run')
    BY <1>4, Before, WithoutRuns DEF GiveBackOffered
  <2>3. InPhase(w, "offered") \in SUBSET DOMAIN run
    BY DEF InPhase, RunsOf
  <2>4. Keeps(db, db')
    BY <1>4, <2>3, GivenBack DEF GiveBackOffered
  <2> QED BY <2>1, <2>2, <2>4, StepConsistent
<1>5. CASE AbortAll(w)
  <2>1. RunsOK(run') /\ SameJobs(run, run')
    BY <1>5, Before, AbortedRuns DEF AbortAll
  <2>2. Keeps(db, db') /\ worker' \in [Workers -> Worker]
    BY <1>5, Before DEF AbortAll
  <2> QED BY <2>1, <2>2, StepConsistent
<1>6. CASE Restart(w)
  <2>1. worker' \in [Workers -> Worker]
    BY <1>6, Before, NewWorkerIs DEF Restart
  <2>2. Keeps(db, db') /\ RunsOK(run') /\ SameJobs(run, run')
    BY <1>6, Before DEF Restart
  <2> QED BY <2>1, <2>2, StepConsistent
<1>7. CASE Crash(w)
  <2>1. worker' \in [Workers -> Worker]
    BY <1>7, Before, NewWorkerIs DEF Crash
  <2>2. Keeps(db, db')
    BY <1>7, Before, WakeKeeps DEF Crash
  <2>3. RunsOK(run') /\ SameJobs(run, run')
    BY <1>7, Before, WithoutRuns DEF Crash
  <2> QED BY <2>1, <2>2, <2>3, StepConsistent
<1> QED BY <1>2, <1>3, <1>4, <1>5, <1>6, <1>7 DEF CloseNext

\* The runs a RENEW's reply cuts off leave the renewals.
LEMMA HeardRuns ==
  ASSUME RunsOK(run), worker \in [Workers -> Worker], NEW m, HearLost(m)
  PROVE  /\ RunsOK(run') /\ SameJobs(run, run') /\ DOMAIN run' = DOMAIN run
         /\ \E T : /\ T \subseteq Named(m)
                   /\ \A t \in DOMAIN run \ T : run'[t] = run[t]
                   /\ \A t \in T : run'[t] = [Aborted(T)[t] EXCEPT !.leased = FALSE]
<1> DEFINE T == { t \in Named(m) : run[t].leased }
<1>1. /\ T \subseteq Named(m) /\ T \subseteq DOMAIN run
      /\ run' = [t \in DOMAIN run |->
                   IF t \in T THEN [Aborted(T)[t] EXCEPT !.leased = FALSE] ELSE run[t]]
  BY DEF HearLost, Named, RunsOf
<1>2. RunsOK(Aborted(T)) /\ SameJobs(run, Aborted(T)) /\ DOMAIN Aborted(T) = DOMAIN run
  BY AbortedRuns DEF Aborted
<1> HIDE DEF T
<1>3. ASSUME NEW t \in DOMAIN run
      PROVE  run'[t] \in Run /\ run'[t].job = run[t].job
  <2>1. Aborted(T)[t] \in Run /\ Aborted(T)[t].job = run[t].job /\ run[t] \in Run
    BY <1>2 DEF RunsOK, SameJobs
  <2> HIDE DEF Aborted
  <2> QED BY <1>1, <2>1 DEF Run
<1> HIDE DEF Aborted
<1> QED BY <1>1, <1>3 DEF RunsOK, SameJobs

\* Renewals, lost replies, what a worker is told, clients and the clock.
LEMMA OtherSteps ==
  ASSUME IInv,
         \/ \E w \in Workers : Renew(w) \/ LoseClaim(w) \/ LoseWait(w)
         \/ \E m \in told : MessageNext(m)
         \/ ClientNext \/ Tick
  PROVE  IInv'
<1>1. 0 \in 0 .. MaxWait
  BY QueueAssumption
<1>2. ASSUME NEW w \in Workers, Renew(w)
      PROVE  IInv'
  <2>1. PICK S : db' = Renewed(db, S)
    BY <1>2 DEF Renew
  <2>2. Keeps(db, db')
    BY <2>1, Before, RenewedKeeps
  <2> QED BY <1>2, <2>2, Before, StepConsistent DEF Renew
<1>3. ASSUME NEW w \in Workers, LoseClaim(w)
      PROVE  IInv'
  <2>1. PICK p \in {"claim", "ended"} :
          worker' = [worker EXCEPT ![w].phase = p, ![w].left = 0, ![w].free = 0]
    BY <1>3 DEF LoseClaim
  <2>2. worker' \in [Workers -> Worker]
    BY <1>1, <2>1, Before, NewWorkerIs DEF Worker
  <2>3. RunsOK(run') /\ SameJobs(run, run')
    BY <1>3, Before, WithoutRuns DEF LoseClaim
  <2>4. Keeps(db, db')
    BY <1>3, Before DEF LoseClaim
  <2> QED BY <2>2, <2>3, <2>4, StepConsistent
<1>4. ASSUME NEW w \in Workers, LoseWait(w)
      PROVE  IInv'
  <2>1. worker' \in [Workers -> Worker]
    BY <1>1, <1>4, Before DEF LoseWait, Worker
  <2>2. Keeps(db, db')
    BY <1>4, Before, WakeKeeps DEF LoseWait
  <2>3. RunsOK(run') /\ SameJobs(run, run')
    BY <1>4, Before DEF LoseWait
  <2> QED BY <2>1, <2>2, <2>3, StepConsistent
<1>5. CASE ClientNext
  <2>1. CASE \E j \in Jobs, delay \in Delays : Add(j, delay)
    BY <2>1, Before, AddJobKeeps, StepConsistent, QueueAssumption DEF Add
  <2>2. ASSUME NEW j \in Jobs, CancelJob(j)
        PROVE  IInv'
    <3>1. Keeps(db, db')
      BY <2>2, Before, CancelKeeps DEF CancelJob
    <3> QED BY <2>2, <3>1, Before, StepConsistent DEF CancelJob
  <2>3. CASE \E j \in Jobs : RetryJob(j)
    BY <2>3, Before, RetryJobKeeps, StepConsistent DEF RetryJob
  <2>4. CASE \E j \in Jobs : RemoveJob(j)
    BY <2>4, Before, RemoveKeeps, StepConsistent DEF RemoveJob
  <2>5. CASE PauseQueue
    BY <2>5, Before, PauseKeeps, StepConsistent DEF PauseQueue
  <2>6. CASE ResumeQueue
    BY <2>6, Before, PauseKeeps, StepConsistent DEF ResumeQueue
  <2> QED BY <1>5, <2>1, <2>2, <2>3, <2>4, <2>5, <2>6 DEF ClientNext
<1>6. CASE Tick
  <2>1. Keeps(db, db')
    BY <1>6, Before, PassTimeKeeps DEF Tick
  <2>2. ASSUME NEW w \in Workers
        PROVE  worker'[w] \in Worker
    <3>1. worker[w] \in Worker /\ Max2(0, worker[w].left - 1) \in 0 .. MaxWait
      BY Before, QueueAssumption DEF Worker, Max2
    <3>2. PICK n \in 0 .. MaxWait : worker'[w] = [worker[w] EXCEPT !.left = n]
      BY <1>6, <3>1 DEF Tick, Worker
    <3> QED BY <3>1, <3>2 DEF Worker
  <2>3. worker' \in [Workers -> Worker]
    BY <1>6, <2>2 DEF Tick
  <2>4. RunsOK(run') /\ SameJobs(run, run')
    BY <1>6, Before DEF Tick
  <2> QED BY <2>1, <2>3, <2>4, StepConsistent
<1>7. ASSUME NEW m \in told, MessageNext(m)
      PROVE  IInv'
  <2>1. UNCHANGED <<db, worker>>
    BY <1>7 DEF MessageNext, HearCancel, HearLost, LoseMessage
  <2>2. RunsOK(run') /\ SameJobs(run, run')
    BY <1>7, Before, HeardRuns, AbortedRuns DEF MessageNext, HearCancel, LoseMessage
  <2> QED BY <2>1, <2>2, Before, StepConsistent
<1> QED BY <1>2, <1>3, <1>4, <1>5, <1>6, <1>7

(***************************************************************************)
(* The theorems                                                            *)
(***************************************************************************)

\* A new queue, whose workers are about to claim, is consistent.
LEMMA InitConsistent == Init => IInv
<1> SUFFICES ASSUME Init PROVE IInv
  OBVIOUS
<1>1. NoHash \in Hash /\ NoHash.state = "none" /\ NoHash.token = None /\ NoHash.attempt = 0
  BY StoreAssumption DEF NoHash, Hash, States
<1>2. <<>> \in ZSets /\ DOMAIN <<>> = {}
  <2>1. <<>> = [j \in {} |-> 0] /\ DOMAIN <<>> = {}
    OBVIOUS
  <2>2. [j \in {} |-> 0] \in [{} -> Int]
    OBVIOUS
  <2> QED BY <2>1, <2>2, {} \in SUBSET Jobs, ZSetIntro
<1>3. /\ db.hash = [j \in Jobs |-> NoHash] /\ db.ready = {} /\ db.before = {}
      /\ db.delayed = <<>> /\ db.active = <<>> /\ db.completed = <<>> /\ db.failed = <<>>
      /\ db.wake = 0 /\ db.paused = FALSE
  BY DEF Init, EmptyStore
<1>4. db \in Store
  <2>1. /\ [j \in Jobs |-> NoHash] \in [Jobs -> Hash]
        /\ {} \in SUBSET Jobs /\ {} \in SUBSET (Jobs \X Jobs)
    BY <1>1
  <2> QED BY <1>2, <2>1 DEF Init, EmptyStore, Store
<1>5. StoreInv(db)
  BY <1>1, <1>2, <1>3, <1>4
     DEF StoreInv, TimesInRange, SetsMatchHash, TokensFence, AttemptsLeft
<1>6. worker \in [Workers -> Worker]
  BY NewWorkerIs DEF Init
<1>7. RunsOK(run) /\ RunsFenced(db, run)
  BY <1>2, FS_EmptySet DEF Init, RunsOK, RunsFenced
<1> QED BY <1>5, <1>6, <1>7 DEF IInv, Consistent

\* Every step keeps the invariant.
LEMMA NextConsistent == IInv /\ [Next]_vars => IInv'
<1> SUFFICES ASSUME IInv, [Next]_vars PROVE IInv'
  OBVIOUS
<1>1. CASE UNCHANGED vars
  BY <1>1 DEF IInv, vars
<1>2. CASE OpenNext
  BY <1>2, LoopSteps, SlotSteps, OtherSteps DEF OpenNext
<1>3. CASE \E w \in Workers : CloseNext(w)
  BY <1>3, CloseSteps
<1>4. CASE \E t \in DOMAIN run : GiveBackNext(t)
  BY <1>4, SlotSteps
<1> QED BY <1>1, <1>2, <1>3, <1>4 DEF Next

\* Whatever the interleaving of the scripts, the workers and their failures, the
\* store stays consistent and every run in step with it.
THEOREM Invariance == Spec => []IInv
<1> QED BY InitConsistent, NextConsistent, PTL DEF Spec

\* Every job is in exactly the set its hash names.
THEOREM JobsInPlaceHolds == Spec => []JobsInPlace
<1> QED BY Invariance, Implied, PTL

\* A token is held by an active job only, by one job only, and by the job of
\* the run that carries it.
THEOREM TokenIsFenceHolds == Spec => []TokenIsFence
<1> QED BY Invariance, Implied, PTL

\* A queued job has an attempt left, a running one has been counted.
THEOREM AttemptBudgetHolds == Spec => []AttemptBudget
<1> QED BY Invariance, Implied, PTL

(***************************************************************************)
(* The life of a job                                                       *)
(***************************************************************************)

\* What a step makes of job j: it lives on, and leaves the run that holds it
\* by that run's own end, as it is deleted, or once its lease lapsed; and it is
\* held under no token that was given out before.
Fate(j) ==
  /\ Lives(db, db', j)
  /\ \/ Untaken(db, db', j)
     \/ db.hash[j].token \in DOMAIN run /\ db.hash[j].token \notin DOMAIN run'
  /\ db'.hash[j].token \in {None, db.hash[j].token} \cup Fresh

Fates == \A j \in Jobs : Fate(j)

\* A step that keeps the store gives out no token; a claim gives out fresh ones.
LEMMA TokensOf ==
  ASSUME NEW d, Keeps(db, d), NEW j \in Jobs
  PROVE  /\ d.hash[j].token \in {None, db.hash[j].token} \cup Fresh
         /\ \A n : \A r \in Claims(d, n, Fresh) :
              r.db.hash[j].token \in {None, db.hash[j].token} \cup Fresh
<1>1. d.hash[j].token \in {None, db.hash[j].token} /\ StoreInv(d)
  BY DEF Keeps
<1>2. ASSUME NEW n, NEW r \in Claims(d, n, Fresh)
      PROVE  r.db.hash[j].token \in {None, db.hash[j].token} \cup Fresh
  <2>1. Fresh \in SUBSET Tokens /\ \A i \in Jobs : d.hash[i].token \notin Fresh
    BY StoreAssumption DEF Fresh, Keeps
  <2>2. /\ r.tok \in [DOMAIN r.tok -> Fresh]
        /\ \A i \in DOMAIN r.tok : r.db.hash[i].token = r.tok[i]
        /\ \A i \in Jobs \ DOMAIN r.tok : r.db.hash[i].token \in {None, d.hash[i].token}
    BY <1>1, <2>1, ClaimsKeep
  <2> QED BY <1>1, <2>2
<1> QED BY <1>1, <1>2

\* A step whose script, or none, changes no hash.
LEMMA HashKept ==
  ASSUME IInv, db'.hash = db.hash
  PROVE  Fates
BY Before, SameOrGone DEF Fates, Fate

\* The runs a step names are those of no fresh token.
LEMMA EndedRuns ==
  ASSUME IInv, NEW t \in DOMAIN run
  PROVE  /\ t \notin DOMAIN Without({t})
         /\ \A w, p, tok : tok \in [DOMAIN tok -> Fresh] => t \notin DOMAIN Replaced({t}, w, tok, p)
<1>1. t \notin Fresh
  BY DEF Fresh
<1>2. { <<>>[j] : j \in DOMAIN <<>> } = {}
  OBVIOUS
<1>3. t \notin DOMAIN Without({t})
  BY <1>2 DEF Without, Replaced
<1>4. ASSUME NEW w, NEW p, NEW tok, tok \in [DOMAIN tok -> Fresh]
      PROVE  t \notin DOMAIN Replaced({t}, w, tok, p)
  <2>1. t \notin { tok[j] : j \in DOMAIN tok }
    BY <1>1, <1>4
  <2> QED BY <2>1 DEF Replaced
<1> QED BY <1>3, <1>4

\* A settle, with the claim it carries.
LEMMA SettleFates ==
  ASSUME IInv, NEW t \in DOMAIN run, NEW d, Keeps(db, d), NEW S \in SUBSET Jobs,
         \A j \in S : Holds(db, j, t), Settled(db, d, S), NEW retryIn, SettleAs(t, d, retryIn)
  PROVE  Fates
<1>1. StoreInv(db) /\ StoreInv(d)
  BY Before DEF Keeps
<1>2. CASE run[t].next
  <2>1. PICK r \in Claims(d, 1, Fresh) :
          /\ db' = HeadWake(db, run[t].job, retryIn, r.db)
          /\ run' = Replaced({t}, run[t].worker, r.tok, "next")
    BY <1>2 DEF SettleAs
  <2>2. StoreInv(r.db) /\ r.tok \in [DOMAIN r.tok -> Fresh]
    <3>1. Fresh \in SUBSET Tokens /\ \A j \in Jobs : d.hash[j].token \notin Fresh
      BY StoreAssumption DEF Fresh, Keeps
    <3> QED BY <1>1, <3>1, ClaimsKeep
  <2>3. db'.hash = r.db.hash
    BY <2>1, <2>2, HeadWakeKeeps
  <2>4. t \notin DOMAIN run'
    BY <2>1, <2>2, EndedRuns
  <2>5. ASSUME NEW j \in Jobs
        PROVE  Fate(j)
    <3>1. ClaimMove(d, db', j)
      <4>1. ClaimMove(d, r.db, j)
        BY <1>1, ClaimsMove
      <4> QED BY <2>3, <4>1 DEF ClaimMove, At
    <3>2. Lives(db, db', j) /\ (j \notin S => Untaken(db, db', j))
      BY <1>1, <3>1, SettleThenClaim
    <3>3. j \in S => db.hash[j].token = t
      BY DEF Holds
    <3>4. db'.hash[j].token \in {None, db.hash[j].token} \cup Fresh
      BY <2>3, TokensOf
    <3> QED BY <2>4, <3>2, <3>3, <3>4 DEF Fate
  <2> QED BY <2>5 DEF Fates
<1>3. CASE ~run[t].next
  <2>1. db' = HeadWake(db, run[t].job, retryIn, d) /\ run' = Without({t})
    BY <1>3 DEF SettleAs
  <2>2. db'.hash = d.hash
    BY <1>1, <2>1, HeadWakeKeeps
  <2>3. t \notin DOMAIN run'
    BY <2>1, EndedRuns
  <2>4. ASSUME NEW j \in Jobs
        PROVE  Fate(j)
    <3>1. ClaimMove(d, db', j)
      BY <2>2 DEF ClaimMove
    <3>2. Lives(db, db', j) /\ (j \notin S => Untaken(db, db', j))
      BY <1>1, <3>1, SettleThenClaim
    <3>3. j \in S => db.hash[j].token = t
      BY DEF Holds
    <3>4. db'.hash[j].token \in {None, db.hash[j].token} \cup Fresh
      BY <2>2, TokensOf
    <3> QED BY <2>3, <3>2, <3>3, <3>4 DEF Fate
  <2> QED BY <2>4 DEF Fates
<1> QED BY <1>2, <1>3

\* A run given back ends with the step that gives its job back.
LEMMA GivenBackFates ==
  ASSUME IInv, NEW T \in SUBSET DOMAIN run, ReleaseRuns(T), run' = Without(T)
  PROVE  Fates
<1> DEFINE S == { run[t].job : t \in { s \in T : Holds(db, run[s].job, s) } }
<1>1. ASSUME NEW t \in T, Holds(db, run[t].job, t)
      PROVE  run[t].job \in DOMAIN db.active
  <2>1. t # None /\ run[t].job \in Jobs
    BY Before, StoreAssumption DEF RunsOK, Run
  <2> QED BY <1>1, <2>1, Before, OneJob DEF Holds, JobInv
<1>2. S \in SUBSET DOMAIN db.active
  BY <1>1
<1>3. PICK ord : db' = Release(db, S, ord)
  BY DEF ReleaseRuns
<1>4. \A j \in S : db.hash[j].token \in T
  BY DEF Holds
<1>5. DOMAIN run' = DOMAIN run \ T
  <2>1. { <<>>[j] : j \in DOMAIN <<>> } = {}
    OBVIOUS
  <2> QED BY <2>1 DEF Without, Replaced
<1> HIDE DEF S
<1>6. ASSUME NEW j \in Jobs
      PROVE  Fate(j)
  <2>1. Lives(db, db', j) /\ (j \notin S => Untaken(db, db', j))
    BY <1>2, <1>3, Before, ReleaseMoves
  <2>2. Keeps(db, db')
    BY <1>2, <1>3, Before, ReleaseKeeps
  <2> QED BY <1>4, <1>5, <2>1, <2>2, TokensOf DEF Fate
<1> QED BY <1>6 DEF Fates

\* Every step of the loop, of a slot, of a close, of a client.
LEMMA LoopFates ==
  ASSUME IInv, NEW w \in Workers, LoopNext(w)
  PROVE  Fates
<1>1. CASE Claim(w)
  <2>1. PICK r \in Claims(db, worker[w].free, Fresh) : db' = r.db
    BY <1>1 DEF Claim
  <2>2. ASSUME NEW j \in Jobs
        PROVE  Fate(j)
    <3>1. ClaimMove(db, db', j)
      BY <2>1, Before, ClaimsMove
    <3>2. Lives(db, db', j) /\ Untaken(db, db', j)
      BY <3>1, Before, NotSettled, SettleThenClaim
    <3>3. db'.hash[j].token \in {None, db.hash[j].token} \cup Fresh
      BY <2>1, Before, TokensOf
    <3> QED BY <3>2, <3>3 DEF Fate
  <2> QED BY <2>2 DEF Fates
<1>2. CASE CountFree(w) \/ StartOffered(w) \/ WakeUp(w) \/ WaitEnds(w)
  <2>1. db'.hash = db.hash
    BY <1>2, Before, SameHash DEF CountFree, StartOffered, WakeUp, WaitEnds
  <2> QED BY <2>1, HashKept
<1> QED BY <1>1, <1>2 DEF LoopNext

\* The steps of a run, from its offer to the reply of its settle.
LEMMA SlotFates ==
  ASSUME IInv, NEW t \in DOMAIN run,
         SlotNext(t) \/ LoseSlot(t) \/ GiveBackNext(t)
  PROVE  Fates
<1>1. t # None /\ run[t].job \in Jobs
  BY Before, StoreAssumption DEF RunsOK, Run
<1> DEFINE i == run[t].job
<1>2. CASE HandlerEnds(t) \/ StartNext(t) \/ EndAborted(t) \/ LoseSlot(t)
  BY <1>2, HashKept DEF HandlerEnds, StartNext, EndAborted, LoseSlot
<1>3. ASSUME NEW retryIn, SettleAs(t, db, retryIn)
      PROVE  Fates
  BY <1>3, Before, NotSettled, SettleFates
<1>4. CASE CompleteRun(t)
  <2>1. CASE Holds(db, i, t)
    <3>1. PICK d \in Complete(db, i) : SettleAs(t, d, -1)
      BY <1>4, <2>1 DEF CompleteRun
    <3>2. db.hash[i].token # None
      BY <1>1, <2>1 DEF Holds
    <3>3. Keeps(db, d) /\ Settled(db, d, {i})
      BY <1>1, <3>2, Before, CompleteKeeps, CompleteMoves
    <3>4. {i} \in SUBSET Jobs /\ \A j \in {i} : Holds(db, j, t)
      BY <1>1, <2>1
    <3> HIDE DEF i
    <3> QED BY <3>1, <3>3, <3>4, SettleFates
  <2>2. CASE ~Holds(db, i, t)
    BY <1>3, <1>4, <2>2 DEF CompleteRun
  <2> QED BY <2>1, <2>2
<1>5. ASSUME NEW retryIn \in RetryDelays, FailRun(t, retryIn)
      PROVE  Fates
  <2>1. CASE Holds(db, i, t)
    <3>1. PICK d \in Fail(db, i, retryIn) : SettleAs(t, d, retryIn)
      BY <1>5, <2>1 DEF FailRun
    <3>2. db.hash[i].token # None /\ retryIn \in Nat \cup {-1}
      BY <1>1, <2>1, QueueAssumption DEF Holds
    <3>3. Keeps(db, d) /\ Settled(db, d, {i})
      BY <1>1, <3>2, Before, FailKeeps, FailMoves
    <3>4. {i} \in SUBSET Jobs /\ \A j \in {i} : Holds(db, j, t)
      BY <1>1, <2>1
    <3> HIDE DEF i
    <3> QED BY <3>1, <3>3, <3>4, SettleFates
  <2>2. CASE ~Holds(db, i, t)
    BY <1>3, <1>5, <2>2 DEF FailRun
  <2> QED BY <2>1, <2>2
<1>6. CASE ClaimAfterAbort(t)
  BY <1>3, <1>6 DEF ClaimAfterAbort
<1>7. CASE GiveBackNext(t)
  BY <1>7, GivenBackFates DEF GiveBackNext
<1> QED BY <1>2, <1>4, <1>5, <1>6, <1>7 DEF SlotNext, Settle

\* The steps of a worker that closes, restarts or crashes.
LEMMA CloseFates ==
  ASSUME IInv, NEW w \in Workers, CloseNext(w)
  PROVE  Fates
<1>1. CASE GiveBackOffered(w)
  <2>1. InPhase(w, "offered") \in SUBSET DOMAIN run
    BY DEF InPhase, RunsOf
  <2> QED BY <1>1, <2>1, GivenBackFates DEF GiveBackOffered
<1>2. CASE Close(w) \/ LoopEnds(w) \/ AbortAll(w) \/ Restart(w) \/ Crash(w)
  <2>1. db'.hash = db.hash
    BY <1>2, Before, SameHash DEF Close, LoopEnds, AbortAll, Restart, Crash
  <2> QED BY <2>1, HashKept
<1> QED BY <1>1, <1>2 DEF CloseNext

\* Renewals, lost replies, clients and the clocks.
LEMMA OtherFates ==
  ASSUME IInv,
         \/ \E w \in Workers : Renew(w) \/ LoseClaim(w) \/ LoseWait(w)
         \/ \E m \in told : MessageNext(m)
         \/ ClientNext \/ Tick
  PROVE  Fates
<1>1. ASSUME NEW w \in Workers, Renew(w) \/ LoseClaim(w) \/ LoseWait(w)
      PROVE  Fates
  <2>1. CASE Renew(w)
    <3>1. PICK S : db' = Renewed(db, S)
      BY <2>1 DEF Renew
    <3> QED BY <3>1, Before, SameHash, HashKept
  <2>2. CASE LoseClaim(w) \/ LoseWait(w)
    <3>1. db'.hash = db.hash
      BY <2>2, Before, SameHash DEF LoseClaim, LoseWait
    <3> QED BY <3>1, HashKept
  <2> QED BY <1>1, <2>1, <2>2
<1>2. CASE PauseQueue \/ ResumeQueue \/ Tick
  <2>1. db'.hash = db.hash
    BY <1>2, Before, SameHash DEF PauseQueue, ResumeQueue, Tick
  <2> QED BY <2>1, HashKept
<1>3. ASSUME NEW i \in Jobs, NEW delay \in Delays, Add(i, delay)
      PROVE  Fates
  <2>1. delay \in Nat
    BY QueueAssumption
  <2>2. Keeps(db, db')
    BY <1>3, <2>1, Before, AddJobKeeps DEF Add
  <2>3. \A j \in Jobs : Lives(db, db', j) /\ Untaken(db, db', j)
    BY <1>3, <2>1, Before, AddMoves DEF Add
  <2> QED BY <2>2, <2>3, TokensOf DEF Fates, Fate
<1>4. ASSUME NEW i \in Jobs, CancelJob(i) \/ RetryJob(i) \/ RemoveJob(i)
      PROVE  Fates
  <2>1. Keeps(db, db')
    BY <1>4, Before, CancelKeeps, RetryJobKeeps, RemoveKeeps DEF CancelJob, RetryJob, RemoveJob
  <2>2. \A j \in Jobs : Lives(db, db', j) /\ Untaken(db, db', j)
    BY <1>4, Before, CancelMoves, RetryMoves, RemoveMoves DEF CancelJob, RetryJob, RemoveJob
  <2> QED BY <2>1, <2>2, TokensOf DEF Fates, Fate
<1>5. ASSUME NEW m \in told, MessageNext(m)
      PROVE  Fates
  BY <1>5, HashKept DEF MessageNext, HearCancel, HearLost, LoseMessage
<1> QED BY <1>1, <1>2, <1>3, <1>4, <1>5 DEF ClientNext

\* Every step moves every job along its life, takes it from no run whose lease
\* holds, and gives out no token twice.
LEMMA NextFates == IInv /\ [Next]_vars => Fates
<1> SUFFICES ASSUME IInv, [Next]_vars PROVE Fates
  OBVIOUS
<1>1. CASE UNCHANGED vars
  BY <1>1, HashKept DEF vars
<1>2. CASE OpenNext
  BY <1>2, LoopFates, SlotFates, OtherFates DEF OpenNext
<1>3. CASE \E w \in Workers : CloseNext(w)
  BY <1>3, CloseFates
<1>4. CASE \E t \in DOMAIN run : GiveBackNext(t)
  BY <1>4, SlotFates
<1> QED BY <1>1, <1>2, <1>3, <1>4 DEF Next

\* What the proofs call a job's next state is a move of the abstract life.
LEMMA LivesMove ==
  ASSUME NEW j \in Jobs, Lives(db, db', j)
  PROVE  Lifecycle!Move(j)
BY DEF Lives, At, Lifecycle!Move, Lifecycle!To, Lifecycle!Add, Lifecycle!Queue, Lifecycle!Start,
       Lifecycle!Complete, Lifecycle!TryAgain, Lifecycle!Fail, Lifecycle!GiveBack,
       Lifecycle!Retry, Lifecycle!Leave, Lifecycle!Stay, Lifecycle!Queued

\* The first states of the queue are first states of the life of its jobs.
LEMMA InitLifecycle == Init => Lifecycle!Init
BY DEF Init, EmptyStore, NoHash, Lifecycle!Init

\* A step of the queue is a step of the life of its jobs.
LEMMA NextLifecycle == IInv /\ [Next]_vars => Lifecycle!Next
<1> SUFFICES ASSUME IInv, [Next]_vars PROVE Lifecycle!Next
  OBVIOUS
<1>1. db'.paused \in BOOLEAN
  BY NextConsistent DEF IInv, Consistent, StoreInv, Store
<1>2. \A j \in Jobs : Lifecycle!Move(j)
  BY NextFates, LivesMove DEF Fates, Fate
<1> QED BY <1>1, <1>2 DEF Lifecycle!Next

\* The queue implements the life of its jobs: whatever the workers, the clients and
\* the clocks do, each step is a move of JobLifecycle for every job, or a stutter.
THEOREM LifecycleHolds == Spec => LifecycleSpec
<1> QED BY InitLifecycle, NextLifecycle, Invariance, PTL DEF Spec, LifecycleSpec, Lifecycle!Spec

\* No step takes a job from a run whose lease holds.
LEMMA NextUntaken == IInv /\ [Next]_vars =>
   [\A j \in Jobs :
       LET t == db.hash[j].token
       IN  t # None /\ db'.hash[j].token # t =>
             \/ t \in DOMAIN run /\ t \notin DOMAIN run'
             \/ db'.hash[j].state = "none"
             \/ db.active[j] < 0]_vars
BY NextFates DEF Fates, Fate, Untaken

\* A job is taken from the run that holds it by that run itself, as it is
\* deleted, or once its lease has lapsed: never while its holder's lease stands.
THEOREM NoTheftHolds == Spec => NoTheft
<1> QED BY NextUntaken, Invariance, PTL DEF Spec, NoTheft

(***************************************************************************)
(* What is on its way                                                      *)
(***************************************************************************)

\* A message names a token that no job is held under any more, however late it
\* comes: none of those on their way is given out again.
ToldInv == \A m \in told : m \in Message /\ \A j \in Jobs : db.hash[j].token # m.token

\* A step that sends nothing, or of tokens no job is held under behind it.
LEMMA ToldStep ==
  ASSUME IInv, Fates, ToldInv,
         \A m \in told' \ told : m \in Message /\ \A j \in Jobs : db'.hash[j].token # m.token
  PROVE  ToldInv'
<1> SUFFICES ASSUME NEW m \in told'
             PROVE  m \in Message /\ \A j \in Jobs : db'.hash[j].token # m.token
  BY DEF ToldInv
<1>1. CASE m \notin told
  BY <1>1
<1>2. CASE m \in told
  <2>1. m \in Message /\ m.token \in Tokens /\ m.token \notin Fresh
    BY <1>2 DEF ToldInv, Message, Fresh
  <2>2. ASSUME NEW j \in Jobs
        PROVE  db'.hash[j].token # m.token
    <3>1. db'.hash[j].token \in {None, db.hash[j].token} \cup Fresh
      BY DEF Fates, Fate
    <3> QED BY <1>2, <2>1, <3>1, StoreAssumption DEF ToldInv
  <2> QED BY <2>1, <2>2
<1> QED BY <1>1, <1>2

\* What a RENEW's reply may say of one run.
LEMMA LostIs ==
  ASSUME IInv, NEW T \in SUBSET DOMAIN run, NEW m \in LostOf(T)
  PROVE  m \in Message /\ m.token \in T
<1>1. PICK t \in T : m = [what |-> "lost", to |-> run[t].worker, job |-> run[t].job, token |-> t]
  BY DEF LostOf
<1>2. run[t] \in Run /\ t \in Tokens
  BY Before DEF RunsOK
<1> QED BY <1>1, <1>2 DEF Message, Run

\* The settle of a run leaves no job under its token.
LEMMA SettledHeld ==
  ASSUME IInv, NEW t \in DOMAIN run, NEW d, Keeps(db, d), NEW retryIn, SettleAs(t, d, retryIn),
         d.hash[run[t].job].token # t
  PROVE  \A j \in Jobs : db'.hash[j].token # t
<1>1. t \notin Fresh /\ t # None /\ t \in Tokens
  BY Before, StoreAssumption DEF Fresh, RunsOK
<1>2. \A j \in Jobs : d.hash[j].token # t
  <2>1. \A j \in Jobs : db.hash[j].token = t => run[t].job = j
    BY DEF IInv, Consistent, RunsFenced
  <2> QED BY <1>1, <2>1 DEF Keeps
<1>3. StoreInv(d) /\ Fresh \in SUBSET Tokens /\ \A j \in Jobs : d.hash[j].token \notin Fresh
  BY StoreAssumption DEF Fresh, Keeps
<1>4. CASE run[t].next
  <2>1. PICK r \in Claims(d, 1, Fresh) : db' = HeadWake(db, run[t].job, retryIn, r.db)
    BY <1>4 DEF SettleAs
  <2>2. /\ StoreInv(r.db) /\ r.tok \in [DOMAIN r.tok -> Fresh]
        /\ \A j \in DOMAIN r.tok : r.db.hash[j].token = r.tok[j]
        /\ \A j \in Jobs \ DOMAIN r.tok : r.db.hash[j].token \in {None, d.hash[j].token}
    BY <1>3, ClaimsKeep
  <2>3. db'.hash = r.db.hash
    BY <2>1, <2>2, HeadWakeKeeps
  <2>4. ASSUME NEW j \in Jobs
        PROVE  db'.hash[j].token # t
    BY <1>1, <1>2, <2>2, <2>3
  <2> QED BY <2>4
<1>5. CASE ~run[t].next
  <2>1. db'.hash = d.hash
    BY <1>3, <1>5, HeadWakeKeeps DEF SettleAs
  <2> QED BY <1>2, <2>1
<1> QED BY <1>4, <1>5

\* A settled job is held no more.
LEMMA SettledIs ==
  ASSUME NEW d, NEW e, StoreInv(e), NEW i \in Jobs, Settled(d, e, {i})
  PROVE  e.hash[i].token = None
<1>1. SettleMove(d, e, {i}, i) /\ JobInv(e, i)
  BY OneJob DEF Settled
<1> QED BY <1>1 DEF SettleMove, At, JobInv, NoHash

\* What is sent behind a settle.
LEMMA SettleTold ==
  ASSUME IInv, Fates, ToldInv, NEW t \in DOMAIN run, Settle(t)
  PROVE  ToldInv'
<1> DEFINE i == run[t].job
<1>1. t # None /\ i \in Jobs
  BY Before, StoreAssumption DEF RunsOK, Run
<1>2. BeatBehind(t)
  BY DEF Settle, CompleteRun, FailRun
<1>3. \E d, retryIn : Keeps(db, d) /\ d.hash[i].token # t /\ SettleAs(t, d, retryIn)
  <2>1. CASE ~Holds(db, i, t)
    <3>1. \E retryIn : SettleAs(t, db, retryIn)
      BY <2>1 DEF Settle, CompleteRun, FailRun
    <3> QED BY <2>1, <3>1, Before DEF Holds
  <2>2. CASE Holds(db, i, t)
    <3>1. PICK d, retryIn : /\ SettleAs(t, d, retryIn)
                            /\ \/ d \in Complete(db, i)
                               \/ retryIn \in RetryDelays /\ d \in Fail(db, i, retryIn)
      BY <2>2 DEF Settle, CompleteRun, FailRun
    <3>2. db.hash[i].token # None
      BY <1>1, <2>2 DEF Holds
    <3> HIDE DEF i
    <3>3. Keeps(db, d) /\ Settled(db, d, {i})
      BY <1>1, <3>1, <3>2, Before, QueueAssumption,
         CompleteKeeps, CompleteMoves, FailKeeps, FailMoves
    <3>4. d.hash[i].token = None
      BY <1>1, <3>3, SettledIs DEF Keeps
    <3> QED BY <1>1, <3>1, <3>3, <3>4
  <2> QED BY <2>1, <2>2
<1>4. \A j \in Jobs : db'.hash[j].token # t
  BY <1>3, SettledHeld
<1>5. told' \subseteq told \cup LostOf({t})
  <2>1. \A T : T \subseteq {t} => LostOf(T) \subseteq LostOf({t})
    BY DEF LostOf
  <2>2. PICK M \in {{}, LostOf({ s \in {t} : run[s].leased })} : Tell(M)
    BY <1>2 DEF BeatBehind
  <2>3. M \subseteq LostOf({t})
    BY <2>1, <2>2
  <2> QED BY <2>2, <2>3 DEF Tell
<1>6. \A m \in LostOf({t}) : m \in Message /\ m.token = t
  BY LostIs
<1> QED BY <1>4, <1>5, <1>6, ToldStep

\* What a cancel, and a renewal, sends.
LEMMA SentTold ==
  ASSUME IInv, Fates, ToldInv, (\E w \in Workers : Renew(w)) \/ (\E j \in Jobs : CancelJob(j))
  PROVE  ToldInv'
<1>1. ASSUME NEW w \in Workers, Renew(w)
      PROVE  ToldInv'
  <2> DEFINE sent == { t \in RunsOf(w) : run[t].leased }
             lost == sent \ { t \in sent : Holds(db, run[t].job, t) }
  <2>1. told' \subseteq told \cup LostOf(lost)
    BY <1>1 DEF Renew, Tell
  <2>2. db'.hash = db.hash
    BY <1>1, Before, SameHash DEF Renew
  <2>3. lost \in SUBSET DOMAIN run /\ \A t \in lost : db.hash[run[t].job].token # t
    BY DEF RunsOf, Holds
  <2> HIDE DEF lost
  <2>4. ASSUME NEW t \in lost, NEW j \in Jobs
        PROVE  db'.hash[j].token # t
    BY <2>2, <2>3 DEF IInv, Consistent, RunsFenced
  <2>5. \A m \in LostOf(lost) : m \in Message /\ m.token \in lost
    BY <2>3, LostIs
  <2> QED BY <2>1, <2>4, <2>5, ToldStep
<1>2. ASSUME NEW j \in Jobs, CancelJob(j)
      PROVE  ToldInv'
  <2> DEFINE t == db.hash[j].token
  <2>1. PICK W \in SUBSET Workers :
          Tell({ [what |-> "canceled", to |-> w, job |-> j, token |-> t] :
                   w \in { v \in W : t # None } })
    BY <1>2 DEF CancelJob
  <2> DEFINE M == { [what |-> "canceled", to |-> w, job |-> j, token |-> t] :
                      w \in { v \in W : t # None } }
  <2>2. told' \subseteq told \cup M
    BY <2>1 DEF Tell
  <2>3. t \in Tokens \cup {None}
    BY Before DEF StoreInv, Store, Hash
  <2>4. ASSUME t # None, NEW i \in Jobs
        PROVE  db'.hash[i].token # t
    <3>1. CASE i = j
      <4>1. db'.hash[j] = NoHash
        BY <1>2, Before DEF CancelJob, Cancel, Deleted, Cancelable, ReadyRem, StoreInv, Store
      <4> QED BY <2>4, <3>1, <4>1 DEF NoHash
    <3>2. CASE i # j
      <4>1. db.hash[i].token # t
        BY <2>4, <3>2, Before DEF StoreInv, TokensFence
      <4>2. db'.hash[i].token \in {None, db.hash[i].token}
        BY <1>2, Before, CancelKeeps DEF CancelJob, Keeps
      <4> QED BY <2>4, <4>1, <4>2
    <3> QED BY <3>1, <3>2
  <2>5. ASSUME NEW m \in M
        PROVE  m \in Message /\ m.token = t /\ t # None
    BY <2>3 DEF Message
  <2> HIDE DEF M, t
  <2>6. \A m \in M : m \in Message /\ \A i \in Jobs : db'.hash[i].token # m.token
    BY <2>4, <2>5
  <2> QED BY <2>2, <2>6, ToldStep
<1> QED BY <1>1, <1>2

\* Every step keeps it.
LEMMA NextTold == IInv /\ ToldInv /\ [Next]_vars => ToldInv'
<1> SUFFICES ASSUME IInv, ToldInv, [Next]_vars PROVE ToldInv'
  OBVIOUS
<1>1. Fates
  BY NextFates
<1>2. ASSUME told' \subseteq told
      PROVE  ToldInv'
  BY <1>1, <1>2, ToldStep
<1>3. CASE UNCHANGED vars
  BY <1>2, <1>3 DEF vars
<1>4. ASSUME NEW w \in Workers, LoopNext(w) \/ LoseClaim(w) \/ LoseWait(w) \/ CloseNext(w)
      PROVE  ToldInv'
  BY <1>2, <1>4 DEF LoopNext, CountFree, Claim, StartOffered, WakeUp, WaitEnds, LoseClaim, LoseWait,
       CloseNext, Close, LoopEnds, GiveBackOffered, AbortAll, Restart, Crash, Unheard
<1>5. ASSUME NEW t \in DOMAIN run, SlotNext(t) \/ LoseSlot(t) \/ GiveBackNext(t)
      PROVE  ToldInv'
  <2>1. CASE Settle(t)
    BY <1>1, <2>1, SettleTold
  <2>2. CASE ~Settle(t)
    BY <1>2, <1>5, <2>2
       DEF SlotNext, HandlerEnds, StartNext, ClaimAfterAbort, EndAborted, LoseSlot, GiveBackNext
  <2> QED BY <2>1, <2>2
<1>6. ASSUME NEW m \in told, MessageNext(m)
      PROVE  ToldInv'
  BY <1>2, <1>6 DEF MessageNext, HearCancel, HearLost, LoseMessage
<1>7. CASE ClientNext
  <2>1. CASE \E j \in Jobs : CancelJob(j)
    BY <1>1, <2>1, SentTold
  <2>2. CASE ~\E j \in Jobs : CancelJob(j)
    BY <1>2, <1>7, <2>2 DEF ClientNext, Add, RetryJob, RemoveJob, PauseQueue, ResumeQueue
  <2> QED BY <2>1, <2>2
<1>8. CASE Tick
  BY <1>2, <1>8 DEF Tick
<1>9. CASE \E w \in Workers : Renew(w)
  BY <1>1, <1>9, SentTold
<1> QED BY <1>3, <1>4, <1>5, <1>6, <1>7, <1>8, <1>9 DEF Next, OpenNext

\* What is on its way to a worker names no job's token of now.
LEMMA ToldHolds == Spec => []ToldInv
<1>1. Init => ToldInv
  BY DEF Init, ToldInv
<1> QED BY <1>1, NextTold, Invariance, PTL DEF Spec

\* The variables keep their types, and the clocks their range.
THEOREM TypeCorrect == Spec => []TypeOK
<1>1. IInv /\ ToldInv => TypeOK
  <2> SUFFICES ASSUME IInv, ToldInv PROVE TypeOK
    OBVIOUS
  <2>1. told \subseteq Message
    BY DEF ToldInv
  <2> QED BY <2>1, Before, StoreIsTyped DEF RunsOK, StoreInv, TypeOK
<1> QED BY <1>1, Invariance, ToldHolds, PTL

(***************************************************************************)
(* Slots, and runs that were cut off                                       *)
(***************************************************************************)

\* A worker's runs and the slots its CLAIM asks for fit its slots, and jobs are on
\* offer only until it takes up the reply: what CountFree counted stays free, since
\* the slots meanwhile claim at most what they end.
SlotInv ==
  \A w \in Workers :
    /\ IsFiniteSet(RunsOf(w)) /\ Cardinality(RunsOf(w)) + worker[w].free <= Concurrency
    /\ worker[w].phase # "reply" => InPhase(w, "offered") = {}

\* A run that was cut off while its worker is open.
CutOff(r, t) == r[t].phase = "aborted" /\ r[t].next

\* Its job is held by it no more.
CutInv == \A t \in DOMAIN run : CutOff(run, t) => ~Holds(db, run[t].job, t)

\* The runs of s were runs of r, of the same worker, and none is on offer anew.
SameSlots(r, s) ==
  /\ DOMAIN s \subseteq DOMAIN r
  /\ \A t \in DOMAIN s : /\ s[t].worker = r[t].worker
                         /\ s[t].phase = "offered" => r[t].phase = "offered"

\* Those left.
LEMMA WithoutIs ==
  ASSUME NEW T
  PROVE  Without(T) = [t \in DOMAIN run \ T |-> run[t]]
<1>1. { <<>>[j] : j \in DOMAIN <<>> } = {}
  OBVIOUS
<1> QED BY <1>1 DEF Without, Replaced

\* The runs left by Without are the ones that were.
LEMMA WithoutSlots ==
  ASSUME NEW T
  PROVE  SameSlots(run, Without(T)) /\ DOMAIN Without(T) = DOMAIN run \ T
BY WithoutIs DEF SameSlots

\* The handlers of the jobs on offer begin: their runs keep their workers.
LEMMA StartedSlots ==
  ASSUME NEW T, RunsOK(run)
  PROVE  /\ SameSlots(run, Started(T)) /\ DOMAIN Started(T) = DOMAIN run
         /\ \A t \in T \cap DOMAIN run : Started(T)[t].phase = "running"
         /\ \A t \in DOMAIN run \ T : Started(T)[t].phase = run[t].phase
<1>1. DOMAIN Started(T) = DOMAIN run
  BY DEF Started
<1>2. ASSUME NEW t \in DOMAIN run
      PROVE  /\ Started(T)[t].worker = run[t].worker
             /\ Started(T)[t].phase = IF t \in T THEN "running" ELSE run[t].phase
  <2>1. run[t] \in Run
    BY DEF RunsOK
  <2>2. Started(T)[t] \in IF t \in T THEN {[run[t] EXCEPT !.phase = "running", !.leased = TRUE]}
                          ELSE {[run[t] EXCEPT !.leased = FALSE], run[t]}
    BY DEF Started
  <2> QED BY <2>1, <2>2 DEF Run
<1> QED BY <1>1, <1>2 DEF SameSlots

\* abortRun of the runs of T.
LEMMA AbortedSlots ==
  ASSUME NEW T, RunsOK(run)
  PROVE  /\ SameSlots(run, Aborted(T)) /\ DOMAIN Aborted(T) = DOMAIN run
         /\ \A t \in DOMAIN run : t \notin T => Aborted(T)[t] = run[t]
         /\ \A t \in DOMAIN run : t \in T =>
              /\ Aborted(T)[t].phase = "aborted" /\ Aborted(T)[t].next =>
                   \/ run[t].phase = "running" /\ worker[run[t].worker].open
                   \/ run[t].phase = "aborted" /\ run[t].next
<1> DEFINE cut(t) == [run[t] EXCEPT !.phase = IF @ = "running" THEN "aborted" ELSE @,
                                   !.next  = IF run[t].phase = "running"
                                             THEN worker[run[t].worker].open ELSE @,
                                   !.leased = @ /\ run[t].phase # "running"]
<1>1. ASSUME NEW t \in DOMAIN run
      PROVE  /\ cut(t).worker = run[t].worker
             /\ cut(t).phase = "offered" => run[t].phase = "offered"
             /\ cut(t).phase = "aborted" /\ cut(t).next =>
                   \/ run[t].phase = "running" /\ worker[run[t].worker].open
                   \/ run[t].phase = "aborted" /\ run[t].next
  <2>1. run[t] \in Run
    BY DEF RunsOK
  <2>2. CASE run[t].phase = "running"
    BY <2>1, <2>2 DEF Run
  <2>3. CASE run[t].phase # "running"
    BY <2>1, <2>3 DEF Run
  <2> QED BY <2>2, <2>3
<1>2. Aborted(T) = [t \in DOMAIN run |-> IF t \in T THEN cut(t) ELSE run[t]]
  BY Zenon DEF Aborted
<1> HIDE DEF cut
<1> QED BY <1>1, <1>2 DEF SameSlots

\* A step that starts no run.
LEMMA SlotsShrink ==
  ASSUME IInv, SlotInv, SameSlots(run, run'),
         \A w \in Workers : worker'[w].free \in {0, worker[w].free},
         \A w \in Workers : worker'[w].phase # "reply" =>
           worker[w].phase # "reply" \/ InPhase(w, "offered")' = {}
  PROVE  SlotInv'
<1> SUFFICES ASSUME NEW w \in Workers
             PROVE  /\ IsFiniteSet(RunsOf(w)')
                    /\ Cardinality(RunsOf(w)') + worker'[w].free <= Concurrency
                    /\ worker'[w].phase # "reply" => InPhase(w, "offered")' = {}
  BY DEF SlotInv
<1>1. RunsOf(w)' \in SUBSET RunsOf(w)
  BY DEF SameSlots, RunsOf
<1>2. /\ IsFiniteSet(RunsOf(w)) /\ Cardinality(RunsOf(w)) + worker[w].free <= Concurrency
      /\ worker[w].free \in Nat
  BY Before, QueueAssumption DEF SlotInv, Worker
<1>3. IsFiniteSet(RunsOf(w)') /\ Cardinality(RunsOf(w)') <= Cardinality(RunsOf(w))
  BY <1>1, <1>2, FS_Subset
<1>4. Cardinality(RunsOf(w)') \in Nat /\ Cardinality(RunsOf(w)) \in Nat /\ Concurrency \in Nat
  BY <1>2, <1>3, FS_CardinalityType, QueueAssumption
<1>5. InPhase(w, "offered")' \subseteq InPhase(w, "offered")
  BY DEF InPhase, RunsOf, SameSlots
<1> QED BY <1>2, <1>3, <1>4, <1>5 DEF SlotInv

\* The runs a claim begins.
Begins(tok) == { tok[j] : j \in DOMAIN tok }

\* A claim of n answers n runs at most.
LEMMA ClaimedCount ==
  ASSUME NEW d, StoreInv(d), NEW n \in Nat, NEW fresh \in SUBSET Tokens,
         \A j \in Jobs : d.hash[j].token \notin fresh, NEW r \in Claims(d, n, fresh)
  PROVE  IsFiniteSet(Begins(r.tok)) /\ Cardinality(Begins(r.tok)) <= n
<1> DEFINE D == DOMAIN r.tok
           starting == { r.tok[j] : j \in D }
<1>1. D \in SUBSET Jobs /\ r.tok \in [D -> fresh]
  BY ClaimsKeep
<1>2. IsFiniteSet(D)
  BY <1>1, StoreAssumption, FS_Subset
<1>3. Cardinality(D) <= n
  <2>1. \E d2, S, tok : S \in Heads(d2, n) /\ tok \in NewTokens(S, fresh)
                        /\ r = [db |-> Baton(Begin(d2, tok)), tok |-> tok]
    BY DEF Claims
  <2>2. PICK d2, S, tok : S \in Heads(d2, n) /\ tok \in NewTokens(S, fresh)
                        /\ r = [db |-> Baton(Begin(d2, tok)), tok |-> tok]
    BY <2>1
  <2>3. D = S
    BY <2>2 DEF NewTokens
  <2>4. Cardinality(S) \in Nat
    BY <1>2, <2>3, FS_CardinalityType
  <2>5. Cardinality(S) = 0 \/ Cardinality(S) = Min2(n, Cardinality(d2.ready))
    BY <2>2 DEF Heads
  <2>6. Cardinality(S) <= n
    <3> DEFINE c == Cardinality(d2.ready)
               s == Cardinality(S)
    <3>1. s = 0 \/ s = n \/ (s = c /\ ~(n < c))
      BY <2>5 DEF Min2
    <3> QED BY <2>4, <2>5, <3>1 DEF Min2
  <2> QED BY <2>3, <2>6
<1>4. IsFiniteSet(starting) /\ Cardinality(starting) <= Cardinality(D)
  <2> DEFINE f == [j \in D |-> r.tok[j]]
  <2>1. f \in Surjection(D, starting)
    BY DEF Surjection
  <2> QED BY <1>2, <2>1, FS_Surjection
<1>5. Cardinality(starting) \in Nat /\ Cardinality(D) \in Nat
  BY <1>2, <1>4, FS_CardinalityType
<1> QED BY <1>3, <1>4, <1>5 DEF Begins

\* The elements of two sets, counted.
LEMMA CountBoth ==
  ASSUME NEW A, IsFiniteSet(A), NEW B, IsFiniteSet(B), NEW C \in SUBSET (A \cup B),
         NEW n \in Nat, Cardinality(A) + Cardinality(B) <= n
  PROVE  IsFiniteSet(C) /\ Cardinality(C) <= n
<1>1. IsFiniteSet(A \cup B) /\ IsFiniteSet(A \cap B)
  BY FS_Union, FS_Subset
<1>2. /\ Cardinality(A) \in Nat /\ Cardinality(B) \in Nat /\ Cardinality(A \cap B) \in Nat
      /\ Cardinality(A \cup B) \in Nat
  BY <1>1, FS_CardinalityType
<1>3. Cardinality(A \cup B) = Cardinality(A) + Cardinality(B) - Cardinality(A \cap B)
  BY FS_Union
<1>4. IsFiniteSet(C) /\ Cardinality(C) <= Cardinality(A \cup B)
  BY <1>1, FS_Subset
<1>5. Cardinality(C) \in Nat
  BY <1>4, FS_CardinalityType
<1> QED BY <1>2, <1>3, <1>4, <1>5

\* The runs after a claim.
AfterClaim(s, T, w, tok, p) ==
  /\ DOMAIN s = (DOMAIN run \ T) \cup Begins(tok)
  /\ \A t \in Begins(tok) : s[t].worker = w /\ s[t].phase = p
  /\ \A t \in (DOMAIN run \ T) \ Begins(tok) : s[t] = run[t]

\* Runs replaced by those of a claim.
LEMMA ReplacedIs ==
  ASSUME NEW T, NEW w, NEW tok, NEW p
  PROVE  AfterClaim(Replaced(T, w, tok, p), T, w, tok, p)
BY DEF Replaced, Begins, AfterClaim

\* A settle leaves its worker no more runs than it had.
LEMMA SettleSlots ==
  ASSUME IInv, SlotInv, NEW t \in DOMAIN run, NEW d, Keeps(db, d), NEW retryIn,
         SettleAs(t, d, retryIn), UNCHANGED worker
  PROVE  SlotInv'
<1>1. CASE run[t].next
  <2>1. PICK r \in Claims(d, 1, Fresh) :
          run' = Replaced({t}, run[t].worker, r.tok, "next")
    BY <1>1 DEF SettleAs
  <2> DEFINE B == Begins(r.tok)
  <2>2. IsFiniteSet(B) /\ Cardinality(B) <= 1
    <3>1. Fresh \in SUBSET Tokens /\ \A j \in Jobs : d.hash[j].token \notin Fresh
      BY StoreAssumption DEF Fresh, Keeps
    <3> QED BY <3>1, ClaimedCount DEF Keeps
  <2>3. /\ DOMAIN run' = (DOMAIN run \ {t}) \cup B
        /\ \A s \in B : run'[s].worker = run[t].worker /\ run'[s].phase = "next"
        /\ \A s \in (DOMAIN run \ {t}) \ B : run'[s] = run[s]
    <3>1. AfterClaim(run', {t}, run[t].worker, r.tok, "next")
      BY <2>1, ReplacedIs
    <3> QED BY <3>1 DEF AfterClaim
  <2> HIDE DEF B
  <2>4. ASSUME NEW w \in Workers
        PROVE  /\ IsFiniteSet(RunsOf(w)')
               /\ Cardinality(RunsOf(w)') + worker'[w].free <= Concurrency
               /\ worker'[w].phase # "reply" => InPhase(w, "offered")' = {}
    <3> DEFINE n == Concurrency - worker[w].free
    <3>1. IsFiniteSet(RunsOf(w)) /\ Cardinality(RunsOf(w)) <= n
      <4>1. Cardinality(RunsOf(w)) \in Nat /\ worker[w].free \in Nat /\ Concurrency \in Nat
        BY Before, FS_CardinalityType, QueueAssumption DEF SlotInv, Worker
      <4> QED BY <4>1 DEF SlotInv
    <3>2. n \in Nat /\ Cardinality(RunsOf(w)) \in Nat /\ Cardinality(B) \in Nat
      BY <2>2, <3>1, Before, FS_CardinalityType, QueueAssumption DEF Worker
    <3>3. InPhase(w, "offered")' \subseteq InPhase(w, "offered")
      BY <2>3 DEF InPhase, RunsOf
    <3>5. worker[w].free \in Nat /\ Concurrency \in Nat /\ n = Concurrency - worker[w].free
      BY Before, QueueAssumption DEF Worker
    <3> HIDE DEF n
    <3>4. IsFiniteSet(RunsOf(w)') /\ Cardinality(RunsOf(w)') <= n
      <4>1. CASE run[t].worker = w
        <5> DEFINE A == RunsOf(w) \ {t}
        <5>1. t \in RunsOf(w)
          BY <4>1 DEF RunsOf
        <5>2. IsFiniteSet(A) /\ Cardinality(A) = Cardinality(RunsOf(w)) - 1
          BY <3>1, <5>1, FS_RemoveElement
        <5>3. RunsOf(w)' \in SUBSET (A \cup B)
          BY <2>3 DEF RunsOf
        <5>4. Cardinality(A) + Cardinality(B) <= n
          BY <2>2, <3>1, <3>2, <5>2
        <5> HIDE DEF A
        <5> QED BY <2>2, <3>2, <5>2, <5>3, <5>4, CountBoth
      <4>2. CASE run[t].worker # w
        <5>1. RunsOf(w)' \in SUBSET RunsOf(w)
          BY <2>3, <4>2 DEF RunsOf
        <5>2. IsFiniteSet(RunsOf(w)') /\ Cardinality(RunsOf(w)') <= Cardinality(RunsOf(w))
          BY <3>1, <5>1, FS_Subset
        <5>3. Cardinality(RunsOf(w)') \in Nat
          BY <5>2, FS_CardinalityType
        <5> QED BY <3>1, <3>2, <5>2, <5>3
      <4> QED BY <4>1, <4>2
    <3>6. Cardinality(RunsOf(w)') \in Nat
      BY <3>4, FS_CardinalityType
    <3>7. Cardinality(RunsOf(w)') + worker'[w].free <= Concurrency
      BY <3>4, <3>5, <3>6
    <3> QED BY <3>3, <3>4, <3>7 DEF SlotInv
  <2> QED BY <2>4 DEF SlotInv
<1>2. CASE ~run[t].next
  <2>1. run' = Without({t})
    BY <1>2 DEF SettleAs
  <2> QED BY <2>1, WithoutSlots, SlotsShrink
<1> QED BY <1>1, <1>2

\* The slots are counted free: those of no run, when none is on offer.
LEMMA CountSlots ==
  ASSUME IInv, SlotInv, NEW w \in Workers, CountFree(w)
  PROVE  SlotInv'
<1> DEFINE n == Free(w)
<1>1. worker' = [worker EXCEPT ![w].phase = "sent", ![w].free = n] /\ UNCHANGED run
  BY DEF CountFree
<1>2. IsFiniteSet(RunsOf(w)) /\ InPhase(w, "offered") = {}
  BY DEF SlotInv, CountFree
<1>3. /\ Cardinality(RunsOf(w)) \in Nat /\ Concurrency \in Nat
      /\ n = Concurrency - Cardinality(RunsOf(w))
  BY <1>2, FS_CardinalityType, QueueAssumption DEF Free, Slots
<1> HIDE DEF n
<1>4. ASSUME NEW v \in Workers
      PROVE  /\ RunsOf(v)' = RunsOf(v) /\ InPhase(v, "offered")' = InPhase(v, "offered")
             /\ worker'[v].free = IF v = w THEN n ELSE worker[v].free
             /\ worker'[v].phase = IF v = w THEN "sent" ELSE worker[v].phase
  BY <1>1, Before DEF RunsOf, InPhase, Worker
<1>5. Cardinality(RunsOf(w)) + n <= Concurrency
  BY <1>3
<1> QED BY <1>2, <1>4, <1>5 DEF SlotInv

\* The loop's claim fills the slots counted free at most.
LEMMA ClaimSlots ==
  ASSUME IInv, SlotInv, NEW w \in Workers, Claim(w)
  PROVE  SlotInv'
<1> DEFINE n == worker[w].free
<1>1. PICK r \in Claims(db, n, Fresh) :
        /\ run' = Replaced({}, w, r.tok, "offered")
        /\ worker' = [worker EXCEPT ![w].phase = "reply", ![w].left = WaitFor(r.db),
                                    ![w].free = 0]
  BY DEF Claim
<1> DEFINE B == Begins(r.tok)
<1>2. IsFiniteSet(RunsOf(w)) /\ Cardinality(RunsOf(w)) + n <= Concurrency
  BY DEF SlotInv
<1>3. Cardinality(RunsOf(w)) \in Nat /\ Concurrency \in Nat /\ n \in Nat
  BY <1>2, Before, FS_CardinalityType, QueueAssumption DEF Worker
<1>4. IsFiniteSet(B) /\ Cardinality(B) <= n
  <2>1. Fresh \in SUBSET Tokens /\ \A j \in Jobs : db.hash[j].token \notin Fresh
    BY DEF Fresh
  <2>2. StoreInv(db)
    BY Before
  <2> HIDE DEF n
  <2>3. r \in Claims(db, n, Fresh)
    BY <1>1
  <2> QED BY <1>3, <2>1, <2>2, <2>3, ClaimedCount
<1>5. /\ DOMAIN run' = DOMAIN run \cup B
      /\ \A s \in B : run'[s].worker = w /\ run'[s].phase = "offered"
      /\ \A s \in DOMAIN run \ B : run'[s] = run[s]
  <2>1. DOMAIN run \ {} = DOMAIN run
    OBVIOUS
  <2>2. AfterClaim(run', {}, w, r.tok, "offered")
    BY <1>1, ReplacedIs
  <2> QED BY <2>1, <2>2 DEF AfterClaim
<1> HIDE DEF B, n
<1>6. ASSUME NEW v \in Workers
      PROVE  /\ IsFiniteSet(RunsOf(v)')
             /\ Cardinality(RunsOf(v)') + worker'[v].free <= Concurrency
             /\ worker'[v].phase # "reply" => InPhase(v, "offered")' = {}
  <2>1. CASE v = w
    <3>1. RunsOf(w)' \in SUBSET (RunsOf(w) \cup B)
      BY <1>5 DEF RunsOf
    <3>2. Cardinality(B) \in Nat
      BY <1>4, FS_CardinalityType
    <3>3. Cardinality(RunsOf(w)) + Cardinality(B) <= Concurrency
      BY <1>2, <1>3, <1>4, <3>2
    <3>4. IsFiniteSet(RunsOf(w)') /\ Cardinality(RunsOf(w)') <= Concurrency
      BY <1>2, <1>3, <1>4, <3>1, <3>3, CountBoth
    <3>5. worker'[w].phase = "reply" /\ worker'[w].free = 0
      BY <1>1, Before DEF Worker
    <3>6. Cardinality(RunsOf(w)') \in Nat
      BY <3>4, FS_CardinalityType
    <3> QED BY <2>1, <3>4, <3>5, <3>6
  <2>2. CASE v # w
    <3>1. RunsOf(v)' = RunsOf(v) \ B
      BY <1>5, <2>2 DEF RunsOf
    <3>2. /\ IsFiniteSet(RunsOf(v)) /\ Cardinality(RunsOf(v)) + worker[v].free <= Concurrency
          /\ worker[v].free \in Nat
      BY Before, QueueAssumption DEF SlotInv, Worker
    <3>3. IsFiniteSet(RunsOf(v)') /\ Cardinality(RunsOf(v)') <= Cardinality(RunsOf(v))
      BY <3>1, <3>2, FS_Subset
    <3>4. Cardinality(RunsOf(v)') \in Nat /\ Cardinality(RunsOf(v)) \in Nat
      BY <3>2, <3>3, FS_CardinalityType
    <3>5. InPhase(v, "offered")' \subseteq InPhase(v, "offered")
      BY <1>5, <2>2 DEF InPhase, RunsOf
    <3>6. worker'[v] = worker[v]
      BY <1>1, <2>2, Before
    <3> QED BY <1>3, <3>2, <3>3, <3>4, <3>5, <3>6 DEF SlotInv
  <2> QED BY <2>1, <2>2
<1> QED BY <1>6 DEF SlotInv

\* A job once lost by a run is not its job again.
LEMMA StaysLost ==
  ASSUME IInv, Fates, NEW t \in DOMAIN run, NEW j \in Jobs, ~Holds(db, j, t)
  PROVE  ~Holds(db', j, t)
<1>1. t \notin Fresh /\ t # None
  BY Before, StoreAssumption DEF Fresh, RunsOK
<1>2. db'.hash[j].token \in {None, db.hash[j].token} \cup Fresh
  BY DEF Fates, Fate
<1> QED BY <1>1, <1>2 DEF Holds

\* A step that cuts off no run but one that lost its job.
LEMMA CutStep ==
  ASSUME IInv, CutInv, Fates,
         \A t \in DOMAIN run' :
           \/ ~CutOff(run', t)
           \/ /\ t \in DOMAIN run /\ run'[t].job = run[t].job
              /\ CutOff(run, t) \/ ~Holds(db, run[t].job, t) \/ ~Holds(db', run[t].job, t)
  PROVE  CutInv'
<1> SUFFICES ASSUME NEW t \in DOMAIN run', CutOff(run', t)
             PROVE  ~Holds(db', run'[t].job, t)
  BY DEF CutInv
<1>1. t \in DOMAIN run /\ run'[t].job = run[t].job /\ run[t].job \in Jobs
  BY Before DEF RunsOK, Run
<1>2. ~Holds(db, run[t].job, t) \/ ~Holds(db', run[t].job, t)
  BY <1>1 DEF CutInv
<1> QED BY <1>1, <1>2, StaysLost

\* A step that leaves the runs as they are, or ends some.
LEMMA CutKept ==
  ASSUME IInv, CutInv, Fates, NEW T, run' = Without(T) \/ UNCHANGED run
  PROVE  CutInv'
<1>1. \A t \in DOMAIN run' : t \in DOMAIN run /\ run'[t] = run[t]
  BY WithoutIs
<1> QED BY <1>1, CutStep DEF CutOff

\* A claim cuts no run off.
LEMMA CutReplaced ==
  ASSUME IInv, CutInv, Fates, NEW T, NEW w, NEW tok, NEW p \in {"offered", "next"},
         run' = Replaced(T, w, tok, p)
  PROVE  CutInv'
<1>1. AfterClaim(run', T, w, tok, p)
  BY ReplacedIs
<1>2. ASSUME NEW t \in DOMAIN run'
      PROVE  \/ ~CutOff(run', t)
             \/ t \in DOMAIN run /\ run'[t].job = run[t].job /\ CutOff(run, t)
  <2>1. CASE t \in Begins(tok)
    BY <1>1, <2>1 DEF AfterClaim, CutOff
  <2>2. CASE t \notin Begins(tok)
    BY <1>1, <2>2 DEF AfterClaim, CutOff
  <2> QED BY <2>1, <2>2
<1> QED BY <1>2, CutStep

\* Handlers that begin were not cut off before.
LEMMA CutStarted ==
  ASSUME IInv, CutInv, Fates, NEW T, run' = Started(T)
  PROVE  CutInv'
<1>1. ASSUME NEW t \in DOMAIN run'
      PROVE  \/ ~CutOff(run', t)
             \/ t \in DOMAIN run /\ run'[t].job = run[t].job /\ CutOff(run, t)
  <2>1. t \in DOMAIN run /\ run[t] \in Run
    BY <1>1, Before DEF Started, RunsOK
  <2>2. run'[t] \in {[run[t] EXCEPT !.phase = "running", !.leased = TRUE],
                     [run[t] EXCEPT !.leased = FALSE], run[t]}
    BY <2>1 DEF Started
  <2> QED BY <2>1, <2>2 DEF Run, CutOff
<1> QED BY <1>1, CutStep

\* Runs are cut off that lost their jobs, or while their worker closes.
LEMMA CutAborted ==
  ASSUME IInv, CutInv, Fates, NEW T, run' = Aborted(T),
         \A t \in T \cap DOMAIN run : ~Holds(db, run[t].job, t) \/ ~worker[run[t].worker].open
  PROVE  CutInv'
<1>1. ASSUME NEW t \in DOMAIN run', CutOff(run', t)
      PROVE  /\ t \in DOMAIN run /\ run'[t].job = run[t].job
             /\ CutOff(run, t) \/ ~Holds(db, run[t].job, t)
  <2>1. t \in DOMAIN run /\ run'[t].job = run[t].job
    BY Before, AbortedRuns DEF SameJobs
  <2>2. CASE t \in T
    BY <1>1, <2>1, <2>2, Before, AbortedSlots DEF CutOff
  <2>3. CASE t \notin T
    BY <1>1, <2>1, <2>3, Before, AbortedSlots DEF CutOff
  <2> QED BY <2>1, <2>2, <2>3
<1> QED BY <1>1, CutStep

(***************************************************************************)
(* Every step keeps both                                                   *)
(***************************************************************************)

Both == SlotInv /\ CutInv

\* The settle script and its reply keep both.
LEMMA SettleBoth ==
  ASSUME IInv, Both, Fates, NEW t \in DOMAIN run, NEW d, Keeps(db, d), NEW retryIn,
         SettleAs(t, d, retryIn), UNCHANGED worker
  PROVE  Both'
<1>1. SlotInv'
  BY SettleSlots DEF Both
<1>2. (\E w, tok : run' = Replaced({t}, w, tok, "next")) \/ run' = Without({t})
  BY DEF SettleAs
<1>3. CutInv'
  BY <1>2, CutReplaced, CutKept DEF Both
<1> QED BY <1>1, <1>3 DEF Both

\* The steps of the loop that claims keep both.
LEMMA LoopBoth ==
  ASSUME IInv, Both, Fates, NEW w \in Workers, LoopNext(w)
  PROVE  Both'
<1> USE DEF Both
<1>1. CASE Claim(w)
  <2>1. \E tok : run' = Replaced({}, w, tok, "offered")
    BY <1>1 DEF Claim
  <2> QED BY <1>1, <2>1, ClaimSlots, CutReplaced
<1>2. CASE StartOffered(w)
  <2> DEFINE T == InPhase(w, "offered")
  <2>1. run' = Started(T) /\ T \in SUBSET DOMAIN run
    BY <1>2 DEF StartOffered, InPhase, RunsOf
  <2>2. SameSlots(run, run') /\ InPhase(w, "offered")' = {}
    <3>1. /\ SameSlots(run, run') /\ DOMAIN run' = DOMAIN run
          /\ \A t \in T : run'[t].phase = "running"
      BY <2>1, Before, StartedSlots
    <3>2. ASSUME NEW t \in InPhase(w, "offered")'
          PROVE  FALSE
      <4>1. t \in T
        BY <3>1, <3>2 DEF InPhase, RunsOf, SameSlots
      <4> QED BY <3>1, <3>2, <4>1 DEF InPhase
    <3> QED BY <3>1, <3>2
  <2>3. /\ \A v \in Workers \ {w} : worker'[v] = worker[v]
        /\ worker'[w].free = worker[w].free
    BY <1>2, Before DEF StartOffered, Worker
  <2>4. SlotInv'
    BY <2>2, <2>3, SlotsShrink
  <2> QED BY <2>1, <2>4, CutStarted
<1>3. CASE WakeUp(w) \/ WaitEnds(w)
  <2>1. SameSlots(run, run') /\ UNCHANGED run
    BY <1>3 DEF WakeUp, WaitEnds, SameSlots
  <2>2. \A v \in Workers : /\ worker'[v].phase # "reply" => worker[v].phase # "reply"
                          /\ worker'[v].free = worker[v].free
    BY <1>3, Before DEF WakeUp, WaitEnds, Worker
  <2> QED BY <2>1, <2>2, SlotsShrink, CutKept
<1>4. CASE CountFree(w)
  <2>1. UNCHANGED run
    BY <1>4 DEF CountFree
  <2> QED BY <1>4, <2>1, CountSlots, CutKept
<1> QED BY <1>1, <1>2, <1>3, <1>4 DEF LoopNext

\* The steps of a run keep both.
LEMMA SlotBoth ==
  ASSUME IInv, Both, Fates, NEW t \in DOMAIN run,
         SlotNext(t) \/ LoseSlot(t) \/ GiveBackNext(t)
  PROVE  Both'
<1> USE DEF Both
<1>1. t # None /\ run[t] \in Run /\ run[t].job \in Jobs
  BY Before, StoreAssumption DEF RunsOK, Run
<1>2. CASE Settle(t) \/ ClaimAfterAbort(t)
  <2>1. \E d, retryIn : Keeps(db, d) /\ SettleAs(t, d, retryIn)
    <3>1. CASE CompleteRun(t)
      BY <1>1, <3>1, Before, CompleteKeeps DEF CompleteRun, Holds
    <3>2. CASE \E retryIn \in RetryDelays : FailRun(t, retryIn)
      BY <1>1, <3>2, Before, FailKeeps, QueueAssumption DEF FailRun, Holds
    <3>3. CASE ClaimAfterAbort(t)
      BY <3>3, Before DEF ClaimAfterAbort
    <3> QED BY <1>2, <3>1, <3>2, <3>3 DEF Settle
  <2>2. UNCHANGED worker
    BY <1>2 DEF Settle, CompleteRun, FailRun, ClaimAfterAbort
  <2> QED BY <2>1, <2>2, SettleBoth
<1>3. CASE HandlerEnds(t)
  <2>1. /\ DOMAIN run' = DOMAIN run /\ \A s \in DOMAIN run \ {t} : run'[s] = run[s]
        /\ run'[t].worker = run[t].worker /\ run'[t].job = run[t].job
        /\ run'[t].phase \in {run[t].phase, "ending"}
        /\ CutOff(run', t) => CutOff(run, t)
    BY <1>1, <1>3 DEF HandlerEnds, Run, CutOff
  <2>2. SameSlots(run, run') /\ UNCHANGED worker
    BY <1>3, <2>1 DEF HandlerEnds, SameSlots
  <2>3. \A s \in DOMAIN run' : s \in DOMAIN run /\ run'[s].job = run[s].job
                                /\ (CutOff(run', s) => CutOff(run, s))
    BY <2>1 DEF CutOff
  <2> QED BY <2>2, <2>3, SlotsShrink, CutStep
<1>4. CASE StartNext(t)
  <2>1. SameSlots(run, run') /\ UNCHANGED worker /\ run' = Started({t})
    BY <1>4, Before, StartedSlots DEF StartNext
  <2> QED BY <2>1, SlotsShrink, CutStarted
<1>5. CASE EndAborted(t) \/ LoseSlot(t) \/ GiveBackNext(t)
  <2>1. run' = Without({t}) /\ UNCHANGED worker
    BY <1>5 DEF EndAborted, LoseSlot, GiveBackNext
  <2> QED BY <2>1, WithoutSlots, SlotsShrink, CutKept
<1> QED BY <1>2, <1>3, <1>4, <1>5 DEF SlotNext

\* The steps of a worker that closes, restarts or crashes keep both.
LEMMA CloseBoth ==
  ASSUME IInv, Both, Fates, NEW w \in Workers, CloseNext(w)
  PROVE  Both'
<1> USE DEF Both
<1>1. CASE Close(w) \/ LoopEnds(w) \/ Restart(w)
  <2>1. SameSlots(run, run') /\ UNCHANGED run
    BY <1>1 DEF Close, LoopEnds, Restart, SameSlots
  <2>2. \A v \in Workers : /\ worker'[v].phase # "reply" => worker[v].phase # "reply"
                          /\ worker'[v].free \in {0, worker[v].free}
    BY <1>1, Before DEF Close, LoopEnds, Restart, Worker, NewWorker
  <2> QED BY <2>1, <2>2, SlotsShrink, CutKept
<1>2. CASE AbortAll(w)
  <2>1. SameSlots(run, run') /\ UNCHANGED worker /\ run' = Aborted(InPhase(w, "running"))
    BY <1>2, Before, AbortedSlots DEF AbortAll
  <2>2. \A t \in InPhase(w, "running") : ~worker[run[t].worker].open
    BY <1>2 DEF AbortAll, InPhase, RunsOf
  <2> QED BY <2>1, <2>2, SlotsShrink, CutAborted
<1>3. CASE GiveBackOffered(w) \/ Crash(w)
  <2>1. PICK T : run' = Without(T) /\ InPhase(w, "offered") \subseteq T
    BY <1>3 DEF GiveBackOffered, Crash, InPhase
  <2>2. SameSlots(run, run') /\ DOMAIN run' = DOMAIN run \ T
    BY <2>1, WithoutSlots
  <2>3. InPhase(w, "offered")' = {}
    BY <2>1, <2>2 DEF InPhase, RunsOf, SameSlots
  <2>4. /\ \A v \in Workers \ {w} : worker'[v] = worker[v]
        /\ worker'[w].free \in {0, worker[w].free}
    BY <1>3, Before DEF GiveBackOffered, Crash, NewWorker, Worker
  <2> QED BY <2>1, <2>2, <2>3, <2>4, SlotsShrink, CutKept
<1> QED BY <1>1, <1>2, <1>3 DEF CloseNext

\* Renewals, lost replies, clients and the clocks keep both.
LEMMA OtherBoth ==
  ASSUME IInv, ToldInv, Both, Fates,
         \/ \E w \in Workers : Renew(w) \/ LoseClaim(w) \/ LoseWait(w)
         \/ \E m \in told : MessageNext(m)
         \/ ClientNext \/ Tick
  PROVE  Both'
<1> USE DEF Both
<1>1. ASSUME NEW m \in told, MessageNext(m)
      PROVE  Both'
  <2>1. UNCHANGED worker /\ \A t \in Named(m) : t \in DOMAIN run /\ ~Holds(db, run[t].job, t)
    <3>1. UNCHANGED worker
      BY <1>1 DEF MessageNext, HearCancel, HearLost, LoseMessage
    <3>2. \A t \in Named(m) : t \in DOMAIN run /\ t = m.token /\ run[t].job \in Jobs
      BY Before DEF Named, RunsOf, RunsOK, Run
    <3> QED BY <3>1, <3>2 DEF ToldInv, Holds
  <2>2. CASE HearCancel(m)
    <3>1. SameSlots(run, run') /\ run' = Aborted(Named(m))
      BY <2>2, Before, AbortedSlots DEF HearCancel
    <3> QED BY <2>1, <3>1, SlotsShrink, CutAborted
  <2>3. CASE HearLost(m)
    <3>1. PICK T : /\ T \subseteq Named(m)
                   /\ \A t \in DOMAIN run \ T : run'[t] = run[t]
                   /\ \A t \in T : run'[t] = [Aborted(T)[t] EXCEPT !.leased = FALSE]
      BY <2>3, Before, HeardRuns
    <3>2. SameJobs(run, run') /\ DOMAIN run' = DOMAIN run
      BY <2>3, Before, HeardRuns
    <3>3. SameSlots(run, Aborted(T)) /\ DOMAIN Aborted(T) = DOMAIN run
      BY Before, AbortedSlots
    <3>4. RunsOK(Aborted(T))
      BY Before, AbortedRuns
    <3> HIDE DEF Aborted
    <3>5. ASSUME NEW t \in T
          PROVE  /\ run'[t].worker = run[t].worker
                 /\ run'[t].phase = "offered" => run[t].phase = "offered"
      <4>1. t \in DOMAIN run /\ Aborted(T)[t] \in Run
        BY <2>1, <3>1, <3>3, <3>4 DEF RunsOK
      <4> QED BY <3>1, <3>3, <4>1 DEF SameSlots, Run
    <3>6. SameSlots(run, run')
      BY <3>1, <3>2, <3>5 DEF SameSlots
    <3>7. CutInv'
      BY <2>1, <3>1, <3>2, CutStep DEF CutOff, SameJobs
    <3> QED BY <2>1, <3>6, <3>7, SlotsShrink
  <2>4. CASE LoseMessage(m)
    <3>1. UNCHANGED run /\ SameSlots(run, run')
      BY <2>4 DEF LoseMessage, SameSlots
    <3> QED BY <2>1, <3>1, SlotsShrink, CutKept
  <2> QED BY <1>1, <2>2, <2>3, <2>4 DEF MessageNext
<1>2. ASSUME NEW w \in Workers, LoseClaim(w)
      PROVE  Both'
  <2> DEFINE T == InPhase(w, "offered")
  <2>1. run' = Without(T)
    BY <1>2 DEF LoseClaim
  <2>2. SameSlots(run, run') /\ DOMAIN run' = DOMAIN run \ T
    BY <2>1, WithoutSlots
  <2>3. InPhase(w, "offered")' = {}
    BY <2>1, <2>2 DEF InPhase, RunsOf, SameSlots
  <2>4. /\ \A v \in Workers \ {w} : worker'[v] = worker[v]
        /\ worker'[w].free = 0
    BY <1>2, Before DEF LoseClaim, Worker
  <2> QED BY <2>1, <2>2, <2>3, <2>4, SlotsShrink, CutKept
<1>3. ASSUME NEW w \in Workers, LoseWait(w)
      PROVE  Both'
  <2>1. SameSlots(run, run') /\ UNCHANGED run
    BY <1>3 DEF LoseWait, SameSlots
  <2>2. \A v \in Workers : /\ worker'[v].phase # "reply" => worker[v].phase # "reply"
                          /\ worker'[v].free = worker[v].free
    BY <1>3, Before DEF LoseWait, Worker
  <2> QED BY <2>1, <2>2, SlotsShrink, CutKept
<1>4. CASE (\E w \in Workers : Renew(w)) \/ (\E j \in Jobs : CancelJob(j))
  <2>1. SameSlots(run, run') /\ UNCHANGED <<worker, run>>
    BY <1>4 DEF Renew, CancelJob, SameSlots
  <2> QED BY <2>1, SlotsShrink, CutKept
<1>5. CASE \/ \E j \in Jobs : (\E delay \in Delays : Add(j, delay)) \/ RetryJob(j) \/ RemoveJob(j)
           \/ PauseQueue \/ ResumeQueue \/ Tick
  <2>1. SameSlots(run, run') /\ UNCHANGED run
    BY <1>5 DEF Add, RetryJob, RemoveJob, PauseQueue, ResumeQueue, Tick, SameSlots
  <2>2. \A v \in Workers : worker'[v].phase = worker[v].phase /\ worker'[v].free = worker[v].free
    BY <1>5, Before DEF Add, RetryJob, RemoveJob, PauseQueue, ResumeQueue, Tick, Worker
  <2> QED BY <2>1, <2>2, SlotsShrink, CutKept
<1> QED BY <1>1, <1>2, <1>3, <1>4, <1>5 DEF ClientNext

\* No worker has a run at first.
LEMMA InitBoth == Init => Both
<1> SUFFICES ASSUME Init PROVE Both
  OBVIOUS
<1>1. DOMAIN run = {}
  BY DEF Init
<1>2. \A w \in Workers : RunsOf(w) = {} /\ InPhase(w, "offered") = {}
  BY <1>1 DEF RunsOf, InPhase
<1>3. \A w \in Workers : worker[w].free = 0
  BY DEF Init, NewWorker
<1>4. SlotInv
  <2> SUFFICES ASSUME NEW w \in Workers
               PROVE  IsFiniteSet(RunsOf(w)) /\ Cardinality(RunsOf(w)) + worker[w].free <= Concurrency
    BY <1>2 DEF SlotInv
  <2>1. IsFiniteSet(RunsOf(w)) /\ Cardinality(RunsOf(w)) = 0 /\ worker[w].free = 0
    BY <1>2, <1>3, FS_EmptySet
  <2> QED BY <2>1, QueueAssumption
<1> QED BY <1>1, <1>4 DEF Both, CutInv

\* Every step keeps both.
LEMMA NextBoth == IInv /\ ToldInv /\ Both /\ [Next]_vars => Both'
<1> SUFFICES ASSUME IInv, ToldInv, Both, [Next]_vars PROVE Both'
  OBVIOUS
<1>1. Fates
  BY NextFates
<1>2. CASE UNCHANGED vars
  BY <1>2 DEF vars, Both, SlotInv, CutInv, RunsOf, InPhase
<1>3. CASE OpenNext
  BY <1>1, <1>3, LoopBoth, SlotBoth, OtherBoth DEF OpenNext
<1>4. CASE \E w \in Workers : CloseNext(w)
  BY <1>1, <1>4, CloseBoth
<1>5. CASE \E t \in DOMAIN run : GiveBackNext(t)
  BY <1>1, <1>5, SlotBoth
<1> QED BY <1>2, <1>3, <1>4, <1>5 DEF Next

\* Both hold in every state.
LEMMA BothHold == Spec => []Both
<1> QED BY InitBoth, NextBoth, ToldHolds, Invariance, PTL DEF Spec

\* A worker never runs more jobs than it has slots, whatever the claims of its loop
\* and of its slots in flight.
THEOREM SlotsBoundedHolds == Spec => []SlotsBounded
<1>1. IInv /\ Both => SlotsBounded
  <2> SUFFICES ASSUME IInv, Both, NEW w \in Workers
               PROVE  Cardinality(RunsOf(w)) <= Concurrency
    BY DEF SlotsBounded
  <2>1. IsFiniteSet(RunsOf(w)) /\ Cardinality(RunsOf(w)) + worker[w].free <= Concurrency
    BY DEF Both, SlotInv
  <2>2. Cardinality(RunsOf(w)) \in Nat /\ worker[w].free \in Nat /\ Concurrency \in Nat
    BY <2>1, Before, FS_CardinalityType, QueueAssumption DEF Worker
  <2> QED BY <2>1, <2>2
<1> QED BY <1>1, BothHold, Invariance, PTL

\* A run that was cut off while its worker is open has lost its job, however late
\* it was told: it may be let go unsettled.
THEOREM AbortedHoldsNothingHolds == Spec => []AbortedHoldsNothing
<1>1. Both => AbortedHoldsNothing
  BY DEF Both, CutInv, CutOff, AbortedHoldsNothing
<1> QED BY <1>1, BothHold, PTL

\* SlotsSound: what the loop and the slots claim beside one another, and what
\* the worker hears late, gives no slot to two jobs and takes none from a job
\* that its run still holds.
THEOREM SlotsSoundHolds == Spec => []SlotsSound
<1>1. SlotsBounded /\ AbortedHoldsNothing => SlotsSound
  BY DEF SlotsSound
<1> QED BY <1>1, SlotsBoundedHolds, AbortedHoldsNothingHolds, PTL

(***************************************************************************)
(* Adds under keys                                                         *)
(*                                                                         *)
(* A chunk is a recursive function over its items, so each item is shown   *)
(* to keep what is said of the store and of the answers given so far, and  *)
(* induction over the numbers carries that to the end of the chunk.        *)
(***************************************************************************)

AnswerType == [id : Ids, deduplicated : BOOLEAN, at : Nat]
KeyType == [id : Ids \cup {NoJob}, until : Nat]
AddCall == [items : Seq(Kinds), at : Nat \ {0}, phase : {"new", "refused", "sending", "stopped", "answered"},
            answers : Seq(AnswerType)]

\* An item that was sent, and what it is.
Sent(ad, e) == e \in NewIds /\ e[2] < ad[e[1]].at
KindOf(ad, e) == ad[e[1]].items[e[2]]
AnswerOf(ad, e) == ad[e[1]].answers[e[2]]

\* A call has an answer for each item it sent.
CallInStep(call) ==
  /\ Len(call.items) <= MaxItems /\ Len(call.answers) = call.at - 1 /\ call.at <= Len(call.items) + 1
  /\ call.phase \in {"new", "refused"} => call.at = 1
  /\ call.phase = "sending" => \A i \in DOMAIN call.items : call.items[i] # "bad"

\* A job that ran stays fixed, and its run is known.
JobFixed(f, bg) ==
  /\ f.first \in {NotYet, f.data}
  /\ f.state = "active" => f.attempt >= 1
  /\ f.started => f.first # NotYet
  /\ f.first # NotYet =>
       /\ \E ran \in bg : ran.data = f.data
       /\ f.retried \/ f.attempt >= IF f.state = "active" /\ ~f.started THEN 2 ELSE 1

\* A job with the data of a debounced add is delayed until its wait is over.
InTime(f, ad, mo) ==
  \A e \in NewIds :
    Sent(ad, e) /\ KindOf(ad, e) = "debounced" /\ f.data = e =>
      LET due == AnswerOf(ad, e).at + Wait IN mo >= due \/ (f.state = "delayed" /\ f.runAt >= due)

RunInTime(ran, ad) ==
  Sent(ad, ran.data) /\ (KindOf(ad, ran.data) = "debounced" => ran.at >= AnswerOf(ad, ran.data).at + Wait)

\* What a throttle let through.
Let(ad) == {e \in NewIds : Sent(ad, e) /\ KindOf(ad, e) = "throttled" /\ ~AnswerOf(ad, e).deduplicated}
Near(ad, d, e) == AnswerOf(ad, d).at <= AnswerOf(ad, e).at /\ AnswerOf(ad, e).at < AnswerOf(ad, d).at + Window

\* One job per window, and the others answer its id.
Apart(ad) == \A d, e \in Let(ad) : d # e => ~Near(ad, d, e)
Collapsed(ad) ==
  \A e \in NewIds : Sent(ad, e) /\ KindOf(ad, e) = "throttled" /\ AnswerOf(ad, e).deduplicated =>
    \E d \in Let(ad) : AnswerOf(ad, d).id = AnswerOf(ad, e).id /\ Near(ad, d, e)

\* The key is of a job let through, and lasts as long as every window.
KeyIsLet(ad, key) ==
  key # NoKey => \E d \in Let(ad) : key.id = AnswerOf(ad, d).id /\ key.until = AnswerOf(ad, d).at + Window
KeyLasts(ad, key) == \A d \in Let(ad) : key # NoKey /\ AnswerOf(ad, d).at + Window <= key.until

Windows(ad, nm) ==
  Apart(ad) /\ Collapsed(ad) /\ KeyIsLet(ad, nm[ThrottleKey]) /\ KeyLasts(ad, nm[ThrottleKey])

LastKept(jb, bg, le, dr) ==
  le # NotYet => le \in dr \/ (\E j \in Ids : jb[j] # NoJob /\ jb[j].data = le) \/ \E ran \in bg : ran.data = le

\* Each part has its type.
AddsTypes(mo, jb, nm, ad, bg, le, dr) ==
  /\ mo \in Nat /\ jb \in [Ids -> {NoJob} \cup JobType] /\ nm \in [Keys -> KeyType] /\ ad \in [Calls -> AddCall]
  /\ bg \in SUBSET [data : NewIds, at : Nat] /\ le \in NewIds \cup {NotYet} /\ dr \in SUBSET NewIds

AddsIn(mo, jb, nm, ad, bg, le, dr) ==
  /\ AddsTypes(mo, jb, nm, ad, bg, le, dr)
  /\ \A c \in Calls : CallInStep(ad[c])
  /\ \A e \in NewIds : Sent(ad, e) => AnswerOf(ad, e).at <= mo
  /\ \A j \in Ids : jb[j] # NoJob =>
       /\ Sent(ad, jb[j].data) /\ (j = GivenId \/ Sent(ad, j))
       /\ JobFixed(jb[j], bg) /\ InTime(jb[j], ad, mo)
  /\ \A ran \in bg : RunInTime(ran, ad)
  /\ LastKept(jb, bg, le, dr) /\ Windows(ad, nm)

\* The inductive invariant, of the store, the keys, the calls and what ran.
AddsInv == AddsIn(moment, job, named, adder, begun, lastEdit, dropped)

\* Two tables of calls that tell of the same items and answers.
Alike(ad, bd) ==
  /\ \A e : Sent(ad, e) <=> Sent(bd, e)
  /\ \A e \in NewIds : KindOf(ad, e) = KindOf(bd, e) /\ AnswerOf(ad, e) = AnswerOf(bd, e)

\* Nothing is said of a call but its items and what they were answered.
LEMMA AlikeKeeps ==
  ASSUME NEW ad, NEW bd, Alike(ad, bd), NEW mo, NEW jb, NEW nm, NEW bg, NEW le, NEW dr,
         AddsIn(mo, jb, nm, ad, bg, le, dr), bd \in [Calls -> AddCall], \A c \in Calls : CallInStep(bd[c])
  PROVE  AddsIn(mo, jb, nm, bd, bg, le, dr)
<1>1. \A e : Sent(ad, e) <=> Sent(bd, e)
  BY DEF Alike
<1>2. \A e \in NewIds : KindOf(ad, e) = KindOf(bd, e) /\ AnswerOf(ad, e) = AnswerOf(bd, e)
  BY DEF Alike
<1>3. AddsTypes(mo, jb, nm, bd, bg, le, dr)
  BY DEF AddsIn, AddsTypes
<1>4. \A f : InTime(f, ad, mo) => InTime(f, bd, mo)
  BY <1>1, <1>2 DEF InTime
<1>5. \A ran \in bg : RunInTime(ran, bd)
  <2> SUFFICES ASSUME NEW ran \in bg PROVE RunInTime(ran, bd)
    OBVIOUS
  <2>1. ran.data \in NewIds /\ RunInTime(ran, ad)
    BY DEF AddsIn, AddsTypes
  <2> QED BY <1>1, <1>2, <2>1 DEF RunInTime
<1>6. Let(ad) = Let(bd) /\ Let(ad) \subseteq NewIds
  BY <1>1, <1>2 DEF Let
<1>7. \A d, e \in NewIds : Near(ad, d, e) <=> Near(bd, d, e)
  BY <1>2 DEF Near
<1>8. Windows(bd, nm)
  <2>1. Windows(ad, nm)
    BY DEF AddsIn
  <2>2. \A d \in Let(ad) : d \in NewIds
    BY <1>6
  <2>3. Apart(bd)
    BY <1>6, <1>7, <2>1, <2>2 DEF Windows, Apart
  <2>4. Collapsed(bd)
    BY <1>1, <1>2, <1>6, <1>7, <2>1, <2>2 DEF Windows, Collapsed
  <2>5. \A d \in Let(ad) : AnswerOf(ad, d) = AnswerOf(bd, d)
    BY <1>2, <2>2
  <2>6. ASSUME NEW key PROVE KeyIsLet(ad, key) => KeyIsLet(bd, key)
    BY <1>6, <2>5 DEF KeyIsLet
  <2>7. ASSUME NEW key PROVE KeyLasts(ad, key) => KeyLasts(bd, key)
    BY <1>6, <2>5 DEF KeyLasts
  <2> QED BY <2>1, <2>3, <2>4, <2>6, <2>7 DEF Windows
<1>9. \A e \in NewIds : Sent(bd, e) => AnswerOf(bd, e).at <= mo
  BY <1>1, <1>2 DEF AddsIn
<1>10. \A j \in Ids : jb[j] # NoJob => /\ Sent(bd, jb[j].data) /\ (j = GivenId \/ Sent(bd, j))
                                      /\ JobFixed(jb[j], bg) /\ InTime(jb[j], bd, mo)
  BY <1>1, <1>4 DEF AddsIn
<1> QED BY <1>3, <1>5, <1>8, <1>9, <1>10 DEF AddsIn

\* A call that goes on to another phase.
LEMMA PhaseKeeps ==
  ASSUME NEW mo, NEW jb, NEW nm, NEW ad, NEW bg, NEW le, NEW dr, AddsIn(mo, jb, nm, ad, bg, le, dr),
         NEW c \in Calls, NEW ph \in {"new", "refused", "sending", "stopped", "answered"},
         CallInStep([ad[c] EXCEPT !.phase = ph])
  PROVE  AddsIn(mo, jb, nm, [ad EXCEPT ![c].phase = ph], bg, le, dr)
<1> DEFINE bd == [ad EXCEPT ![c].phase = ph]
<1>1. ad \in [Calls -> AddCall] /\ \A b \in Calls : CallInStep(ad[b])
  BY DEF AddsIn, AddsTypes
<1>2. bd \in [Calls -> AddCall]
  BY <1>1 DEF AddCall
<1>3. \A b \in Calls : CallInStep(bd[b])
  BY <1>1
<1>4. \A b \in Calls : bd[b].items = ad[b].items /\ bd[b].at = ad[b].at /\ bd[b].answers = ad[b].answers
  BY <1>1 DEF AddCall
<1>5. \A e \in NewIds : e[1] \in Calls
  BY DEF NewIds
<1>6. Alike(ad, bd)
  <2> HIDE DEF bd
  <2> QED BY <1>4, <1>5 DEF Alike, Sent, KindOf, AnswerOf
<1> HIDE DEF bd
<1>7. AddsIn(mo, jb, nm, bd, bg, le, dr)
  BY <1>2, <1>3, <1>6, AlikeKeeps
<1> QED BY <1>7 DEF bd

\* The types of what a call was answered.
LEMMA SentTypes ==
  ASSUME NEW ad \in [Calls -> AddCall], \A c \in Calls : CallInStep(ad[c]), NEW e, Sent(ad, e)
  PROVE  /\ e \in NewIds /\ e[1] \in Calls /\ e[2] \in DOMAIN ad[e[1]].answers
         /\ AnswerOf(ad, e) \in AnswerType /\ AnswerOf(ad, e).at \in Nat /\ AnswerOf(ad, e).id \in Ids
<1>1. e \in NewIds /\ e[2] < ad[e[1]].at /\ e[1] \in Calls /\ e[2] \in 1 .. MaxItems
  BY DEF Sent, NewIds
<1>2. ad[e[1]].answers \in Seq(AnswerType) /\ ad[e[1]].at \in Nat \ {0} /\ Len(ad[e[1]].answers) = ad[e[1]].at - 1
  BY <1>1 DEF AddCall, CallInStep
<1>3. e[2] \in Nat /\ e[2] >= 1
  BY <1>1, QueueAddsAssumption
<1>4. e[2] \in DOMAIN ad[e[1]].answers
  BY <1>1, <1>2, <1>3
<1>5. AnswerOf(ad, e) \in AnswerType
  BY <1>2, <1>4 DEF AnswerOf
<1> QED BY <1>1, <1>4, <1>5 DEF AnswerType

\* Time passes.
LEMMA ClockKeeps ==
  ASSUME NEW mo, NEW jb, NEW nm, NEW ad, NEW bg, NEW le, NEW dr, AddsIn(mo, jb, nm, ad, bg, le, dr)
  PROVE  AddsIn(mo + 1, jb, nm, ad, bg, le, dr)
<1>1. mo \in Nat /\ ad \in [Calls -> AddCall] /\ \A c \in Calls : CallInStep(ad[c])
  BY DEF AddsIn, AddsTypes
<1>2. \A e \in NewIds : Sent(ad, e) => AnswerOf(ad, e).at \in Nat
  BY <1>1, SentTypes
<1>3. AddsTypes(mo + 1, jb, nm, ad, bg, le, dr)
  BY <1>1 DEF AddsIn, AddsTypes
<1>4. \A e \in NewIds : Sent(ad, e) => AnswerOf(ad, e).at <= mo + 1
  BY <1>1, <1>2 DEF AddsIn
<1>5. ASSUME NEW f, InTime(f, ad, mo) PROVE InTime(f, ad, mo + 1)
  <2> SUFFICES ASSUME NEW e \in NewIds, Sent(ad, e), KindOf(ad, e) = "debounced", f.data = e,
                      ~(f.state = "delayed" /\ f.runAt >= AnswerOf(ad, e).at + Wait)
               PROVE  mo + 1 >= AnswerOf(ad, e).at + Wait
    BY DEF InTime
  <2>1. mo >= AnswerOf(ad, e).at + Wait
    BY <1>5 DEF InTime
  <2>2. AnswerOf(ad, e).at \in Nat /\ Wait \in Nat
    BY <1>2, QueueAddsAssumption
  <2> QED BY <1>1, <2>1, <2>2
<1> QED BY <1>3, <1>4, <1>5 DEF AddsIn

\* A run is as known as it was when more are.
LEMMA MoreRuns ==
  ASSUME NEW bg, NEW bh, bg \subseteq bh, NEW f, JobFixed(f, bg)
  PROVE  JobFixed(f, bh)
<1>1. (\E ran \in bg : ran.data = f.data) => \E ran \in bh : ran.data = f.data
  OBVIOUS
<1> QED BY <1>1 DEF JobFixed

\* One job changes, and its data does not.
LEMMA JobKeeps ==
  ASSUME NEW mo, NEW jb, NEW nm, NEW ad, NEW bg, NEW le, NEW dr, AddsIn(mo, jb, nm, ad, bg, le, dr),
         NEW j \in Ids, jb[j] # NoJob, NEW f \in JobType, f.data = jb[j].data,
         NEW bh \in SUBSET [data : NewIds, at : Nat], bg \subseteq bh,
         JobFixed(f, bh), InTime(f, ad, mo), \A ran \in bh : RunInTime(ran, ad)
  PROVE  AddsIn(mo, [jb EXCEPT ![j] = f], nm, ad, bh, le, dr)
<1> DEFINE jc == [jb EXCEPT ![j] = f]
<1>1. jb \in [Ids -> {NoJob} \cup JobType]
  BY DEF AddsIn, AddsTypes
<1>2. jc \in [Ids -> {NoJob} \cup JobType]
  BY <1>1
<1>3. jc[j] = f /\ \A k \in Ids : k # j => jc[k] = jb[k]
  BY <1>1
<1>4. f # NoJob
  BY BatchesAssumption
<1> HIDE DEF jc
<1>5. AddsTypes(mo, jc, nm, ad, bh, le, dr)
  BY <1>2 DEF AddsIn, AddsTypes
<1>6. LastKept(jc, bh, le, dr)
  <2>1. LastKept(jb, bg, le, dr)
    BY DEF AddsIn
  <2>2. (\E k \in Ids : jb[k] # NoJob /\ jb[k].data = le) => \E k \in Ids : jc[k] # NoJob /\ jc[k].data = le
    BY <1>3, <1>4
  <2> QED BY <2>1, <2>2 DEF LastKept
<1>7. ASSUME NEW k \in Ids, jc[k] # NoJob
      PROVE  /\ Sent(ad, jc[k].data) /\ (k = GivenId \/ Sent(ad, k))
             /\ JobFixed(jc[k], bh) /\ InTime(jc[k], ad, mo)
  <2>1. CASE k = j
    <3>1. Sent(ad, jb[j].data) /\ (j = GivenId \/ Sent(ad, j))
      BY DEF AddsIn
    <3> QED BY <2>1, <3>1, <1>3
  <2>2. CASE k # j
    <3>1. jc[k] = jb[k]
      BY <2>2, <1>3
    <3>2. /\ Sent(ad, jb[k].data) /\ (k = GivenId \/ Sent(ad, k))
          /\ JobFixed(jb[k], bg) /\ InTime(jb[k], ad, mo)
      BY <1>7, <3>1 DEF AddsIn
    <3> QED BY <3>1, <3>2, MoreRuns
  <2> QED BY <2>1, <2>2
<1>8. AddsIn(mo, jc, nm, ad, bh, le, dr)
  BY <1>5, <1>6, <1>7 DEF AddsIn
<1> QED BY <1>8 DEF jc

\* One job is gone: it ran, or was dropped by hand.
LEMMA JobGone ==
  ASSUME NEW mo, NEW jb, NEW nm, NEW ad, NEW bg, NEW le, NEW dr, AddsIn(mo, jb, nm, ad, bg, le, dr),
         NEW j \in Ids, jb[j] # NoJob, NEW ds \in SUBSET NewIds, dr \subseteq ds,
         jb[j].data \in ds \/ \E ran \in bg : ran.data = jb[j].data
  PROVE  AddsIn(mo, [jb EXCEPT ![j] = NoJob], nm, ad, bg, le, ds)
<1> DEFINE jc == [jb EXCEPT ![j] = NoJob]
<1>1. jb \in [Ids -> {NoJob} \cup JobType]
  BY DEF AddsIn, AddsTypes
<1>2. jc \in [Ids -> {NoJob} \cup JobType]
  BY <1>1
<1>3. jc[j] = NoJob /\ \A k \in Ids : k # j => jc[k] = jb[k]
  BY <1>1
<1> HIDE DEF jc
<1>4. AddsTypes(mo, jc, nm, ad, bg, le, ds)
  BY <1>2 DEF AddsIn, AddsTypes
<1>5. LastKept(jc, bg, le, ds)
  <2>1. LastKept(jb, bg, le, dr)
    BY DEF AddsIn
  <2>2. ASSUME NEW k \in Ids, jb[k] # NoJob, jb[k].data = le
        PROVE  \/ le \in ds
               \/ \E i \in Ids : jc[i] # NoJob /\ jc[i].data = le
               \/ \E ran \in bg : ran.data = le
    BY <1>3, <2>2
  <2> QED BY <2>1, <2>2 DEF LastKept
<1>6. \A k \in Ids : jc[k] # NoJob => jc[k] = jb[k]
  BY <1>3
<1>7. \A k \in Ids : jc[k] # NoJob =>
         /\ Sent(ad, jc[k].data) /\ (k = GivenId \/ Sent(ad, k))
         /\ JobFixed(jc[k], bg) /\ InTime(jc[k], ad, mo)
  BY <1>6 DEF AddsIn
<1>8. AddsIn(mo, jc, nm, ad, bg, le, ds)
  BY <1>4, <1>5, <1>7 DEF AddsIn
<1> QED BY <1>8 DEF jc

\* Item e is answered with a.
Answers(ad, bd, e, a) ==
  /\ e \in NewIds /\ ~Sent(ad, e)
  /\ \A d : Sent(bd, d) <=> Sent(ad, d) \/ d = e
  /\ \A d \in NewIds : KindOf(bd, d) = KindOf(ad, d)
  /\ \A d \in NewIds : Sent(ad, d) => AnswerOf(bd, d) = AnswerOf(ad, d)
  /\ AnswerOf(bd, e) = a

\* The next item of a call is answered.
Grown(ad, bd, c, a) ==
  /\ \A b \in Calls \ {c} : bd[b] = ad[b]
  /\ bd[c].items = ad[c].items /\ bd[c].phase = ad[c].phase
  /\ bd[c].at = ad[c].at + 1 /\ bd[c].answers = Append(ad[c].answers, a)

\* What such an answer changes of the table.
LEMMA GrownAnswers ==
  ASSUME NEW ad \in [Calls -> AddCall], \A b \in Calls : CallInStep(ad[b]),
         NEW bd \in [Calls -> AddCall], NEW c \in Calls, NEW a \in AnswerType, Grown(ad, bd, c, a),
         ad[c].at <= Len(ad[c].items), ad[c].phase = "sending"
  PROVE  Answers(ad, bd, <<c, ad[c].at>>, a) /\ \A b \in Calls : CallInStep(bd[b])
<1> DEFINE e == <<c, ad[c].at>>
<1>1. PICK n \in Nat \ {0} : n = ad[c].at
  BY DEF AddCall
<1>2. PICK l \in Nat : l = Len(ad[c].items)
  BY DEF AddCall
<1>3. l <= MaxItems /\ n <= l /\ Len(ad[c].answers) = n - 1 /\ MaxItems \in Nat
  BY <1>1, <1>2, QueueAddsAssumption DEF CallInStep
<1>4. e \in NewIds
  BY <1>1, <1>3 DEF NewIds
<1>5. ad[c].answers \in Seq(AnswerType)
  BY DEF AddCall
<1>6. Len(bd[c].answers) = n /\ bd[c].answers[n] = a /\ \A i \in 1 .. n - 1 : bd[c].answers[i] = ad[c].answers[i]
  BY <1>1, <1>3, <1>5 DEF Grown
<1>7. bd[c].at = n + 1 /\ bd[c].items = ad[c].items /\ bd[c].phase = "sending"
  BY <1>1 DEF Grown
<1>8. CallInStep(bd[c])
  <2>1. \A i \in DOMAIN ad[c].items : ad[c].items[i] # "bad"
    BY DEF CallInStep
  <2>2. Len(bd[c].items) <= MaxItems /\ Len(bd[c].answers) = bd[c].at - 1 /\ bd[c].at <= Len(bd[c].items) + 1
    BY <1>1, <1>2, <1>3, <1>6, <1>7
  <2>3. bd[c].phase \notin {"new", "refused"}
    BY <1>7
  <2>4. \A i \in DOMAIN bd[c].items : bd[c].items[i] # "bad"
    BY <2>1, <1>7
  <2> QED BY <2>2, <2>3, <2>4 DEF CallInStep
<1>9. \A b \in Calls : CallInStep(bd[b])
  BY <1>8 DEF Grown
<1>10. \A d \in NewIds : d[1] \in Calls /\ d[2] \in 1 .. MaxItems /\ d = <<d[1], d[2]>>
  BY DEF NewIds
<1>11. ~Sent(ad, e)
  BY <1>1 DEF Sent
<1>12. ASSUME NEW d \in NewIds PROVE Sent(bd, d) <=> Sent(ad, d) \/ d = e
  <2>1. d[2] \in Nat /\ d[1] \in Calls
    BY <1>10, <1>3
  <2>2. CASE d[1] # c
    <3>1. bd[d[1]] = ad[d[1]]
      BY <2>1, <2>2 DEF Grown
    <3>2. d # e
      BY <2>2
    <3> QED BY <3>1, <3>2 DEF Sent
  <2>3. CASE d[1] = c
    <3>1. d = e <=> d[2] = n
      BY <2>3, <1>1, <1>10
    <3>2. Sent(bd, d) <=> d[2] < n + 1
      BY <2>3, <1>7 DEF Sent
    <3>3. Sent(ad, d) <=> d[2] < n
      BY <2>3, <1>1 DEF Sent
    <3> QED BY <2>1, <3>1, <3>2, <3>3
  <2> QED BY <2>2, <2>3
<1>13. \A d : Sent(bd, d) <=> Sent(ad, d) \/ d = e
  BY <1>12, <1>4 DEF Sent
<1>14. \A d \in NewIds : KindOf(bd, d) = KindOf(ad, d)
  BY <1>7, <1>10 DEF Grown, KindOf
<1>15. ASSUME NEW d \in NewIds, Sent(ad, d) PROVE AnswerOf(bd, d) = AnswerOf(ad, d)
  <2>1. CASE d[1] # c
    BY <2>1, <1>10 DEF Grown, AnswerOf
  <2>2. CASE d[1] = c
    <3>1. d[2] < n
      BY <2>2, <1>1, <1>15 DEF Sent
    <3>2. d[2] \in 1 .. n - 1
      BY <3>1, <1>10, <1>3
    <3> QED BY <2>2, <3>2, <1>6 DEF AnswerOf
  <2> QED BY <2>1, <2>2
<1>16. AnswerOf(bd, e) = a
  BY <1>1, <1>6 DEF AnswerOf
<1> QED BY <1>4, <1>9, <1>11, <1>13, <1>14, <1>15, <1>16 DEF Answers

\* An answer that opens no window, and closes none.
LEMMA OthersWindows ==
  ASSUME NEW ad, NEW bd, NEW e, NEW a, Answers(ad, bd, e, a), KindOf(ad, e) # "throttled",
         NEW nm, NEW nn, Windows(ad, nm), nn[ThrottleKey] = nm[ThrottleKey]
  PROVE  Windows(bd, nn)
<1>1. \A d \in NewIds : Sent(bd, d) /\ KindOf(bd, d) = "throttled" <=> Sent(ad, d) /\ KindOf(ad, d) = "throttled"
  BY DEF Answers
<1>2. \A d \in NewIds : Sent(ad, d) => AnswerOf(bd, d) = AnswerOf(ad, d)
  BY DEF Answers
<1>3. Let(bd) = Let(ad)
  BY <1>1, <1>2 DEF Let
<1>4. \A d \in Let(ad) : d \in NewIds /\ Sent(ad, d) /\ AnswerOf(bd, d) = AnswerOf(ad, d)
  BY <1>2 DEF Let
<1>5. \A d, f \in NewIds : Sent(ad, d) /\ Sent(ad, f) => (Near(bd, d, f) <=> Near(ad, d, f))
  BY <1>2 DEF Near
<1>6. Apart(bd)
  BY <1>3, <1>4, <1>5 DEF Windows, Apart
<1>7. Collapsed(bd)
  BY <1>1, <1>2, <1>3, <1>4, <1>5 DEF Windows, Collapsed
<1>8. ASSUME NEW key, KeyIsLet(ad, key) PROVE KeyIsLet(bd, key)
  BY <1>3, <1>4, <1>8 DEF KeyIsLet
<1>9. ASSUME NEW key, KeyLasts(ad, key) PROVE KeyLasts(bd, key)
  BY <1>3, <1>4, <1>9 DEF KeyLasts
<1> QED BY <1>6, <1>7, <1>8, <1>9 DEF Windows

\* A throttled add that finds its window open joins the job of the window.
LEMMA JoinsWindow ==
  ASSUME NEW ad, NEW bd, NEW e, NEW a, Answers(ad, bd, e, a), a.deduplicated,
         NEW nm, Windows(ad, nm),
         NEW w \in Let(ad), AnswerOf(ad, w).id = a.id,
         AnswerOf(ad, w).at <= a.at, a.at < AnswerOf(ad, w).at + Window
  PROVE  Windows(bd, nm)
<1>1. \A d \in NewIds : KindOf(bd, d) = KindOf(ad, d) /\ (Sent(bd, d) <=> Sent(ad, d) \/ d = e)
  BY DEF Answers
<1>2. \A d \in NewIds : Sent(ad, d) => AnswerOf(bd, d) = AnswerOf(ad, d)
  BY DEF Answers
<1>3. AnswerOf(bd, e) = a /\ e \in NewIds /\ ~Sent(ad, e)
  BY DEF Answers
<1>4. Let(bd) = Let(ad)
  BY <1>1, <1>2, <1>3 DEF Let
<1>5. \A d \in Let(ad) : d \in NewIds /\ Sent(ad, d) /\ AnswerOf(bd, d) = AnswerOf(ad, d)
  BY <1>2 DEF Let
<1>6. \A d, f \in NewIds : Sent(ad, d) /\ Sent(ad, f) => (Near(bd, d, f) <=> Near(ad, d, f))
  BY <1>2 DEF Near
<1>7. Apart(bd)
  BY <1>4, <1>5, <1>6 DEF Windows, Apart
<1>8. Collapsed(bd)
  <2> SUFFICES ASSUME NEW f \in NewIds, Sent(bd, f), KindOf(bd, f) = "throttled", AnswerOf(bd, f).deduplicated
               PROVE  \E d \in Let(bd) : AnswerOf(bd, d).id = AnswerOf(bd, f).id /\ Near(bd, d, f)
    BY DEF Collapsed
  <2>1. CASE f = e
    <3>1. AnswerOf(bd, w) = AnswerOf(ad, w) /\ AnswerOf(bd, f) = a
      BY <2>1, <1>3, <1>5
    <3>2. Near(bd, w, f)
      BY <3>1 DEF Near
    <3> QED BY <3>1, <3>2, <1>4
  <2>2. CASE f # e
    <3>1. Sent(ad, f) /\ KindOf(ad, f) = "throttled" /\ AnswerOf(bd, f) = AnswerOf(ad, f)
      BY <2>2, <1>1, <1>2
    <3>2. PICK d \in Let(ad) : AnswerOf(ad, d).id = AnswerOf(ad, f).id /\ Near(ad, d, f)
      BY <3>1 DEF Windows, Collapsed
    <3> QED BY <3>1, <3>2, <1>4, <1>5, <1>6
  <2> QED BY <2>1, <2>2
<1>9. ASSUME NEW key, KeyIsLet(ad, key) PROVE KeyIsLet(bd, key)
  BY <1>4, <1>5, <1>9 DEF KeyIsLet
<1>10. ASSUME NEW key, KeyLasts(ad, key) PROVE KeyLasts(bd, key)
  BY <1>4, <1>5, <1>10 DEF KeyLasts
<1> QED BY <1>7, <1>8, <1>9, <1>10 DEF Windows

\* One that finds none opens a window.
LEMMA OpensWindow ==
  ASSUME NEW ad \in [Calls -> AddCall], \A b \in Calls : CallInStep(ad[b]),
         NEW bd, NEW e, NEW a \in AnswerType, Answers(ad, bd, e, a),
         KindOf(ad, e) = "throttled", ~a.deduplicated,
         \A d \in NewIds : Sent(ad, d) => AnswerOf(ad, d).at <= a.at,
         NEW nm, NEW nn, Windows(ad, nm), nn[ThrottleKey] = [id |-> a.id, until |-> a.at + Window],
         \A d \in Let(ad) : AnswerOf(ad, d).at + Window <= a.at
  PROVE  Windows(bd, nn)
<1>1. \A d \in NewIds : KindOf(bd, d) = KindOf(ad, d) /\ (Sent(bd, d) <=> Sent(ad, d) \/ d = e)
  BY DEF Answers
<1>2. \A d \in NewIds : Sent(ad, d) => AnswerOf(bd, d) = AnswerOf(ad, d)
  BY DEF Answers
<1>3. AnswerOf(bd, e) = a /\ e \in NewIds /\ ~Sent(ad, e)
  BY DEF Answers
<1>4. Let(bd) = Let(ad) \cup {e} /\ e \notin Let(ad)
  BY <1>1, <1>2, <1>3 DEF Let
<1>5. \A d \in Let(ad) : d \in NewIds /\ Sent(ad, d) /\ AnswerOf(bd, d) = AnswerOf(ad, d)
  BY <1>2 DEF Let
<1>6. \A d, f \in NewIds : Sent(ad, d) /\ Sent(ad, f) => (Near(bd, d, f) <=> Near(ad, d, f))
  BY <1>2 DEF Near
<1>7. PICK t \in Nat : t = a.at
  BY DEF AnswerType
<1>8. PICK w \in Nat \ {0} : w = Window
  BY QueueAddsAssumption
<1>9. ASSUME NEW d \in Let(ad) PROVE ~Near(bd, d, e) /\ ~Near(bd, e, d)
  <2>1. PICK s \in Nat : s = AnswerOf(ad, d).at
    BY <1>5, SentTypes
  <2>2. s + w <= t
    BY <2>1, <1>7, <1>8
  <2>3. AnswerOf(bd, d).at = s /\ AnswerOf(bd, e).at = t
    BY <2>1, <1>3, <1>5, <1>7
  <2> QED BY <2>2, <2>3, <1>8 DEF Near
<1>10. Apart(bd)
  <2> SUFFICES ASSUME NEW d \in Let(bd), NEW f \in Let(bd), d # f PROVE ~Near(bd, d, f)
    BY DEF Apart
  <2>1. CASE d = e \/ f = e
    BY <2>1, <1>4, <1>9
  <2>2. CASE d # e /\ f # e
    <3>1. d \in Let(ad) /\ f \in Let(ad)
      BY <2>2, <1>4
    <3> QED BY <3>1, <1>5, <1>6 DEF Windows, Apart
  <2> QED BY <2>1, <2>2
<1>11. Collapsed(bd)
  <2> SUFFICES ASSUME NEW f \in NewIds, Sent(bd, f), KindOf(bd, f) = "throttled", AnswerOf(bd, f).deduplicated
               PROVE  \E d \in Let(bd) : AnswerOf(bd, d).id = AnswerOf(bd, f).id /\ Near(bd, d, f)
    BY DEF Collapsed
  <2>1. f # e
    BY <1>3
  <2>2. Sent(ad, f) /\ KindOf(ad, f) = "throttled" /\ AnswerOf(bd, f) = AnswerOf(ad, f)
    BY <2>1, <1>1, <1>2
  <2>3. PICK d \in Let(ad) : AnswerOf(ad, d).id = AnswerOf(ad, f).id /\ Near(ad, d, f)
    BY <2>2 DEF Windows, Collapsed
  <2> QED BY <2>2, <2>3, <1>4, <1>5, <1>6
<1>12. KeyIsLet(bd, nn[ThrottleKey])
  BY <1>3, <1>4 DEF KeyIsLet
<1>13. nn[ThrottleKey] # NoKey
  <2>1. a.id # NoJob
    BY BatchesAssumption DEF AnswerType
  <2> QED BY <2>1 DEF NoKey
<1>14. KeyLasts(bd, nn[ThrottleKey])
  <2> SUFFICES ASSUME NEW d \in Let(bd) PROVE AnswerOf(bd, d).at + Window <= a.at + Window
    BY <1>13 DEF KeyLasts
  <2>1. CASE d = e
    BY <2>1, <1>3, <1>7, <1>8
  <2>2. CASE d # e
    <3>1. d \in Let(ad)
      BY <2>2, <1>4
    <3>2. PICK s \in Nat : s = AnswerOf(ad, d).at
      BY <3>1, <1>5, SentTypes
    <3>3. s <= t /\ AnswerOf(bd, d).at = s
      BY <3>1, <3>2, <1>5, <1>7
    <3> QED BY <3>3, <1>7, <1>8
  <2> QED BY <2>1, <2>2
<1> QED BY <1>10, <1>11, <1>12, <1>14 DEF Windows

\* What an item makes of the store, its answer given.
LEMMA StoreGrows ==
  ASSUME NEW mo, NEW jb, NEW nm, NEW ad, NEW bg, NEW le, NEW dr, AddsIn(mo, jb, nm, ad, bg, le, dr),
         NEW bd \in [Calls -> AddCall], \A b \in Calls : CallInStep(bd[b]),
         NEW e, NEW a \in AnswerType, Answers(ad, bd, e, a), a.at = mo,
         NEW nn \in [Keys -> KeyType], Windows(bd, nn),
         NEW jc \in [Ids -> {NoJob} \cup JobType],
         \A j \in Ids : \/ jc[j] = jb[j]
                        \/ /\ jc[j] # NoJob /\ jc[j].data = e /\ (j = GivenId \/ Sent(bd, j))
                           /\ JobFixed(jc[j], bg) /\ InTime(jc[j], bd, mo),
         NEW lf \in NewIds \cup {NotYet}, LastKept(jc, bg, lf, dr)
  PROVE  AddsIn(mo, jc, nn, bd, bg, lf, dr)
<1>1. AddsTypes(mo, jb, nm, ad, bg, le, dr)
  BY DEF AddsIn
<1>2. AddsTypes(mo, jc, nn, bd, bg, lf, dr)
  BY <1>1 DEF AddsTypes
<1>3. mo \in Nat
  BY <1>1 DEF AddsTypes
<1>4. \A d : Sent(bd, d) <=> Sent(ad, d) \/ d = e
  BY DEF Answers
<1>5. \A d \in NewIds : KindOf(bd, d) = KindOf(ad, d)
  BY DEF Answers
<1>6. \A d \in NewIds : Sent(ad, d) => AnswerOf(bd, d) = AnswerOf(ad, d)
  BY DEF Answers
<1>7. AnswerOf(bd, e) = a /\ ~Sent(ad, e)
  BY DEF Answers
<1>8. \A d \in NewIds : Sent(bd, d) => AnswerOf(bd, d).at <= mo
  <2>1. \A d \in NewIds : Sent(ad, d) => AnswerOf(ad, d).at <= mo
    BY DEF AddsIn
  <2>2. a.at <= mo
    BY <1>3
  <2> QED BY <2>1, <2>2, <1>4, <1>6, <1>7
<1>9. ASSUME NEW f, Sent(ad, f.data), InTime(f, ad, mo) PROVE InTime(f, bd, mo)
  <2> SUFFICES ASSUME NEW d \in NewIds, Sent(bd, d), KindOf(bd, d) = "debounced", f.data = d
               PROVE  LET due == AnswerOf(bd, d).at + Wait IN mo >= due \/ (f.state = "delayed" /\ f.runAt >= due)
    BY DEF InTime
  <2>1. Sent(ad, d) /\ KindOf(ad, d) = "debounced" /\ AnswerOf(bd, d) = AnswerOf(ad, d)
    BY <1>4, <1>5, <1>6, <1>9, <1>7
  <2> QED BY <2>1, <1>9 DEF InTime
<1>10. ASSUME NEW j \in Ids, jc[j] # NoJob
       PROVE  /\ Sent(bd, jc[j].data) /\ (j = GivenId \/ Sent(bd, j))
              /\ JobFixed(jc[j], bg) /\ InTime(jc[j], bd, mo)
  <2>1. CASE jc[j] = jb[j]
    <3>1. /\ Sent(ad, jb[j].data) /\ (j = GivenId \/ Sent(ad, j))
          /\ JobFixed(jb[j], bg) /\ InTime(jb[j], ad, mo)
      BY <2>1, <1>10 DEF AddsIn
    <3>2. InTime(jb[j], bd, mo)
      BY <3>1, <1>9
    <3> QED BY <2>1, <3>1, <3>2, <1>4
  <2>2. CASE jc[j] # jb[j]
    BY <2>2, <1>4
  <2> QED BY <2>1, <2>2
<1>11. ASSUME NEW ran \in bg PROVE RunInTime(ran, bd)
  <2>1. RunInTime(ran, ad)
    BY DEF AddsIn
  <2>2. Sent(ad, ran.data) /\ ran.data \in NewIds
    BY <2>1 DEF RunInTime, Sent
  <2> QED BY <2>1, <2>2, <1>4, <1>5, <1>6 DEF RunInTime
<1> QED BY <1>2, <1>8, <1>10, <1>11 DEF AddsIn

\* What the items of a chunk leave to the next.
ChunkState ==
  [job : [Ids -> {NoJob} \cup JobType], named : [Keys -> KeyType], lastEdit : NewIds \cup {NotYet},
   answers : Seq(AnswerType)]

\* The calls, when the items of c before m are answered.
Upto(c, m, s) == [adder EXCEPT ![c].at = m, ![c].answers = s.answers]

Added(c, m, s) ==
  s \in ChunkState /\ AddsIn(moment, s.job, s.named, Upto(c, m, s), begun, s.lastEdit, dropped)

ChunkAt(c, m) ==
  /\ adder \in [Calls -> AddCall] /\ c \in Calls /\ adder[c].phase = "sending"
  /\ m \in 1 .. Len(adder[c].items)

\* The next item of a chunk gets its answer.
LEMMA NextItem ==
  ASSUME NEW c, NEW m, ChunkAt(c, m), NEW s, Added(c, m, s), NEW a \in AnswerType,
         NEW t \in ChunkState, t.answers = Append(s.answers, a)
  PROVE  /\ Answers(Upto(c, m, s), Upto(c, m + 1, t), <<c, m>>, a)
         /\ Upto(c, m, s) \in [Calls -> AddCall] /\ Upto(c, m + 1, t) \in [Calls -> AddCall]
         /\ \A b \in Calls : CallInStep(Upto(c, m, s)[b]) /\ CallInStep(Upto(c, m + 1, t)[b])
         /\ KindOf(Upto(c, m, s), <<c, m>>) = adder[c].items[m]
<1> DEFINE ad == Upto(c, m, s)
           bd == Upto(c, m + 1, t)
<1>1. adder \in [Calls -> AddCall] /\ c \in Calls /\ adder[c].phase = "sending"
  BY DEF ChunkAt
<1>2. m \in Nat \ {0} /\ m <= Len(adder[c].items)
  <2>1. Len(adder[c].items) \in Nat /\ m \in 1 .. Len(adder[c].items)
    BY <1>1 DEF ChunkAt, AddCall
  <2> QED BY <2>1
<1>3. s.answers \in Seq(AnswerType) /\ t.answers \in Seq(AnswerType)
  BY DEF Added, ChunkState
<1>4. ad \in [Calls -> AddCall] /\ bd \in [Calls -> AddCall]
  <2>1. ASSUME NEW n \in Nat \ {0}, NEW as \in Seq(AnswerType)
        PROVE  [adder EXCEPT ![c].at = n, ![c].answers = as] \in [Calls -> AddCall]
    BY <1>1 DEF AddCall
  <2>2. m + 1 \in Nat \ {0}
    BY <1>2
  <2> QED BY <2>1, <2>2, <1>2, <1>3 DEF Upto
<1>5. /\ ad[c].items = adder[c].items /\ ad[c].phase = "sending" /\ ad[c].at = m /\ ad[c].answers = s.answers
      /\ bd[c].items = adder[c].items /\ bd[c].phase = "sending" /\ bd[c].at = m + 1 /\ bd[c].answers = t.answers
      /\ \A b \in Calls \ {c} : bd[b] = ad[b]
  BY <1>1 DEF Upto, AddCall
<1>6. \A b \in Calls : CallInStep(ad[b])
  BY DEF Added, AddsIn
<1> HIDE DEF ad, bd
<1>7. Grown(ad, bd, c, a)
  BY <1>5 DEF Grown
<1>8. Answers(ad, bd, <<c, m>>, a) /\ \A b \in Calls : CallInStep(bd[b])
  BY <1>1, <1>2, <1>4, <1>5, <1>6, <1>7, GrownAnswers
<1>9. KindOf(ad, <<c, m>>) = adder[c].items[m]
  BY <1>5 DEF KindOf
<1> QED BY <1>4, <1>6, <1>8, <1>9 DEF ad, bd

\* The answer of an item that adds no job, and of one that does.
JoinsAt(j) == Answer(j, TRUE)
AddsAt(j) == Answer(j, FALSE)

\* The outcomes of an item: the job its key holds is edited, or answered; or a
\* job is added.
Joins(s, j) == [s EXCEPT !.answers = Append(@, JoinsAt(j))]

Edits(s, e, j, until) ==
  [s EXCEPT !.job[j] = [@ EXCEPT !.data = e, !.state = "delayed", !.runAt = moment + Wait],
            !.named = [s.named EXCEPT ![DebounceKey] = [id |-> j, until |-> until]],
            !.lastEdit = e, !.answers = Append(@, JoinsAt(j))]

AddsNew(s, e, j, kind, nm, le) ==
  [s EXCEPT !.job[j] = NewJob(e, Delay(kind)), !.named = nm, !.lastEdit = le,
            !.answers = Append(@, AddsAt(j))]

Points(nm, k, j, until) == [nm EXCEPT ![k] = [id |-> j, until |-> until]]

\* Which outcome an item has (scripts/add.ts).
LEMMA AddOneIs ==
  ASSUME NEW s, NEW c, NEW m, NEW kind, kind = adder[c].items[m], NEW k, k = KeyOf(kind),
         NEW h, h = HeldBy(s.named, k), NEW until, until = moment + Ttl(kind)
  PROVE  /\ kind = "debounced" /\ k = DebounceKey /\ StillWaits(s.job, h) =>
              AddOne(s, c, m) = Edits(s, <<c, m>>, h, until)
         /\ kind = "throttled" /\ h # NoJob => AddOne(s, c, m) = Joins(s, h)
         /\ kind = "named" /\ s.job[GivenId] # NoJob => AddOne(s, c, m) = Joins(s, GivenId)
         /\ kind = "named" /\ s.job[GivenId] = NoJob =>
              AddOne(s, c, m) = AddsNew(s, <<c, m>>, GivenId, kind, s.named, s.lastEdit)
         /\ kind = "debounced" /\ ~StillWaits(s.job, h) /\ s.job[<<c, m>>] = NoJob =>
              AddOne(s, c, m) = AddsNew(s, <<c, m>>, <<c, m>>, kind, Points(s.named, k, <<c, m>>, until), <<c, m>>)
         /\ kind = "throttled" /\ h = NoJob /\ s.job[<<c, m>>] = NoJob =>
              AddOne(s, c, m) = AddsNew(s, <<c, m>>, <<c, m>>, kind, Points(s.named, k, <<c, m>>, until), s.lastEdit)
<1>1. KeyOf(adder[c].items[m]) = k
  OBVIOUS
<1> QED BY <1>1 DEF AddOne, IdOf, JoinsAt, AddsAt, Joins, Edits, AddsNew, Points

\* What is known before an item.
LEMMA BeforeItem ==
  ASSUME NEW c, NEW m, ChunkAt(c, m), NEW s, Added(c, m, s)
  PROVE  /\ s = [job |-> s.job, named |-> s.named, lastEdit |-> s.lastEdit, answers |-> s.answers]
         /\ s.job \in [Ids -> {NoJob} \cup JobType] /\ s.named \in [Keys -> KeyType]
         /\ s.lastEdit \in NewIds \cup {NotYet} /\ s.answers \in Seq(AnswerType)
         /\ moment \in Nat /\ <<c, m>> \in NewIds
         /\ adder[c].items[m] \in {"named", "debounced", "throttled"}
         /\ s.job[<<c, m>>] = NoJob /\ KindOf(Upto(c, m, s), <<c, m>>) = adder[c].items[m]
         /\ \A d \in NewIds : Sent(Upto(c, m, s), d) => AnswerOf(Upto(c, m, s), d).at <= moment
         /\ LastKept(s.job, begun, s.lastEdit, dropped)
<1> DEFINE ad == Upto(c, m, s)
<1>1. adder \in [Calls -> AddCall] /\ c \in Calls /\ adder[c].phase = "sending" /\ m \in 1 .. Len(adder[c].items)
  BY DEF ChunkAt
<1>2. AddsIn(moment, s.job, s.named, ad, begun, s.lastEdit, dropped)
  BY DEF Added
<1>3. s \in ChunkState
  BY DEF Added
<1>4. ad[c].items = adder[c].items /\ ad[c].at = m /\ ad[c].phase = "sending"
  BY <1>1 DEF Upto, AddCall
<1> HIDE DEF ad
<1>5. CallInStep(ad[c])
  BY <1>1, <1>2 DEF AddsIn
<1>6. adder[c].items \in Seq(Kinds) /\ m \in DOMAIN adder[c].items
  BY <1>1 DEF AddCall
<1>7. adder[c].items[m] \in Kinds /\ adder[c].items[m] # "bad"
  BY <1>4, <1>5, <1>6 DEF CallInStep
<1>8. <<c, m>> \in NewIds
  <2>1. Len(adder[c].items) <= MaxItems
    BY <1>4, <1>5 DEF CallInStep
  <2>2. PICK l \in Nat : l = Len(adder[c].items)
    BY <1>6
  <2> QED BY <1>1, <2>1, <2>2, QueueAddsAssumption DEF NewIds
<1>9. s.job[<<c, m>>] = NoJob
  <2>1. <<c, m>> \in Ids /\ <<c, m>> # GivenId
    BY <1>8, BatchesAssumption DEF Ids
  <2>2. ~Sent(ad, <<c, m>>)
    <3>1. m \in Nat
      BY <1>6
    <3> QED BY <3>1, <1>4 DEF Sent
  <2> QED BY <2>1, <2>2, <1>2 DEF AddsIn
<1>10. moment \in Nat /\ LastKept(s.job, begun, s.lastEdit, dropped)
  BY <1>2 DEF AddsIn, AddsTypes
<1>11. \A d \in NewIds : Sent(ad, d) => AnswerOf(ad, d).at <= moment
  BY <1>2 DEF AddsIn
<1>12. KindOf(ad, <<c, m>>) = adder[c].items[m]
  BY <1>4 DEF KindOf
<1> QED BY <1>3, <1>7, <1>8, <1>9, <1>10, <1>11, <1>12 DEF ChunkState, Kinds, ad

\* One outcome of an item.
LEMMA OutcomeKeeps ==
  ASSUME NEW c, NEW m, ChunkAt(c, m), NEW s, Added(c, m, s),
         NEW jc \in [Ids -> {NoJob} \cup JobType], NEW nn \in [Keys -> KeyType],
         NEW lf \in NewIds \cup {NotYet}, NEW a \in AnswerType, a.at = moment,
         NEW t, t = [job |-> jc, named |-> nn, lastEdit |-> lf, answers |-> Append(s.answers, a)],
         \A bd : Answers(Upto(c, m, s), bd, <<c, m>>, a) => Windows(bd, nn),
         \A bd, j : Answers(Upto(c, m, s), bd, <<c, m>>, a) /\ j \in Ids =>
             \/ jc[j] = s.job[j]
             \/ /\ jc[j] # NoJob /\ jc[j].data = <<c, m>> /\ (j = GivenId \/ Sent(bd, j))
                /\ JobFixed(jc[j], begun) /\ InTime(jc[j], bd, moment),
         LastKept(jc, begun, lf, dropped)
  PROVE  Added(c, m + 1, t)
<1> DEFINE ad == Upto(c, m, s)
           bd == Upto(c, m + 1, t)
<1>1. s.answers \in Seq(AnswerType)
  BY BeforeItem
<1>2. t \in ChunkState /\ t.job = jc /\ t.named = nn /\ t.lastEdit = lf /\ t.answers = Append(s.answers, a)
  <2>1. Append(s.answers, a) \in Seq(AnswerType)
    BY <1>1
  <2> QED BY <2>1 DEF ChunkState
<1>3. /\ Answers(ad, bd, <<c, m>>, a) /\ bd \in [Calls -> AddCall]
      /\ \A b \in Calls : CallInStep(bd[b])
  BY <1>2, NextItem
<1>4. AddsIn(moment, s.job, s.named, ad, begun, s.lastEdit, dropped)
  BY DEF Added
<1> HIDE DEF ad, bd
<1>5. Windows(bd, nn)
  BY <1>3 DEF ad
<1>6. \A j \in Ids : \/ jc[j] = s.job[j]
                     \/ /\ jc[j] # NoJob /\ jc[j].data = <<c, m>> /\ (j = GivenId \/ Sent(bd, j))
                        /\ JobFixed(jc[j], begun) /\ InTime(jc[j], bd, moment)
  BY <1>3 DEF ad
<1>7. AddsIn(moment, jc, nn, bd, begun, lf, dropped)
  BY <1>3, <1>4, <1>5, <1>6, StoreGrows
<1> QED BY <1>2, <1>7 DEF Added, bd

\* What an answer says.
LEMMA AnswerIs ==
  ASSUME NEW j \in Ids, moment \in Nat
  PROVE  /\ JoinsAt(j) \in AnswerType /\ JoinsAt(j).at = moment /\ JoinsAt(j).id = j /\ JoinsAt(j).deduplicated
         /\ AddsAt(j) \in AnswerType /\ AddsAt(j).at = moment /\ AddsAt(j).id = j /\ ~AddsAt(j).deduplicated
<1>1. /\ JoinsAt(j) = [id |-> j, deduplicated |-> TRUE, at |-> moment]
      /\ AddsAt(j) = [id |-> j, deduplicated |-> FALSE, at |-> moment]
  BY DEF JoinsAt, AddsAt, Answer
<1> QED BY <1>1 DEF AnswerType

\* The keys are two, and what a key holds is a job.
LEMMA KeysHold ==
  ASSUME NEW nm \in [Keys -> KeyType], NEW k \in Keys, HeldBy(nm, k) # NoJob
  PROVE  HeldBy(nm, k) \in Ids /\ HeldBy(nm, k) = nm[k].id /\ nm[k] # NoKey /\ moment < nm[k].until
BY DEF HeldBy, KeyType

\* A key is pointed at a job, and the others stay.
LEMMA KeySet ==
  ASSUME NEW nm \in [Keys -> KeyType], NEW k \in Keys, NEW j \in Ids, NEW n \in Nat
  PROVE  /\ [nm EXCEPT ![k] = [id |-> j, until |-> n]] \in [Keys -> KeyType]
         /\ [nm EXCEPT ![k] = [id |-> j, until |-> n]][k] = [id |-> j, until |-> n]
         /\ \A i \in Keys \ {k} : [nm EXCEPT ![k] = [id |-> j, until |-> n]][i] = nm[i]
BY DEF KeyType

\* An item that is answered only.
LEMMA OnlyAnswered ==
  ASSUME NEW c, NEW m, ChunkAt(c, m), NEW s, Added(c, m, s), NEW j \in Ids,
         \A bd : Answers(Upto(c, m, s), bd, <<c, m>>, JoinsAt(j)) => Windows(bd, s.named)
  PROVE  Added(c, m + 1, Joins(s, j))
<1> DEFINE t == Joins(s, j)
<1>1. PICK a : a = JoinsAt(j)
  OBVIOUS
<1>2. a \in AnswerType /\ a.at = moment
  BY BeforeItem, <1>1, AnswerIs
<1>3. t = [job |-> s.job, named |-> s.named, lastEdit |-> s.lastEdit, answers |-> Append(s.answers, a)]
  <2>1. s = [job |-> s.job, named |-> s.named, lastEdit |-> s.lastEdit, answers |-> s.answers]
    BY BeforeItem
  <2>2. t = [s EXCEPT !.answers = Append(s.answers, a)]
    BY <1>1 DEF Joins
  <2> HIDE DEF t
  <2>3. s \in [job : {s.job}, named : {s.named}, lastEdit : {s.lastEdit}, answers : {s.answers}]
    BY <2>1
  <2> QED BY <2>2, <2>3
<1>4. /\ s.job \in [Ids -> {NoJob} \cup JobType] /\ s.named \in [Keys -> KeyType]
      /\ s.lastEdit \in NewIds \cup {NotYet} /\ LastKept(s.job, begun, s.lastEdit, dropped)
  BY BeforeItem
<1> HIDE DEF t
<1>5. \A bd : Answers(Upto(c, m, s), bd, <<c, m>>, a) => Windows(bd, s.named)
  BY <1>1
<1>6. Added(c, m + 1, t)
  BY <1>2, <1>3, <1>4, <1>5, OutcomeKeeps
<1> QED BY <1>6 DEF t

\* A job that waits for its first run.
NotBegun(f) == f.first = NotYet /\ f.started = FALSE /\ f.state \in {"waiting", "delayed"}

\* Nothing was given to a handler of a job that has not begun.
LEMMA FreshIsFixed ==
  ASSUME NEW f, NEW bg, NotBegun(f)
  PROVE  JobFixed(f, bg)
BY DEF NotBegun, JobFixed

\* A job that still waits by its hash has not begun: one put back by hand does
\* not count.
LEMMA WaitingIsFresh ==
  ASSUME NEW f \in JobType, NEW bg, JobFixed(f, bg), f.attempt = 0, ~f.retried, f.state \in {"waiting", "delayed"}
  PROVE  NotBegun(f)
<1>1. f.first = NotYet
  <2>1. ~(f.attempt >= 1) /\ ~(f.attempt >= 2)
    OBVIOUS
  <2> QED BY <2>1 DEF JobFixed
<1>2. f.started \in BOOLEAN /\ ~f.started
  BY <1>1 DEF JobFixed, JobType
<1> QED BY <1>1, <1>2 DEF NotBegun

\* A job with the data of an item is delayed by its wait if the item is debounced.
LEMMA NewInTime ==
  ASSUME NEW ad, NEW bd, NEW e, NEW a \in AnswerType, Answers(ad, bd, e, a), NEW mo \in Nat, a.at = mo,
         NEW f, f.data = e,
         KindOf(ad, e) = "debounced" => f.state = "delayed" /\ f.runAt = mo + Wait
  PROVE  InTime(f, bd, mo)
<1> SUFFICES ASSUME NEW d \in NewIds, KindOf(bd, d) = "debounced", f.data = d
             PROVE  LET due == AnswerOf(bd, d).at + Wait IN mo >= due \/ (f.state = "delayed" /\ f.runAt >= due)
  BY DEF InTime
<1>1. d = e /\ KindOf(ad, e) = "debounced" /\ AnswerOf(bd, d).at = mo
  BY DEF Answers
<1>2. f.state = "delayed" /\ f.runAt = mo + Wait
  BY <1>1
<1>3. mo + Wait >= mo + Wait
  BY QueueAddsAssumption
<1> QED BY <1>1, <1>2, <1>3

\* A debounced add edits the job that waits under its key.
LEMMA EditKeeps ==
  ASSUME NEW c, NEW m, ChunkAt(c, m), NEW s, Added(c, m, s), adder[c].items[m] = "debounced",
         NEW h, h = HeldBy(s.named, DebounceKey), StillWaits(s.job, h),
         NEW u \in Nat, NEW t, t = Edits(s, <<c, m>>, h, u)
  PROVE  Added(c, m + 1, t)
<1>1. PICK e : e = <<c, m>>
  OBVIOUS
<1>2. PICK f0 : f0 = s.job[h]
  OBVIOUS
<1>3. /\ s.job \in [Ids -> {NoJob} \cup JobType] /\ s.named \in [Keys -> KeyType] /\ moment \in Nat
      /\ e \in NewIds
  BY <1>1, BeforeItem
<1>4. h # NoJob /\ f0 # NoJob /\ f0.attempt = 0 /\ ~f0.retried /\ f0.state \in {"waiting", "delayed"}
  BY <1>2 DEF StillWaits
<1>5. DebounceKey \in Keys /\ ThrottleKey \in Keys /\ DebounceKey # ThrottleKey
  BY QueueAddsAssumption DEF Keys
<1>6. h \in Ids
  BY <1>3, <1>4, <1>5, KeysHold
<1>7. f0 \in JobType /\ JobFixed(f0, begun)
  <2>1. JobFixed(s.job[h], begun)
    BY <1>2, <1>4, <1>6 DEF Added, AddsIn
  <2> QED BY <2>1, <1>2, <1>3, <1>4, <1>6
<1>8. NotBegun(f0)
  BY <1>4, <1>7, WaitingIsFresh
<1>9. PICK due \in Nat : due = moment + Wait
  BY <1>3, QueueAddsAssumption
<1>10. PICK f : f = [f0 EXCEPT !.data = e, !.state = "delayed", !.runAt = due]
  OBVIOUS
<1>11. f \in JobType /\ f.data = e /\ f.state = "delayed" /\ f.runAt = due /\ f.first = f0.first /\ f.started = f0.started
  BY <1>3, <1>7, <1>10 DEF JobType
<1>12. f # NoJob /\ JobFixed(f, begun)
  BY <1>8, <1>11, BatchesAssumption, FreshIsFixed DEF NotBegun
<1>13. PICK a : a = JoinsAt(h)
  OBVIOUS
<1>14. a \in AnswerType /\ a.at = moment
  BY <1>3, <1>6, <1>13, AnswerIs
<1>15. PICK jc : jc = [s.job EXCEPT ![h] = f]
  OBVIOUS
<1>16. PICK nn : nn = [s.named EXCEPT ![DebounceKey] = [id |-> h, until |-> u]]
  OBVIOUS
<1>17. nn \in [Keys -> KeyType] /\ nn[ThrottleKey] = s.named[ThrottleKey]
  BY <1>3, <1>5, <1>6, <1>16, KeySet
<1>18. jc \in [Ids -> {NoJob} \cup JobType] /\ jc[h] = f /\ \A j \in Ids : j # h => jc[j] = s.job[j]
  BY <1>3, <1>6, <1>11, <1>15
<1>19. t = [job |-> jc, named |-> nn, lastEdit |-> e, answers |-> Append(s.answers, a)]
  <2>1. t = [s EXCEPT !.job = jc, !.named = nn, !.lastEdit = e, !.answers = Append(s.answers, a)]
    <3>1. s = [job |-> s.job, named |-> s.named, lastEdit |-> s.lastEdit, answers |-> s.answers]
      BY BeforeItem
    <3>2. s \in [job : {s.job}, named : {s.named}, lastEdit : {s.lastEdit}, answers : {s.answers}]
      BY <3>1
    <3> QED BY <3>2, <1>1, <1>2, <1>9, <1>10, <1>13, <1>15, <1>16 DEF Edits
  <2>2. s = [job |-> s.job, named |-> s.named, lastEdit |-> s.lastEdit, answers |-> s.answers]
    BY BeforeItem
  <2>3. s \in [job : {s.job}, named : {s.named}, lastEdit : {s.lastEdit}, answers : {s.answers}]
    BY <2>2
  <2> QED BY <2>1, <2>3
<1>20. KindOf(Upto(c, m, s), e) = "debounced"
  BY <1>1, BeforeItem
<1>21. ASSUME NEW bd, Answers(Upto(c, m, s), bd, e, a) PROVE Windows(bd, nn)
  <2>1. Windows(Upto(c, m, s), s.named)
    BY DEF Added, AddsIn
  <2> QED BY <1>17, <1>20, <1>21, <2>1, OthersWindows
<1>22. ASSUME NEW bd, NEW j \in Ids, Answers(Upto(c, m, s), bd, e, a), jc[j] # s.job[j]
       PROVE  /\ jc[j] # NoJob /\ jc[j].data = e /\ (j = GivenId \/ Sent(bd, j))
              /\ JobFixed(jc[j], begun) /\ InTime(jc[j], bd, moment)
  <2>1. j = h /\ jc[j] = f
    BY <1>18, <1>22
  <2>2. j = GivenId \/ Sent(Upto(c, m, s), j)
    BY <1>2, <1>4, <2>1 DEF Added, AddsIn
  <2>3. j = GivenId \/ Sent(bd, j)
    BY <1>22, <2>2 DEF Answers
  <2>4. InTime(f, bd, moment)
    BY <1>3, <1>9, <1>11, <1>14, <1>22, NewInTime
  <2> QED BY <1>11, <1>12, <2>1, <2>3, <2>4
<1>23. LastKept(jc, begun, e, dropped)
  BY <1>6, <1>11, <1>12, <1>18 DEF LastKept
<1>24. \A bd : Answers(Upto(c, m, s), bd, <<c, m>>, a) => Windows(bd, nn)
  BY <1>1, <1>21
<1>25. \A bd, j : Answers(Upto(c, m, s), bd, <<c, m>>, a) /\ j \in Ids =>
             \/ jc[j] = s.job[j]
             \/ /\ jc[j] # NoJob /\ jc[j].data = <<c, m>> /\ (j = GivenId \/ Sent(bd, j))
                /\ JobFixed(jc[j], begun) /\ InTime(jc[j], bd, moment)
  BY <1>1, <1>22
<1> QED BY <1>3, <1>14, <1>17, <1>18, <1>19, <1>23, <1>24, <1>25, OutcomeKeeps

\* What a job is as it is added.
LEMMA NewJobIs ==
  ASSUME NEW e \in NewIds, NEW wait \in Nat, moment \in Nat
  PROVE  /\ NewJob(e, wait) \in JobType /\ NewJob(e, wait).data = e /\ NotBegun(NewJob(e, wait))
         /\ wait > 0 => NewJob(e, wait).state = "delayed"
         /\ NewJob(e, wait).runAt = moment + wait
<1>1. PICK at \in Nat : at = moment + wait
  OBVIOUS
<1>2. NewJob(e, wait) = [data |-> e, state |-> IF wait > 0 THEN "delayed" ELSE "waiting", attempt |-> 0,
                         retried |-> FALSE, runAt |-> at, started |-> FALSE, first |-> NotYet]
  BY <1>1 DEF NewJob
<1>3. PICK state \in {"waiting", "delayed"} : (wait > 0 => state = "delayed") /\
         NewJob(e, wait) = [data |-> e, state |-> state, attempt |-> 0,
                            retried |-> FALSE, runAt |-> at, started |-> FALSE, first |-> NotYet]
  BY <1>2
<1>4. FALSE \in BOOLEAN /\ 0 \in Nat /\ NotYet \in NewIds \cup {NotYet}
  OBVIOUS
<1>5. NewJob(e, wait) \in JobType
  BY <1>3, <1>4 DEF JobType
<1>6. NewJob(e, wait).data = e /\ NotBegun(NewJob(e, wait)) /\ NewJob(e, wait).runAt = at
  BY <1>3 DEF NotBegun
<1>7. wait > 0 => NewJob(e, wait).state = "delayed"
  BY <1>3
<1> QED BY <1>1, <1>5, <1>6, <1>7

\* An item that adds a job.
LEMMA NewKeeps ==
  ASSUME NEW c, NEW m, ChunkAt(c, m), NEW s, Added(c, m, s), NEW j \in {GivenId, <<c, m>>}, s.job[j] = NoJob,
         NEW kind, kind = adder[c].items[m], NEW nn \in [Keys -> KeyType],
         NEW lf, lf = IF kind = "debounced" THEN <<c, m>> ELSE s.lastEdit, NEW t,
         t = AddsNew(s, <<c, m>>, j, kind, nn, lf),
         \A bd : Answers(Upto(c, m, s), bd, <<c, m>>, AddsAt(j)) => Windows(bd, nn)
  PROVE  Added(c, m + 1, t)
<1>1. PICK e : e = <<c, m>>
  OBVIOUS
<1>2. /\ s.job \in [Ids -> {NoJob} \cup JobType] /\ moment \in Nat /\ e \in NewIds
      /\ s.lastEdit \in NewIds \cup {NotYet} /\ KindOf(Upto(c, m, s), e) = kind
      /\ LastKept(s.job, begun, s.lastEdit, dropped)
  BY <1>1, BeforeItem
<1>3. j \in Ids /\ lf \in NewIds \cup {NotYet}
  BY <1>1, <1>2 DEF Ids
<1>4. PICK wait \in Nat : wait = Delay(kind)
  BY QueueAddsAssumption DEF Delay
<1>5. kind = "debounced" => wait = Wait /\ wait > 0
  BY <1>4, QueueAddsAssumption DEF Delay
<1>6. PICK f : f = NewJob(e, wait)
  OBVIOUS
<1>7. f \in JobType /\ f.data = e /\ NotBegun(f) /\ (wait > 0 => f.state = "delayed") /\ f.runAt = moment + wait
  BY <1>2, <1>6, NewJobIs
<1>8. f # NoJob /\ JobFixed(f, begun)
  BY <1>7, BatchesAssumption, FreshIsFixed
<1>9. PICK a : a = AddsAt(j)
  OBVIOUS
<1>10. a \in AnswerType /\ a.at = moment
  BY <1>2, <1>3, <1>9, AnswerIs
<1>11. PICK jc : jc = [s.job EXCEPT ![j] = f]
  OBVIOUS
<1>12. jc \in [Ids -> {NoJob} \cup JobType] /\ jc[j] = f /\ \A i \in Ids : i # j => jc[i] = s.job[i]
  BY <1>2, <1>3, <1>7, <1>11
<1>13. t = [job |-> jc, named |-> nn, lastEdit |-> lf, answers |-> Append(s.answers, a)]
  <2>1. s = [job |-> s.job, named |-> s.named, lastEdit |-> s.lastEdit, answers |-> s.answers]
    BY BeforeItem
  <2>2. s \in [job : {s.job}, named : {s.named}, lastEdit : {s.lastEdit}, answers : {s.answers}]
    BY <2>1
  <2>3. t = [s EXCEPT !.job = jc, !.named = nn, !.lastEdit = lf, !.answers = Append(s.answers, a)]
    BY <2>2, <1>1, <1>4, <1>6, <1>9, <1>11 DEF AddsNew
  <2> QED BY <2>2, <2>3
<1>14. \A bd : Answers(Upto(c, m, s), bd, <<c, m>>, a) => Windows(bd, nn)
  BY <1>9
<1>15. ASSUME NEW bd, NEW i \in Ids, Answers(Upto(c, m, s), bd, e, a), jc[i] # s.job[i]
       PROVE  /\ jc[i] # NoJob /\ jc[i].data = e /\ (i = GivenId \/ Sent(bd, i))
              /\ JobFixed(jc[i], begun) /\ InTime(jc[i], bd, moment)
  <2>1. i = j /\ jc[i] = f
    BY <1>12, <1>15
  <2>2. i = GivenId \/ Sent(bd, i)
    BY <1>1, <1>15, <2>1 DEF Answers
  <2>3. kind = "debounced" => f.state = "delayed" /\ f.runAt = moment + Wait
    BY <1>5, <1>7
  <2>4. InTime(f, bd, moment)
    BY <1>2, <1>7, <1>10, <1>15, <2>3, NewInTime
  <2> QED BY <1>7, <1>8, <2>1, <2>2, <2>4
<1>16. \A bd, i : Answers(Upto(c, m, s), bd, <<c, m>>, a) /\ i \in Ids =>
             \/ jc[i] = s.job[i]
             \/ /\ jc[i] # NoJob /\ jc[i].data = <<c, m>> /\ (i = GivenId \/ Sent(bd, i))
                /\ JobFixed(jc[i], begun) /\ InTime(jc[i], bd, moment)
  BY <1>1, <1>15
<1>17. LastKept(jc, begun, lf, dropped)
  <2>1. CASE lf = e
    BY <2>1, <1>3, <1>7, <1>8, <1>12 DEF LastKept
  <2>2. CASE lf # e
    <3>1. lf = s.lastEdit
      BY <2>2, <1>1
    <3>2. \A i \in Ids : s.job[i] # NoJob => jc[i] = s.job[i]
      BY <1>12
    <3> QED BY <3>1, <3>2, <1>2 DEF LastKept
  <2> QED BY <2>1, <2>2
<1> QED BY <1>3, <1>10, <1>12, <1>13, <1>14, <1>16, <1>17, OutcomeKeeps

\* A throttled item: the window under its key is open, or none is.
LEMMA WindowIs ==
  ASSUME NEW c, NEW m, ChunkAt(c, m), NEW s, Added(c, m, s), adder[c].items[m] = "throttled"
  PROVE  /\ HeldBy(s.named, ThrottleKey) # NoJob =>
              \A bd : Answers(Upto(c, m, s), bd, <<c, m>>, JoinsAt(HeldBy(s.named, ThrottleKey))) =>
                Windows(bd, s.named)
         /\ HeldBy(s.named, ThrottleKey) = NoJob =>
              \A bd, nn :
                Answers(Upto(c, m, s), bd, <<c, m>>, AddsAt(<<c, m>>))
                  /\ nn[ThrottleKey] = [id |-> <<c, m>>, until |-> moment + Window] => Windows(bd, nn)
<1>1. PICK e : e = <<c, m>>
  OBVIOUS
<1>2. PICK ad : ad = Upto(c, m, s)
  OBVIOUS
<1>3. /\ s.named \in [Keys -> KeyType] /\ moment \in Nat /\ e \in NewIds /\ KindOf(ad, e) = "throttled"
      /\ \A d \in NewIds : Sent(ad, d) => AnswerOf(ad, d).at <= moment
  BY <1>1, <1>2, BeforeItem
<1>4. ad \in [Calls -> AddCall] /\ \A b \in Calls : CallInStep(ad[b])
  BY <1>2 DEF Added, AddsIn, AddsTypes
<1>5. Windows(ad, s.named)
  BY <1>2 DEF Added, AddsIn
<1>6. ThrottleKey \in Keys
  BY DEF Keys
<1>7. PICK h : h = HeldBy(s.named, ThrottleKey)
  OBVIOUS
<1>8. PICK key \in KeyType : key = s.named[ThrottleKey]
  BY <1>3, <1>6
<1>9. KeyIsLet(ad, key) /\ KeyLasts(ad, key)
  BY <1>5, <1>8 DEF Windows
<1>10. \A d \in Let(ad) : d \in NewIds /\ Sent(ad, d)
  BY DEF Let
<1>11. ASSUME h # NoJob, NEW bd, NEW a, a = JoinsAt(h), Answers(ad, bd, e, a) PROVE Windows(bd, s.named)
  <2>1. h \in Ids /\ h = key.id /\ key # NoKey /\ moment < key.until
    BY <1>3, <1>6, <1>7, <1>8, <1>11, KeysHold
  <2>2. PICK w \in Let(ad) : key.id = AnswerOf(ad, w).id /\ key.until = AnswerOf(ad, w).at + Window
    BY <1>9, <2>1 DEF KeyIsLet
  <2>3. a.at = moment /\ a.id = h /\ a.deduplicated
    BY <2>1, <1>3, <1>11, AnswerIs
  <2>4. AnswerOf(ad, w).at <= a.at /\ a.at < AnswerOf(ad, w).at + Window /\ AnswerOf(ad, w).id = a.id
    BY <1>3, <1>10, <2>1, <2>2, <2>3
  <2> QED BY <1>5, <1>11, <2>3, <2>4, JoinsWindow
<1>12. ASSUME h = NoJob, NEW bd, NEW nn, NEW a, a = AddsAt(e), Answers(ad, bd, e, a),
              nn[ThrottleKey] = [id |-> e, until |-> moment + Window]
       PROVE  Windows(bd, nn)
  <2>1. e \in Ids
    BY <1>3 DEF Ids
  <2>2. a \in AnswerType /\ a.at = moment /\ a.id = e /\ ~a.deduplicated
    BY <2>1, <1>3, <1>12, AnswerIs
  <2>3. ASSUME NEW d \in Let(ad) PROVE AnswerOf(ad, d).at + Window <= moment
    <3>1. key # NoKey /\ AnswerOf(ad, d).at + Window <= key.until
      BY <1>9 DEF KeyLasts
    <3>2. ~(moment < key.until)
      <4>1. PICK w \in Let(ad) : key.id = AnswerOf(ad, w).id
        BY <1>9, <3>1 DEF KeyIsLet
      <4>2. key.id \in Ids
        BY <4>1, <1>4, <1>10, SentTypes
      <4>3. key.id # NoJob
        BY <4>2, BatchesAssumption
      <4> QED BY <1>7, <1>8, <1>12, <3>1, <4>3 DEF HeldBy
    <3>3. key.until \in Nat
      BY DEF KeyType
    <3>4. AnswerOf(ad, d).at \in Nat /\ Window \in Nat
      BY <1>4, <1>10, SentTypes, QueueAddsAssumption
    <3> QED BY <1>3, <3>1, <3>2, <3>3, <3>4
  <2>4. \A d \in NewIds : Sent(ad, d) => AnswerOf(ad, d).at <= a.at
    BY <1>3, <2>2
  <2>5. nn[ThrottleKey] = [id |-> a.id, until |-> a.at + Window]
    BY <1>12, <2>2
  <2>6. \A d \in Let(ad) : AnswerOf(ad, d).at + Window <= a.at
    BY <2>2, <2>3
  <2> QED BY <1>3, <1>4, <1>5, <1>12, <2>2, <2>4, <2>5, <2>6, OpensWindow
<1> QED BY <1>1, <1>2, <1>7, <1>11, <1>12

\* Whatever an item finds, it keeps the invariant.
LEMMA AddOneKeeps ==
  ASSUME NEW c, NEW m, ChunkAt(c, m), NEW s, Added(c, m, s)
  PROVE  Added(c, m + 1, AddOne(s, c, m))
<1>1. PICK kind : kind = adder[c].items[m]
  OBVIOUS
<1>2. PICK k : k = KeyOf(kind)
  OBVIOUS
<1>3. /\ kind \in {"named", "debounced", "throttled"} /\ s.job[<<c, m>>] = NoJob
      /\ s.named \in [Keys -> KeyType] /\ <<c, m>> \in NewIds /\ moment \in Nat
      /\ KindOf(Upto(c, m, s), <<c, m>>) = kind
  BY <1>1, BeforeItem
<1>4. PICK h : h = HeldBy(s.named, k)
  OBVIOUS
<1>5. (kind = "debounced" => k = DebounceKey) /\ (kind = "throttled" => k = ThrottleKey)
  BY <1>2 DEF KeyOf
<1>6. DebounceKey \in Keys /\ ThrottleKey \in Keys /\ DebounceKey # ThrottleKey
  BY QueueAddsAssumption DEF Keys
<1>7. GivenId \in Ids /\ <<c, m>> \in Ids
  BY <1>3 DEF Ids
<1>8. PICK u \in Nat : u = moment + Ttl(kind)
  BY <1>3, QueueAddsAssumption DEF Ttl
<1>9. Windows(Upto(c, m, s), s.named)
  BY DEF Added, AddsIn
<1>16. /\ kind = "debounced" /\ k = DebounceKey /\ StillWaits(s.job, h) =>
            AddOne(s, c, m) = Edits(s, <<c, m>>, h, u)
       /\ kind = "throttled" /\ h # NoJob => AddOne(s, c, m) = Joins(s, h)
       /\ kind = "named" /\ s.job[GivenId] # NoJob => AddOne(s, c, m) = Joins(s, GivenId)
       /\ kind = "named" /\ s.job[GivenId] = NoJob =>
            AddOne(s, c, m) = AddsNew(s, <<c, m>>, GivenId, kind, s.named, s.lastEdit)
       /\ kind = "debounced" /\ ~StillWaits(s.job, h) /\ s.job[<<c, m>>] = NoJob =>
            AddOne(s, c, m) = AddsNew(s, <<c, m>>, <<c, m>>, kind, Points(s.named, k, <<c, m>>, u), <<c, m>>)
       /\ kind = "throttled" /\ h = NoJob /\ s.job[<<c, m>>] = NoJob =>
            AddOne(s, c, m) = AddsNew(s, <<c, m>>, <<c, m>>, kind, Points(s.named, k, <<c, m>>, u), s.lastEdit)
  BY <1>1, <1>2, <1>4, <1>8, AddOneIs
<1>10. CASE kind = "debounced" /\ StillWaits(s.job, h)
  <2>1. AddOne(s, c, m) = Edits(s, <<c, m>>, h, u)
    BY <1>5, <1>10, <1>16
  <2>2. adder[c].items[m] = "debounced" /\ h = HeldBy(s.named, DebounceKey)
    BY <1>1, <1>4, <1>5, <1>10
  <2> QED BY <1>10, <2>1, <2>2, EditKeeps
<1>11. CASE kind = "throttled" /\ h # NoJob
  <2>1. h \in Ids
    BY <1>3, <1>4, <1>5, <1>6, <1>11, KeysHold
  <2>2. \A bd : Answers(Upto(c, m, s), bd, <<c, m>>, JoinsAt(h)) => Windows(bd, s.named)
    BY <1>1, <1>4, <1>5, <1>11, WindowIs
  <2>3. Added(c, m + 1, Joins(s, h))
    BY <2>1, <2>2, OnlyAnswered
  <2> QED BY <1>11, <1>16, <2>3
<1>12. CASE kind = "named" /\ s.job[GivenId] # NoJob
  <2>1. \A bd : Answers(Upto(c, m, s), bd, <<c, m>>, JoinsAt(GivenId)) => Windows(bd, s.named)
    BY <1>3, <1>9, <1>12, OthersWindows
  <2>2. Added(c, m + 1, Joins(s, GivenId))
    BY <1>7, <2>1, OnlyAnswered
  <2> QED BY <1>12, <1>16, <2>2
<1>13. CASE kind = "named" /\ s.job[GivenId] = NoJob
  <2>1. \A bd : Answers(Upto(c, m, s), bd, <<c, m>>, AddsAt(GivenId)) => Windows(bd, s.named)
    BY <1>3, <1>9, <1>13, OthersWindows
  <2>2. AddOne(s, c, m) = AddsNew(s, <<c, m>>, GivenId, kind, s.named, s.lastEdit)
    BY <1>16, <1>13
  <2>3. s.lastEdit = IF kind = "debounced" THEN <<c, m>> ELSE s.lastEdit
    BY <1>13
  <2> QED BY <1>1, <1>3, <1>13, <2>1, <2>2, <2>3, NewKeeps
<1>14. CASE kind = "debounced" /\ ~StillWaits(s.job, h)
  <2>1. PICK nn : nn = Points(s.named, k, <<c, m>>, u)
    OBVIOUS
  <2>2. nn \in [Keys -> KeyType] /\ nn[ThrottleKey] = s.named[ThrottleKey]
    BY <1>3, <1>5, <1>6, <1>7, <1>14, <2>1, KeySet DEF Points
  <2>3. \A bd : Answers(Upto(c, m, s), bd, <<c, m>>, AddsAt(<<c, m>>)) => Windows(bd, nn)
    BY <1>3, <1>9, <1>14, <2>2, OthersWindows
  <2>4. AddOne(s, c, m) = AddsNew(s, <<c, m>>, <<c, m>>, kind, nn, <<c, m>>)
    BY <1>3, <1>16, <1>14, <2>1
  <2>5. <<c, m>> = IF kind = "debounced" THEN <<c, m>> ELSE s.lastEdit
    BY <1>14
  <2> QED BY <1>1, <1>3, <2>2, <2>3, <2>4, <2>5, NewKeeps
<1>15. CASE kind = "throttled" /\ h = NoJob
  <2>1. PICK nn : nn = Points(s.named, k, <<c, m>>, u)
    OBVIOUS
  <2>2. nn \in [Keys -> KeyType] /\ nn[ThrottleKey] = [id |-> <<c, m>>, until |-> u]
    BY <1>3, <1>5, <1>6, <1>7, <1>15, <2>1, KeySet DEF Points
  <2>3. u = moment + Window
    BY <1>8, <1>15 DEF Ttl
  <2>4. \A bd : Answers(Upto(c, m, s), bd, <<c, m>>, AddsAt(<<c, m>>)) => Windows(bd, nn)
    BY <1>1, <1>4, <1>5, <1>15, <2>2, <2>3, WindowIs
  <2>5. AddOne(s, c, m) = AddsNew(s, <<c, m>>, <<c, m>>, kind, nn, s.lastEdit)
    BY <1>3, <1>16, <1>15, <2>1
  <2>6. s.lastEdit = IF kind = "debounced" THEN <<c, m>> ELSE s.lastEdit
    BY <1>15
  <2> QED BY <1>1, <1>3, <2>2, <2>4, <2>5, <2>6, NewKeeps
<1> QED BY <1>3, <1>10, <1>11, <1>12, <1>13, <1>14, <1>15

\* Numbers among which are zero and the next of each are all of them.
LEMMA Counting ==
  ASSUME NEW P \in SUBSET Nat, 0 \in P, \A n \in P : n + 1 \in P
  PROVE  P = Nat
<1> SUFFICES ASSUME Nat \ P # {} PROVE FALSE
  OBVIOUS
<1> DEFINE less == {p \in Nat \X Nat : p[1] < p[2]}
<1>1. IsWellFoundedOn(less, Nat)
  BY NatLessThanWellFounded DEF OpToRel
<1>2. PICK n \in Nat \ P : \A l \in Nat \ P : ~(<<l, n>> \in less)
  <2> HIDE DEF less
  <2> QED BY <1>1, WFMin
<1>3. n - 1 \in Nat /\ n - 1 \notin P
  BY <1>2
<1>4. <<n - 1, n>> \in less
  BY <1>3
<1> QED BY <1>2, <1>3, <1>4

\* The store before a chunk, and after each of its items.
AtChunk(c) == [job |-> job, named |-> named, lastEdit |-> lastEdit, answers |-> adder[c].answers]

After(c, i, n, f) == f = [m \in i - 1 .. n |-> IF m = i - 1 THEN AtChunk(c) ELSE AddOne(f[m - 1], c, m)]

\* The items of a chunk are run one after the other.
LEMMA AfterExists ==
  ASSUME NEW c, NEW i \in Nat \ {0}, NEW n \in Nat, i - 1 <= n
  PROVE  \E f : After(c, i, n, f)
<1> DEFINE P == {k \in Nat : \E f : After(c, i, (i - 1) + k, f)}
<1>1. 0 \in P
  <2> DEFINE f == [m \in i - 1 .. (i - 1) + 0 |-> AtChunk(c)]
  <2>1. \A m \in i - 1 .. (i - 1) + 0 : m = i - 1
    OBVIOUS
  <2>2. f = [m \in i - 1 .. (i - 1) + 0 |-> IF m = i - 1 THEN AtChunk(c) ELSE AddOne(f[m - 1], c, m)]
    BY <2>1
  <2>3. After(c, i, (i - 1) + 0, f)
    BY <2>2 DEF After
  <2> QED BY <2>3
<1>2. ASSUME NEW k \in P PROVE k + 1 \in P
  <2>1. PICK l \in Nat : l = (i - 1) + k /\ i - 1 <= l
    OBVIOUS
  <2>2. PICK g : After(c, i, l, g)
    BY <2>1
  <2> DEFINE f == [m \in i - 1 .. l + 1 |-> IF m = l + 1 THEN AddOne(g[l], c, l + 1) ELSE g[m]]
  <2>3. \A m \in i - 1 .. l : f[m] = g[m]
    OBVIOUS
  <2>4. f[l + 1] = AddOne(g[l], c, l + 1) /\ f[l] = g[l]
    BY <2>1
  <2>5. f = [m \in i - 1 .. l + 1 |-> f[m]]
    OBVIOUS
  <2> HIDE DEF f
  <2>6. ASSUME NEW m \in i - 1 .. l + 1
        PROVE  f[m] = IF m = i - 1 THEN AtChunk(c) ELSE AddOne(f[m - 1], c, m)
    <3>1. CASE m = l + 1
      <4>1. m - 1 = l /\ m # i - 1
        BY <3>1, <2>1
      <4> QED BY <3>1, <4>1, <2>4
    <3>2. CASE m # l + 1
      <4>1. m \in i - 1 .. l
        BY <3>2, <2>1
      <4>2. g[m] = IF m = i - 1 THEN AtChunk(c) ELSE AddOne(g[m - 1], c, m)
        BY <2>2, <4>1 DEF After
      <4>3. m # i - 1 => m - 1 \in i - 1 .. l
        BY <4>1, <2>1
      <4> QED BY <4>1, <4>2, <4>3, <2>3
    <3> QED BY <3>1, <3>2
  <2>7. After(c, i, l + 1, f)
    BY <2>5, <2>6 DEF After
  <2>8. l + 1 = (i - 1) + (k + 1) /\ k + 1 \in Nat
    BY <2>1
  <2> QED BY <2>7, <2>8
<1>3. P = Nat
  <2>1. P \in SUBSET Nat
    OBVIOUS
  <2> HIDE DEF P
  <2> QED BY <1>1, <1>2, <2>1, Counting
<1>4. n - (i - 1) \in P /\ (i - 1) + (n - (i - 1)) = n
  <2>1. n - (i - 1) \in Nat
    OBVIOUS
  <2> HIDE DEF P
  <2> QED BY <1>3, <2>1
<1> QED BY <1>4

\* A chunk keeps what its items keep.
LEMMA ChunkKeeps ==
  ASSUME NEW c, NEW i \in Nat \ {0}, NEW n \in Nat, i - 1 <= n,
         adder \in [Calls -> AddCall], c \in Calls, adder[c].phase = "sending", n <= Len(adder[c].items),
         Added(c, i, AtChunk(c))
  PROVE  Added(c, n + 1, AddUpTo(c, i, n))
<1>1. PICK f : AddUpTo(c, i, n) = f[n] /\ After(c, i, n, f)
  <2> DEFINE g == CHOOSE f : After(c, i, n, f)
  <2>1. After(c, i, n, g)
    BY AfterExists
  <2>2. AddUpTo(c, i, n) = g[n]
    BY DEF AddUpTo, After, AtChunk
  <2> QED BY <2>1, <2>2
<1> DEFINE P == {k \in Nat : (i - 1) + k <= n => Added(c, i + k, f[(i - 1) + k])}
<1>2. 0 \in P
  <2>1. i + 0 = i /\ (i - 1) + 0 = i - 1 /\ i - 1 \in i - 1 .. n
    OBVIOUS
  <2>2. f[i - 1] = AtChunk(c)
    BY <1>1, <2>1 DEF After
  <2> QED BY <2>1, <2>2
<1>3. ASSUME NEW k \in P PROVE k + 1 \in P
  <2> SUFFICES ASSUME (i - 1) + (k + 1) <= n PROVE Added(c, i + (k + 1), f[(i - 1) + (k + 1)])
    OBVIOUS
  <2>1. PICK m \in Nat : m = i + k /\ m \in 1 .. Len(adder[c].items) /\ m \in i - 1 .. n /\ m # i - 1
    <3>1. PICK l \in Nat : l = Len(adder[c].items)
      BY DEF AddCall
    <3> QED BY <3>1
  <2>2. m = (i - 1) + (k + 1) /\ m + 1 = i + (k + 1) /\ m - 1 = (i - 1) + k /\ (i - 1) + k <= n
    BY <2>1
  <2>3. Added(c, m, f[m - 1])
    BY <2>1, <2>2
  <2>4. f[m] = AddOne(f[m - 1], c, m)
    BY <1>1, <2>1 DEF After
  <2>5. ChunkAt(c, m)
    BY <2>1 DEF ChunkAt
  <2>6. Added(c, m + 1, f[m])
    BY <2>3, <2>4, <2>5, AddOneKeeps
  <2> QED BY <2>2, <2>6
<1>4. P = Nat
  <2>1. P \in SUBSET Nat
    OBVIOUS
  <2> HIDE DEF P
  <2> QED BY <1>2, <1>3, <2>1, Counting
<1>5. PICK k \in Nat : k = n - (i - 1)
  OBVIOUS
<1>6. (i - 1) + k = n /\ i + k = n + 1
  BY <1>5
<1>7. k \in P
  <2> HIDE DEF P
  <2> QED BY <1>4, <1>5
<1> QED BY <1>1, <1>6, <1>7

\* Every item is checked first.
LEMMA ChecksKeepsAdds ==
  ASSUME AddsInv, NEW c \in Calls, Checks(c)
  PROVE  AddsInv'
<1>1. AddsIn(moment, job, named, adder, begun, lastEdit, dropped)
  BY DEF AddsInv
<1>2. adder \in [Calls -> AddCall] /\ CallInStep(adder[c])
  BY <1>1 DEF AddsIn, AddsTypes
<1>3. adder[c].at = 1 /\ adder[c] \in AddCall
  BY <1>2 DEF Checks, CallInStep
<1>4. PICK ph \in {"refused", "sending"} :
        /\ adder' = [adder EXCEPT ![c].phase = ph]
        /\ ph = "sending" => \A i \in DOMAIN adder[c].items : adder[c].items[i] # "bad"
  BY DEF Checks
<1>5. CallInStep([adder[c] EXCEPT !.phase = ph])
  <2>1. PICK call : call = [adder[c] EXCEPT !.phase = ph]
    OBVIOUS
  <2>2. call.items = adder[c].items /\ call.at = adder[c].at /\ call.answers = adder[c].answers /\ call.phase = ph
    BY <1>3, <2>1 DEF AddCall
  <2>3. CallInStep(call)
    BY <1>2, <1>3, <1>4, <2>2 DEF CallInStep
  <2> QED BY <2>1, <2>3
<1>6. AddsIn(moment, job, named, adder', begun, lastEdit, dropped)
  BY <1>1, <1>4, <1>5, PhaseKeeps
<1> QED BY <1>6 DEF AddsInv, Checks

\* A chunk is added, or the batch stops.
LEMMA AddsChunkKeepsAdds ==
  ASSUME AddsInv, NEW c \in Calls, AddsChunk(c)
  PROVE  AddsInv'
<1>1. AddsIn(moment, job, named, adder, begun, lastEdit, dropped)
  BY DEF AddsInv
<1>2. adder \in [Calls -> AddCall] /\ CallInStep(adder[c]) /\ adder[c].phase = "sending" /\ adder[c] \in AddCall
  BY <1>1 DEF AddsIn, AddsTypes, AddsChunk
<1>3. ASSUME NEW call \in AddCall, CallInStep(call), call.phase = "sending", NEW ph \in {"stopped", "answered", "sending"}
      PROVE  CallInStep([call EXCEPT !.phase = ph])
  <2>1. PICK d : d = [call EXCEPT !.phase = ph]
    OBVIOUS
  <2>2. d.items = call.items /\ d.at = call.at /\ d.answers = call.answers /\ d.phase = ph
    BY <2>1 DEF AddCall
  <2>3. CallInStep(d)
    BY <1>3, <2>2 DEF CallInStep
  <2> QED BY <2>1, <2>3
<1>4. CASE Refuses
  <2>1. adder' = [adder EXCEPT ![c].phase = "stopped"] /\ UNCHANGED <<moment, job, named, begun, lastEdit, dropped>>
    BY <1>4 DEF AddsChunk
  <2>2. CallInStep([adder[c] EXCEPT !.phase = "stopped"])
    BY <1>2, <1>3
  <2>3. AddsIn(moment, job, named, adder', begun, lastEdit, dropped)
    BY <1>1, <2>1, <2>2, PhaseKeeps
  <2> QED BY <2>1, <2>3 DEF AddsInv
<1>5. CASE ~Refuses
  <2>1. PICK from \in Nat \ {0} : from = adder[c].at
    BY <1>2 DEF AddCall
  <2>2. PICK l \in Nat : l = Len(adder[c].items)
    BY <1>2 DEF AddCall
  <2>3. from <= l + 1
    BY <1>2, <2>1, <2>2 DEF CallInStep
  <2>4. PICK n \in Nat : n = IF from + ChunkSize - 1 < l THEN from + ChunkSize - 1 ELSE l
    BY QueueAddsAssumption
  <2>5. from - 1 <= n /\ n <= l
    BY <2>3, <2>4, QueueAddsAssumption
  <2>6. PICK s : s = AddUpTo(c, from, n)
    OBVIOUS
  <2>7. PICK ph \in {"answered", "sending"} :
          adder' = [adder EXCEPT ![c].at = n + 1, ![c].answers = s.answers, ![c].phase = ph]
    <3>1. PICK ph \in {"answered", "sending"} : ph = IF n = l THEN "answered" ELSE adder[c].phase
      BY <1>2
    <3>2. adder' = [adder EXCEPT ![c].at = n + 1, ![c].answers = s.answers,
                                 ![c].phase = IF n = l THEN "answered" ELSE @]
      BY <1>5, <2>1, <2>2, <2>4, <2>6 DEF AddsChunk
    <3>3. [adder EXCEPT ![c].at = n + 1, ![c].answers = s.answers, ![c].phase = IF n = l THEN "answered" ELSE @]
            = [adder EXCEPT ![c].at = n + 1, ![c].answers = s.answers, ![c].phase = ph]
      BY <3>1, <1>2 DEF AddCall
    <3> QED BY <3>2, <3>3
  <2>8. job' = s.job /\ named' = s.named /\ lastEdit' = s.lastEdit /\ UNCHANGED <<moment, begun, dropped>>
    BY <1>5, <2>1, <2>2, <2>4, <2>6 DEF AddsChunk
  <2>9. Added(c, from, AtChunk(c))
    <3>1. AtChunk(c) \in ChunkState
      BY <1>1, <1>2 DEF AtChunk, ChunkState, AddsIn, AddsTypes, AddCall
    <3>2. Upto(c, from, AtChunk(c)) = adder
      BY <1>2, <2>1 DEF Upto, AtChunk, AddCall
    <3>3. AtChunk(c).job = job /\ AtChunk(c).named = named /\ AtChunk(c).lastEdit = lastEdit
      BY DEF AtChunk
    <3> QED BY <1>1, <3>1, <3>2, <3>3 DEF Added
  <2>10. Added(c, n + 1, s)
    BY <1>2, <2>2, <2>5, <2>6, <2>9, ChunkKeeps
  <2>11. AddsIn(moment, s.job, s.named, Upto(c, n + 1, s), begun, s.lastEdit, dropped)
    BY <2>10 DEF Added
  <2>12. PICK ad : ad = Upto(c, n + 1, s)
    OBVIOUS
  <2>13. ad \in [Calls -> AddCall] /\ CallInStep(ad[c])
    BY <2>11, <2>12 DEF AddsIn, AddsTypes
  <2>14. ad[c].phase = "sending"
    BY <1>2, <2>12 DEF Upto, AddCall
  <2>15. CallInStep([ad[c] EXCEPT !.phase = ph])
    BY <1>3, <2>13, <2>14
  <2>16. adder' = [ad EXCEPT ![c].phase = ph]
    BY <1>2, <2>7, <2>12 DEF Upto, AddCall
  <2>17. AddsIn(moment, s.job, s.named, [ad EXCEPT ![c].phase = ph], begun, s.lastEdit, dropped)
    BY <2>11, <2>12, <2>15, PhaseKeeps
  <2> QED BY <2>8, <2>16, <2>17 DEF AddsInv
<1> QED BY <1>4, <1>5

\* What is known of a job, and of the runs.
LEMMA JobIs ==
  ASSUME AddsInv, NEW j \in Ids, job[j] # NoJob
  PROVE  /\ job[j] \in JobType /\ JobFixed(job[j], begun) /\ InTime(job[j], adder, moment)
         /\ Sent(adder, job[j].data) /\ moment \in Nat
         /\ begun \in SUBSET [data : NewIds, at : Nat] /\ \A ran \in begun : RunInTime(ran, adder)
         /\ adder \in [Calls -> AddCall] /\ \A c \in Calls : CallInStep(adder[c])
BY DEF AddsInv, AddsIn, AddsTypes

\* A step that changes one job.
LEMMA BecomesKeeps ==
  ASSUME AddsInv, NEW j \in Ids, job[j] # NoJob, NEW f \in JobType, f.data = job[j].data, Becomes(j, f),
         NEW bh \in SUBSET [data : NewIds, at : Nat], begun \subseteq bh, begun' = bh, dropped' = dropped,
         JobFixed(f, bh), InTime(f, adder, moment), \A ran \in bh : RunInTime(ran, adder)
  PROVE  AddsInv'
<1>1. AddsIn(moment, [job EXCEPT ![j] = f], named, adder, bh, lastEdit, dropped)
  BY JobKeeps DEF AddsInv
<1> QED BY <1>1 DEF AddsInv, Becomes

\* A step that takes one job away.
LEMMA LeavesKeeps ==
  ASSUME AddsInv, NEW j \in Ids, job[j] # NoJob, Becomes(j, NoJob), begun' = begun,
         NEW ds \in SUBSET NewIds, dropped \subseteq ds, dropped' = ds,
         job[j].data \in ds \/ \E ran \in begun : ran.data = job[j].data
  PROVE  AddsInv'
<1>1. AddsIn(moment, [job EXCEPT ![j] = NoJob], named, adder, begun, lastEdit, ds)
  BY JobGone DEF AddsInv
<1> QED BY <1>1 DEF AddsInv, Becomes

\* A job that waits for nothing any more is past the wait of its data.
LEMMA WaitIsOver ==
  ASSUME NEW ad \in [Calls -> AddCall], \A c \in Calls : CallInStep(ad[c]), NEW mo \in Nat,
         NEW f \in JobType, InTime(f, ad, mo), f.state = "delayed" => f.runAt <= mo
  PROVE  /\ \A e \in NewIds : Sent(ad, e) /\ KindOf(ad, e) = "debounced" /\ f.data = e => mo >= AnswerOf(ad, e).at + Wait
         /\ \A g : g.data = f.data => InTime(g, ad, mo)
<1>1. ASSUME NEW e \in NewIds, Sent(ad, e), KindOf(ad, e) = "debounced", f.data = e
      PROVE  mo >= AnswerOf(ad, e).at + Wait
  <2>1. PICK due \in Nat : due = AnswerOf(ad, e).at + Wait
    BY <1>1, SentTypes, QueueAddsAssumption
  <2>2. mo >= due \/ (f.state = "delayed" /\ f.runAt >= due)
    BY <1>1, <2>1 DEF InTime
  <2>3. f.runAt \in Nat
    BY DEF JobType
  <2> QED BY <2>1, <2>2, <2>3
<1> QED BY <1>1 DEF InTime

\* A claim counts: a job whose handler began before is at its second at least.
LEMMA ClaimsKeepsAdds ==
  ASSUME AddsInv, NEW j \in Ids, ClaimsJob(j)
  PROVE  AddsInv'
<1>1. PICK f0 : f0 = job[j]
  OBVIOUS
<1>2. f0 # NoJob /\ f0.state \in {"waiting", "delayed"} /\ (f0.state = "delayed" => f0.runAt <= moment)
  BY <1>1 DEF ClaimsJob, In
<1>3. /\ f0 \in JobType /\ JobFixed(f0, begun) /\ InTime(f0, adder, moment) /\ moment \in Nat
      /\ begun \in SUBSET [data : NewIds, at : Nat] /\ \A ran \in begun : RunInTime(ran, adder)
      /\ adder \in [Calls -> AddCall] /\ \A c \in Calls : CallInStep(adder[c])
  BY <1>1, <1>2, JobIs
<1>4. PICK n \in Nat : n = f0.attempt + 1 /\ n >= 1
  BY <1>3 DEF JobType
<1>5. PICK f : f = [f0 EXCEPT !.state = "active", !.attempt = n]
  OBVIOUS
<1>6. f \in JobType
  BY <1>3, <1>5 DEF JobType
<1>7. /\ f.data = f0.data /\ f.state = "active" /\ f.attempt = n /\ f.first = f0.first /\ f.started = f0.started
      /\ f.retried = f0.retried
  BY <1>3, <1>5 DEF JobType
<1>8. JobFixed(f, begun)
  <2>1. f0.first # NotYet => (\E ran \in begun : ran.data = f0.data) /\ (f0.retried \/ f0.attempt >= 1)
    BY <1>2, <1>3 DEF JobFixed
  <2>2. f0.attempt >= 1 => n >= 2
    BY <1>3, <1>4 DEF JobType
  <2>3. f0.first \in {NotYet, f0.data} /\ (f0.started => f0.first # NotYet)
    BY <1>3 DEF JobFixed
  <2> QED BY <1>4, <1>7, <2>1, <2>2, <2>3 DEF JobFixed
<1>9. InTime(f, adder, moment)
  BY <1>2, <1>3, <1>7, WaitIsOver
<1>10. Becomes(j, f) /\ begun' = begun /\ dropped' = dropped
  BY <1>1, <1>4, <1>5 DEF ClaimsJob
<1> QED BY <1>1, <1>2, <1>3, <1>6, <1>7, <1>8, <1>9, <1>10, BecomesKeeps

\* A handler is given the data of its job: from then on it stays.
LEMMA StartsKeepsAdds ==
  ASSUME AddsInv, NEW j \in Ids, StartsJob(j)
  PROVE  AddsInv'
<1>1. PICK f0 : f0 = job[j]
  OBVIOUS
<1>2. f0 # NoJob /\ f0.state = "active" /\ ~f0.started
  BY <1>1 DEF StartsJob, In
<1>3. /\ f0 \in JobType /\ JobFixed(f0, begun) /\ InTime(f0, adder, moment) /\ moment \in Nat
      /\ begun \in SUBSET [data : NewIds, at : Nat] /\ \A ran \in begun : RunInTime(ran, adder)
      /\ adder \in [Calls -> AddCall] /\ \A c \in Calls : CallInStep(adder[c])
      /\ Sent(adder, f0.data)
  BY <1>1, <1>2, JobIs
<1>4. PICK first \in NewIds : first = IF f0.first = NotYet THEN f0.data ELSE f0.first
  BY <1>3 DEF JobType
<1>5. first = f0.data /\ first # NotYet
  BY <1>3, <1>4, BatchesAssumption DEF JobFixed
<1>6. PICK f : f = [f0 EXCEPT !.started = TRUE, !.first = first]
  OBVIOUS
<1>7. f \in JobType
  <2>1. TRUE \in BOOLEAN
    OBVIOUS
  <2> QED BY <2>1, <1>3, <1>6 DEF JobType
<1>8. f.data = f0.data /\ f.state = "active" /\ f.attempt = f0.attempt /\ f.first = first /\ f.started /\ f.retried = f0.retried
  BY <1>2, <1>3, <1>6 DEF JobType
<1>9. PICK ran : ran = [data |-> f0.data, at |-> moment]
  OBVIOUS
<1>10. ran \in [data : NewIds, at : Nat] /\ ran.data = f0.data /\ ran.at = moment
  BY <1>3, <1>9 DEF JobType
<1>11. PICK bh : bh = IF f0.first = NotYet THEN begun \cup {ran} ELSE begun
  OBVIOUS
<1>12. bh \in SUBSET [data : NewIds, at : Nat] /\ begun \subseteq bh
  BY <1>3, <1>10, <1>11
<1>13. JobFixed(f, bh)
  <2>1. \E r \in bh : r.data = f0.data
    <3>1. CASE f0.first = NotYet
      BY <3>1, <1>10, <1>11
    <3>2. CASE f0.first # NotYet
      BY <3>2, <1>3, <1>11 DEF JobFixed
    <3> QED BY <3>1, <3>2
  <2>2. f0.attempt >= 1
    BY <1>2, <1>3 DEF JobFixed
  <2> QED BY <1>5, <1>8, <2>1, <2>2 DEF JobFixed
<1>14. InTime(f, adder, moment) /\ RunInTime(ran, adder)
  <2>1. f0.state # "delayed"
    BY <1>2
  <2>2. InTime(f, adder, moment)
    BY <1>3, <1>8, <2>1, WaitIsOver
  <2>3. f0.data \in NewIds
    BY <1>3 DEF JobType
  <2>4. \A e \in NewIds : Sent(adder, e) /\ KindOf(adder, e) = "debounced" /\ f0.data = e =>
                            moment >= AnswerOf(adder, e).at + Wait
    BY <1>3, <2>1, WaitIsOver
  <2>5. Sent(adder, f0.data)
    BY <1>3
  <2>6. PICK e \in NewIds : e = f0.data /\ Sent(adder, e)
    BY <2>3, <2>5
  <2>7. KindOf(adder, e) = "debounced" => moment >= AnswerOf(adder, e).at + Wait
    BY <2>4, <2>6
  <2>8. Sent(adder, e) /\ ran.data = e /\ ran.at = moment
    BY <1>10, <2>6
  <2>9. RunInTime(ran, adder)
    BY <2>7, <2>8 DEF RunInTime
  <2> QED BY <2>2, <2>9
<1>15. \A r \in bh : RunInTime(r, adder)
  BY <1>3, <1>11, <1>14
<1>16. Becomes(j, f) /\ begun' = bh /\ dropped' = dropped
  BY <1>1, <1>4, <1>6, <1>9, <1>11 DEF StartsJob
<1> QED BY <1>1, <1>2, <1>7, <1>8, <1>12, <1>13, <1>14, <1>15, <1>16, BecomesKeeps

\* An active job, or a failed one, is past the wait of its data.
LEMMA OverKeeps ==
  ASSUME AddsInv, NEW j \in Ids, NEW f0, f0 = job[j], f0 # NoJob, f0.state \in {"active", "failed"},
         NEW f \in JobType, f.data = f0.data, f.first = f0.first, f.state # "active" \/ f.started,
         f.started => f0.started, f.first = NotYet \/ f.retried \/ f.attempt >= 1, f.state = "active" => f.attempt >= 1,
         Becomes(j, f), begun' = begun, dropped' = dropped
  PROVE  AddsInv'
<1>1. /\ f0 \in JobType /\ JobFixed(f0, begun) /\ InTime(f0, adder, moment) /\ moment \in Nat
      /\ begun \in SUBSET [data : NewIds, at : Nat] /\ \A ran \in begun : RunInTime(ran, adder)
      /\ adder \in [Calls -> AddCall] /\ \A c \in Calls : CallInStep(adder[c])
  BY JobIs
<1>2. f0.state # "delayed"
  OBVIOUS
<1>3. InTime(f, adder, moment)
  BY <1>1, <1>2, WaitIsOver
<1>4. /\ f0.first \in {NotYet, f0.data} /\ (f0.started => f0.first # NotYet)
      /\ f0.first # NotYet => \E ran \in begun : ran.data = f0.data
  BY <1>1 DEF JobFixed
<1>5. JobFixed(f, begun)
  BY <1>4 DEF JobFixed
<1> QED BY <1>1, <1>3, <1>5, BecomesKeeps

\* A job whose handler began before has an attempt left to tell.
LEMMA GivesBackKeepsAdds ==
  ASSUME AddsInv, NEW j \in Ids, GivesJobBack(j)
  PROVE  AddsInv'
<1>1. PICK f0 : f0 = job[j]
  OBVIOUS
<1>2. f0 # NoJob /\ f0.state = "active" /\ ~f0.started
  BY <1>1 DEF GivesJobBack, In
<1>3. f0 \in JobType /\ JobFixed(f0, begun)
  BY <1>1, <1>2, JobIs
<1>4. f0.attempt >= 1 /\ f0.attempt \in Nat
  BY <1>2, <1>3 DEF JobFixed, JobType
<1>5. PICK n \in Nat : n = f0.attempt - 1
  BY <1>4
<1>6. f0.first = NotYet \/ f0.retried \/ n >= 1
  <2>1. f0.attempt >= 2 => n >= 1
    BY <1>4, <1>5
  <2> QED BY <1>2, <1>3, <2>1 DEF JobFixed
<1>7. PICK f : f = [f0 EXCEPT !.state = "waiting", !.attempt = n]
  OBVIOUS
<1>8. f \in JobType
  BY <1>3, <1>7 DEF JobType
<1>9. /\ f.data = f0.data /\ f.state = "waiting" /\ f.attempt = n /\ f.first = f0.first /\ f.started = f0.started
      /\ f.retried = f0.retried
  BY <1>3, <1>7 DEF JobType
<1>10. Becomes(j, f) /\ begun' = begun /\ dropped' = dropped
  BY <1>1, <1>5, <1>7 DEF GivesJobBack
<1> QED BY <1>1, <1>2, <1>6, <1>8, <1>9, <1>10, OverKeeps

\* A run that failed or lapsed counts.
LEMMA FailsKeepsAdds ==
  ASSUME AddsInv, NEW j \in Ids, JobFails(j)
  PROVE  AddsInv'
<1>1. PICK f0 : f0 = job[j]
  OBVIOUS
<1>2. f0 # NoJob /\ f0.state = "active"
  BY <1>1 DEF JobFails, In
<1>3. f0 \in JobType /\ JobFixed(f0, begun) /\ moment \in Nat
  BY <1>1, <1>2, JobIs
<1>4. PICK n \in Nat : n = moment + 1
  BY <1>3
<1>5. PICK state \in {"waiting", "delayed", "failed"} :
        Becomes(j, [job[j] EXCEPT !.state = state, !.started = FALSE, !.runAt = moment + 1])
  BY DEF JobFails
<1>6. PICK f : f = [f0 EXCEPT !.state = state, !.started = FALSE, !.runAt = n]
  OBVIOUS
<1>7. f \in JobType
  <2>1. FALSE \in BOOLEAN
    OBVIOUS
  <2> QED BY <2>1, <1>3, <1>6 DEF JobType
<1>8. /\ f.data = f0.data /\ f.state = state /\ f.attempt = f0.attempt /\ f.first = f0.first /\ ~f.started
      /\ f.retried = f0.retried
  BY <1>3, <1>6 DEF JobType
<1>9. f0.attempt >= 1
  BY <1>2, <1>3 DEF JobFixed
<1>10. Becomes(j, f)
  BY <1>1, <1>4, <1>5, <1>6
<1>11. begun' = begun /\ dropped' = dropped
  BY DEF JobFails
<1> QED BY <1>1, <1>2, <1>7, <1>8, <1>9, <1>10, <1>11, OverKeeps

\* What completes has run.
LEMMA CompletesKeepsAdds ==
  ASSUME AddsInv, NEW j \in Ids, JobCompletes(j)
  PROVE  AddsInv'
<1>1. PICK f0 : f0 = job[j]
  OBVIOUS
<1>2. f0 # NoJob /\ f0.state = "active" /\ f0.started
  BY <1>1 DEF JobCompletes, In
<1>3. f0 \in JobType /\ JobFixed(f0, begun)
  BY <1>1, <1>2, JobIs
<1>4. f0.first = f0.data /\ f0.attempt >= 1 /\ \E ran \in begun : ran.data = f0.data
  BY <1>2, <1>3 DEF JobFixed
<1>5. begun' = begun /\ dropped' = dropped
  BY DEF JobCompletes
<1>6. CASE Becomes(j, NoJob)
  <2>1. dropped \in SUBSET NewIds
    BY DEF AddsInv, AddsIn, AddsTypes
  <2> QED BY <1>1, <1>2, <1>4, <1>5, <1>6, <2>1, LeavesKeeps
<1>7. CASE Becomes(j, [job[j] EXCEPT !.state = "completed"])
  <2>1. PICK f : f = [f0 EXCEPT !.state = "completed"]
    OBVIOUS
  <2>2. f \in JobType
    BY <1>3, <2>1 DEF JobType
  <2>3. f.data = f0.data /\ f.state = "completed" /\ f.attempt = f0.attempt /\ f.first = f0.first /\ f.started = f0.started
    BY <1>3, <2>1 DEF JobType
  <2>4. Becomes(j, f)
    BY <1>1, <1>7, <2>1
  <2> QED BY <1>1, <1>2, <1>4, <1>5, <2>2, <2>3, <2>4, OverKeeps
<1> QED BY <1>6, <1>7 DEF JobCompletes

\* A retry forgets the attempts, and says that it was put back.
LEMMA RetriesKeepsAdds ==
  ASSUME AddsInv, NEW j \in Ids, RetriesJob(j)
  PROVE  AddsInv'
<1>1. PICK f0 : f0 = job[j]
  OBVIOUS
<1>2. f0 # NoJob /\ f0.state = "failed"
  BY <1>1 DEF RetriesJob, In
<1>3. f0 \in JobType /\ JobFixed(f0, begun) /\ moment \in Nat
  BY <1>1, <1>2, JobIs
<1>4. PICK f : f = [f0 EXCEPT !.state = "waiting", !.attempt = 0, !.retried = TRUE, !.runAt = moment]
  OBVIOUS
<1>5. f \in JobType
  <2>1. TRUE \in BOOLEAN /\ 0 \in Nat
    OBVIOUS
  <2> QED BY <2>1, <1>3, <1>4 DEF JobType
<1>6. f.data = f0.data /\ f.state = "waiting" /\ f.first = f0.first /\ f.started = f0.started /\ f.retried
  BY <1>3, <1>4 DEF JobType
<1>7. Becomes(j, f) /\ begun' = begun /\ dropped' = dropped
  BY <1>1, <1>4 DEF RetriesJob
<1> QED BY <1>1, <1>2, <1>5, <1>6, <1>7, OverKeeps

\* What is taken away by hand is known as dropped.
LEMMA DropsKeepsAdds ==
  ASSUME AddsInv, NEW j \in Ids, job[j] # NoJob, Drops(j)
  PROVE  AddsInv'
<1>1. dropped \in SUBSET NewIds /\ job[j] \in JobType
  BY JobIs DEF AddsInv, AddsIn, AddsTypes
<1>2. PICK ds : ds = dropped \cup {job[j].data}
  OBVIOUS
<1>3. ds \in SUBSET NewIds /\ dropped \subseteq ds /\ job[j].data \in ds
  BY <1>1, <1>2 DEF JobType
<1>4. Becomes(j, NoJob) /\ begun' = begun /\ dropped' = ds
  BY <1>2 DEF Drops
<1> QED BY <1>3, <1>4, LeavesKeeps

\* Nothing was sent yet.
LEMMA AddsInitInv ==
  AddsInit => AddsInv
<1> SUFFICES ASSUME AddsInit PROVE AddsInv
  OBVIOUS
<1>1. PICK items \in Batches :
        adder = [c \in Calls |-> [items |-> items[c], at |-> 1, phase |-> "new", answers |-> <<>>]]
  BY DEF AddsInit
<1>2. \A c \in Calls : items[c] \in Seq(Kinds) /\ Len(items[c]) <= MaxItems /\ Len(items[c]) \in Nat
  BY BatchesAssumption
<1>3. <<>> \in Seq(AnswerType) /\ Len(<<>>) = 0 /\ 1 \in Nat \ {0}
  OBVIOUS
<1>4. adder \in [Calls -> AddCall]
  BY <1>1, <1>2, <1>3 DEF AddCall
<1>5. \A c \in Calls : adder[c].at = 1 /\ adder[c].phase = "new" /\ adder[c].answers = <<>> /\ adder[c].items = items[c]
  BY <1>1
<1>6. ASSUME NEW c \in Calls PROVE CallInStep(adder[c])
  <2>1. PICK n \in Nat : n = Len(items[c]) /\ n <= MaxItems
    BY <1>2
  <2>2. Len(adder[c].items) = n /\ Len(adder[c].answers) = 0 /\ adder[c].at = 1
    BY <1>3, <1>5, <2>1
  <2>3. Len(adder[c].items) <= MaxItems /\ Len(adder[c].answers) = adder[c].at - 1 /\ adder[c].at <= Len(adder[c].items) + 1
    BY <2>1, <2>2
  <2>4. adder[c].phase # "sending"
    BY <1>5
  <2> QED BY <2>2, <2>3, <2>4 DEF CallInStep
<1>7. \A e : ~Sent(adder, e)
  <2>1. \A e \in NewIds : e[1] \in Calls /\ e[2] \in 1 .. MaxItems
    BY DEF NewIds
  <2>2. \A n \in 1 .. MaxItems : ~(n < 1)
    OBVIOUS
  <2> QED BY <1>5, <2>1, <2>2 DEF Sent
<1>8. job = [j \in Ids |-> NoJob] /\ named = [k \in Keys |-> NoKey] /\ begun = {} /\ lastEdit = NotYet
        /\ dropped = {} /\ moment = 0
  BY DEF AddsInit
<1>9. NoKey \in KeyType /\ ThrottleKey \in Keys
  <2>1. 0 \in Nat
    OBVIOUS
  <2> QED BY <2>1 DEF NoKey, KeyType, Keys
<1>10. AddsTypes(moment, job, named, adder, begun, lastEdit, dropped)
  BY <1>4, <1>8, <1>9 DEF AddsTypes
<1>11. Let(adder) = {}
  BY <1>7 DEF Let
<1>12. Windows(adder, named)
  <2>1. named[ThrottleKey] = NoKey
    BY <1>8, <1>9
  <2> QED BY <1>7, <1>11, <2>1 DEF Windows, Apart, Collapsed, KeyIsLet, KeyLasts
<1>13. LastKept(job, begun, lastEdit, dropped)
  BY <1>8 DEF LastKept
<1> QED BY <1>6, <1>7, <1>8, <1>10, <1>12, <1>13 DEF AddsInv, AddsIn

\* Every step keeps the invariant.
LEMMA AddsStepInv ==
  AddsInv /\ [AddsNext]_addVars => AddsInv'
<1> SUFFICES ASSUME AddsInv, [AddsNext]_addVars PROVE AddsInv'
  OBVIOUS
<1>1. ASSUME NEW c \in Calls, Checks(c) PROVE AddsInv'
  BY <1>1, ChecksKeepsAdds
<1>2. ASSUME NEW c \in Calls, AddsChunk(c) PROVE AddsInv'
  BY <1>2, AddsChunkKeepsAdds
<1>3. ASSUME NEW j \in Ids, ClaimsJob(j) PROVE AddsInv'
  BY <1>3, ClaimsKeepsAdds
<1>4. ASSUME NEW j \in Ids, StartsJob(j) PROVE AddsInv'
  BY <1>4, StartsKeepsAdds
<1>5. ASSUME NEW j \in Ids, GivesJobBack(j) PROVE AddsInv'
  BY <1>5, GivesBackKeepsAdds
<1>6. ASSUME NEW j \in Ids, JobFails(j) PROVE AddsInv'
  BY <1>6, FailsKeepsAdds
<1>7. ASSUME NEW j \in Ids, JobCompletes(j) PROVE AddsInv'
  BY <1>7, CompletesKeepsAdds
<1>8. ASSUME NEW j \in Ids, RetriesJob(j) PROVE AddsInv'
  BY <1>8, RetriesKeepsAdds
<1>9. ASSUME NEW j \in Ids, CancelsJob(j) PROVE AddsInv'
  BY <1>9, DropsKeepsAdds DEF CancelsJob, In
<1>10. ASSUME NEW j \in Ids, RemovesJob(j) PROVE AddsInv'
  BY <1>10, DropsKeepsAdds DEF RemovesJob, In
<1>11. CASE Closes
  BY <1>11 DEF AddsInv, Closes
<1>12. CASE TimePasses
  <2>1. AddsIn(moment + 1, job, named, adder, begun, lastEdit, dropped)
    BY ClockKeeps DEF AddsInv
  <2> QED BY <1>12, <2>1 DEF AddsInv, TimePasses
<1>13. CASE UNCHANGED addVars
  BY <1>13 DEF AddsInv, addVars
<1> QED BY <1>1, <1>2, <1>3, <1>4, <1>5, <1>6, <1>7, <1>8, <1>9, <1>10, <1>11, <1>12, <1>13 DEF AddsNext

\* The invariant says everything the runs check of a state.
LEMMA AddsInvKeeps ==
  AddsInv => AddsKept
<1> SUFFICES ASSUME AddsInv PROVE AddsKept
  OBVIOUS
<1>1. AddsIn(moment, job, named, adder, begun, lastEdit, dropped)
  BY DEF AddsInv
<1>2. adder \in [Calls -> AddCall] /\ \A c \in Calls : CallInStep(adder[c])
  BY <1>1 DEF AddsIn, AddsTypes
<1>3. ASSUME NEW e \in NewIds
      PROVE  Sent(adder, e) <=> e[2] \in DOMAIN adder[e[1]].answers
  <2>1. e[1] \in Calls /\ e[2] \in 1 .. MaxItems
    BY DEF NewIds
  <2>2. adder[e[1]].answers \in Seq(AnswerType) /\ adder[e[1]].at \in Nat \ {0}
    BY <1>2, <2>1 DEF AddCall
  <2>3. Len(adder[e[1]].answers) = adder[e[1]].at - 1
    BY <1>2, <2>1 DEF CallInStep
  <2>4. DOMAIN adder[e[1]].answers = 1 .. adder[e[1]].at - 1
    BY <2>2, <2>3
  <2> QED BY <2>1, <2>2, <2>4, QueueAddsAssumption DEF Sent
<1>4. \A e : AnswerTo(e) = AnswerOf(adder, e)
  BY DEF AnswerTo, AnswerOf
<1>5. \A kind : AnswersTo(kind) = {e \in NewIds : Sent(adder, e) /\ KindOf(adder, e) = kind}
  BY <1>3 DEF AnswersTo, KindOf
<1>6. FixedOnceBegun
  BY <1>1 DEF AddsIn, JobFixed, FixedOnceBegun
<1>7. LastEditKept
  BY <1>1 DEF AddsIn, LastKept, LastEditKept
<1>8. RunsAfterWait
  <2> SUFFICES ASSUME NEW e \in AnswersTo("debounced"), NEW ran \in begun, ran.data = e
               PROVE  ran.at >= AnswerTo(e).at + Wait
    BY DEF RunsAfterWait
  <2>1. RunInTime(ran, adder)
    BY <1>1 DEF AddsIn
  <2>2. e \in NewIds /\ KindOf(adder, e) = "debounced"
    BY <1>5
  <2> QED BY <1>4, <2>1, <2>2 DEF RunInTime
<1>9. OnePerWindow
  <2>1. Windows(adder, named)
    BY <1>1 DEF AddsIn
  <2>2. {e \in AnswersTo("throttled") : ~AnswerTo(e).deduplicated} = Let(adder)
    BY <1>4, <1>5 DEF Let
  <2>3. \A d, e : Near(adder, d, e) <=> AnswerTo(d).at <= AnswerTo(e).at /\ AnswerTo(e).at < AnswerTo(d).at + Window
    BY <1>4 DEF Near
  <2>4. \A d, e \in Let(adder) : d # e => ~Near(adder, d, e)
    BY <2>1 DEF Windows, Apart
  <2>5. ASSUME NEW e \in AnswersTo("throttled") \ Let(adder)
        PROVE  \E d \in Let(adder) : AnswerTo(d).id = AnswerTo(e).id /\ Near(adder, d, e)
    <3>1. e \in NewIds /\ Sent(adder, e) /\ KindOf(adder, e) = "throttled" /\ AnswerOf(adder, e).deduplicated
      BY <1>5, <2>5 DEF Let
    <3> QED BY <1>4, <2>1, <3>1 DEF Windows, Collapsed
  <2> QED BY <2>2, <2>3, <2>4, <2>5 DEF OnePerWindow
<1>10. RefusedWhole
  <2> SUFFICES ASSUME NEW c \in Calls, adder[c].phase = "refused", NEW j \in Ids, job[j] # NoJob
               PROVE  job[j].data[1] # c
    BY DEF RefusedWhole
  <2>1. adder[c].at = 1
    BY <1>2 DEF CallInStep
  <2>2. PICK e : e = job[j].data /\ Sent(adder, e)
    BY <1>1 DEF AddsIn
  <2>3. e[2] \in 1 .. MaxItems /\ e[2] < adder[e[1]].at
    BY <2>2 DEF Sent, NewIds
  <2> QED BY <2>1, <2>2, <2>3
<1> QED BY <1>6, <1>7, <1>8, <1>9, <1>10 DEF AddsKept

\* Whatever the calls, batches, chunks and keys, and however often jobs are
\* lost, given back, retried, canceled and removed meanwhile: a run is not
\* changed by a later add, an edit is not lost, nothing debounced runs early,
\* a throttle lets one through per window, and a refused batch wrote nothing.
THEOREM AddsKeptHolds == AddsSpec => []AddsKept
<1>1. AddsSpec => []AddsInv
  BY AddsInitInv, AddsStepInv, PTL DEF AddsSpec
<1> QED BY <1>1, AddsInvKeeps, PTL
=============================================================================
