------------------------------ MODULE JobQueue ------------------------------
(***************************************************************************)
(* A queue and its workers (packages/redis/src/queue): the store of        *)
(* JobStore, changed by one atomic script at a time, and worker processes  *)
(* that claim jobs into free slots, run their handler under a renewed      *)
(* lease, settle them, sleep on the `wake' list, crash, lose replies and   *)
(* close.                                                                  *)
(*                                                                         *)
(* A run is one attempt of a job, named by its token, from the reply of    *)
(* the script that claimed it to the end of its slot's turn.               *)
(***************************************************************************)
EXTENDS JobStore

CONSTANTS
  Workers,      \* worker objects, in any number of processes
  Concurrency,  \* slots of a worker
  MaxWait,      \* the 5 s cap on a blocked wait
  Delays,       \* the delays an add may ask for
  RetryDelays,  \* the delays a failed attempt may ask for, -1 for no retry
  MaxTold       \* messages on their way at a time; one beyond them is lost

ASSUME QueueAssumption ==
  /\ IsFiniteSet(Workers) /\ Concurrency \in Nat \ {0}
  /\ MaxWait \in Nat \ {0}
  /\ Delays \subseteq Nat /\ RetryDelays \subseteq Nat \cup {-1}
  /\ MaxTold \in Nat

VARIABLES
  db,       \* Redis
  worker,   \* the loop of each worker
  run,      \* the runs, by token
  told      \* what is on its way to a worker about a job it held

vars == <<db, worker, run, told>>

\* "claim": about to count its free slots; "sent": it counted `free' of them,
\* and its CLAIM is on its way; "reply": it ran, the reply is on its way;
\* "wait": in BLPOP for `left' more; "ended": the loop returned.  `open' is
\* context.open.
Worker == [ open : BOOLEAN, phase : {"claim", "sent", "reply", "wait", "ended"},
            left : 0 .. MaxWait, free : 0 .. Concurrency ]

NewWorker == [open |-> TRUE, phase |-> "claim", left |-> 0, free |-> 0]

\* "offered": in the reply of the loop's CLAIM; "next": in the reply of the
\* slot's own settle; "running": the handler runs; "ending": it returned, threw
\* or timed out, the settle is on its way; "aborted": it was cut off, and
\* settles nothing.  `leased': in the worker's renewals; `next': the slot's next
\* script claims.
Run == [ job : Jobs, worker : Workers,
         phase : {"offered", "next", "running", "ending", "aborted"},
         leased : BOOLEAN, next : BOOLEAN ]

\* A canceled event, or an entry of a RENEW's reply; by the time it comes the
\* worker may run the same id under another token.
Message == [what : {"canceled", "lost"}, to : Workers, job : Jobs, token : Tokens]

Init ==
  /\ db = EmptyStore
  /\ worker = [w \in Workers |-> NewWorker]
  /\ run = <<>>
  /\ told = {}

RunsOf(w) == { t \in DOMAIN run : run[t].worker = w }
InPhase(w, p) == { t \in RunsOf(w) : run[t].phase = p }

Slots(w) == RunsOf(w) \ InPhase(w, "offered")

\* Counts the handlers that run, not the slots that settle or claim.
BadFree(w) == Concurrency - Cardinality(InPhase(w, "running"))

Free(w) == Concurrency - Cardinality(Slots(w))

Fresh ==
  Tokens \ (DOMAIN run \cup { db.hash[j].token : j \in Jobs } \cup { m.token : m \in told })

\* The messages M are sent, or lost.
Tell(M) == told' = IF Cardinality(told \cup M) <= MaxTold THEN told \cup M ELSE told

\* The worker of the runs T is told that they lost their jobs.
LostOf(T) ==
  { [what |-> "lost", to |-> run[t].worker, job |-> run[t].job, token |-> t] : t \in T }

\* The runs without those of T, and with the jobs of `tok' in phase p.
Replaced(T, w, tok, p) ==
  LET begun == { tok[j] : j \in DOMAIN tok }
  IN  [t \in (DOMAIN run \ T) \cup begun |->
        IF t \in begun
        THEN [ job |-> CHOOSE j \in DOMAIN tok : tok[j] = t, worker |-> w, phase |-> p,
               leased |-> FALSE, next |-> FALSE ]
        ELSE run[t]]

Without(T) == Replaced(T, CHOOSE w \in Workers : TRUE, <<>>, "offered")

WaitFor(d) ==
  LET t == NextWait(d, MaxWait) IN IF t <= 0 THEN MaxWait ELSE Min2(t, MaxWait)

(***************************************************************************)
(* The worker's loop                                                       *)
(***************************************************************************)

\* loop: the slots free now are what its CLAIM asks for; meanwhile slots end,
\* settle and claim for themselves.
CountFree(w) ==
  /\ worker[w].phase = "claim" /\ worker[w].open /\ Free(w) > 0
  /\ worker' = [worker EXCEPT ![w].phase = "sent", ![w].free = Free(w)]
  /\ UNCHANGED <<db, run, told>>

\* The CLAIM runs, of a worker closed since too.
Claim(w) ==
  /\ worker[w].phase = "sent"
  /\ \E r \in Claims(db, worker[w].free, Fresh) :
       /\ db' = r.db
       /\ run' = Replaced({}, w, r.tok, "offered")
       /\ worker' = [worker EXCEPT ![w].phase = "reply", ![w].left = WaitFor(r.db),
                                   ![w].free = 0]
  /\ UNCHANGED told

\* start: every job of the reply takes a slot and its handler begins.  The
\* renewals are by id: a run of the same job still in them is renewed no more.
Started(T) ==
  [t \in DOMAIN run |->
    IF t \in T THEN [run[t] EXCEPT !.phase = "running", !.leased = TRUE]
    ELSE IF \E s \in T : run[s].job = run[t].job /\ run[s].worker = run[t].worker
         THEN [run[t] EXCEPT !.leased = FALSE]
         ELSE run[t]]

StartOffered(w) ==
  /\ worker[w].phase = "reply" /\ worker[w].open
  /\ run' = Started(InPhase(w, "offered"))
  /\ worker' = [worker EXCEPT ![w].phase =
                  IF Cardinality(RunsOf(w)) < Concurrency THEN "wait" ELSE "claim"]
  /\ UNCHANGED <<db, told>>

\* BLPOP pops the token, or times out.
WakeUp(w) ==
  /\ worker[w].phase = "wait" /\ db.wake = 1
  /\ db' = [db EXCEPT !.wake = 0]
  /\ worker' = [worker EXCEPT ![w].phase = "claim", ![w].left = 0]
  /\ UNCHANGED <<run, told>>

\* A wait with no cap.
BadWaitEnds(w) ==
  /\ worker[w].phase = "wait" /\ worker[w].left = 0 /\ db.wake = 1
  /\ worker' = [worker EXCEPT ![w].phase = "claim"]
  /\ UNCHANGED <<db, run, told>>

WaitEnds(w) ==
  /\ worker[w].phase = "wait" /\ worker[w].left = 0
  /\ worker' = [worker EXCEPT ![w].phase = "claim"]
  /\ UNCHANGED <<db, run, told>>

(***************************************************************************)
(* A slot                                                                  *)
(***************************************************************************)

\* The handler returned, threw or ran past its timeout.  Whether the settle
\* claims the next job is decided when it is sent.
HandlerEnds(t) ==
  /\ run[t].phase = "running"
  /\ run' = [run EXCEPT ![t].phase = "ending", ![t].next = worker[run[t].worker].open]
  /\ UNCHANGED <<db, worker, told>>

\* The rest of a settle, of the store d its own lines left: with `next' it
\* claims one job into the slot, and a retry that heads `delayed' wakes a worker.
SettleAs(t, d, retryIn) ==
  IF run[t].next
  THEN \E r \in Claims(d, 1, Fresh) :
         /\ db' = HeadWake(db, run[t].job, retryIn, r.db)
         /\ run' = Replaced({t}, run[t].worker, r.tok, "next")
  ELSE /\ db' = HeadWake(db, run[t].job, retryIn, d)
       /\ run' = Without({t})

\* A RENEW sent while the reply of t's settle is on its way still names it.
BeatBehind(t) == \E M \in {{}, LostOf({ s \in {t} : run[s].leased })} : Tell(M)

CompleteRun(t) ==
  /\ run[t].phase = "ending" /\ BeatBehind(t)
  /\ \E d \in IF Holds(db, run[t].job, t) THEN Complete(db, run[t].job) ELSE {db} :
       SettleAs(t, d, -1)
  /\ UNCHANGED worker

FailRun(t, retryIn) ==
  /\ run[t].phase = "ending" /\ BeatBehind(t)
  /\ IF Holds(db, run[t].job, t)
     THEN \E d \in Fail(db, run[t].job, retryIn) : SettleAs(t, d, retryIn)
     ELSE SettleAs(t, db, -1)
  /\ UNCHANGED worker

\* runSlot, with the reply of the settle: the next job runs in the same slot.
StartNext(t) ==
  /\ run[t].phase = "next" /\ worker[run[t].worker].open
  /\ run' = Started({t})
  /\ UNCHANGED <<db, worker, told>>

\* abortRun: the handler is cut off; the slot then claims its next job itself.
Aborted(T) ==
  [t \in DOMAIN run |->
    IF t \in T
    THEN [run[t] EXCEPT !.phase = IF @ = "running" THEN "aborted" ELSE @,
                        !.next  = IF run[t].phase = "running"
                                  THEN worker[run[t].worker].open ELSE @,
                        !.leased = @ /\ run[t].phase # "running"]
    ELSE run[t]]

\* Compares the ids only.
BadNamed(m) == { t \in RunsOf(m.to) : run[t].job = m.job }

\* The run a message is about, by id and token: none, once it ended.
Named(m) == { t \in RunsOf(m.to) : run[t].job = m.job /\ t = m.token }

\* hearCancels
HearCancel(m) ==
  /\ m.what = "canceled"
  /\ run' = Aborted(Named(m)) /\ told' = told \ {m}
  /\ UNCHANGED <<db, worker>>

\* keepLeases: the reply of a RENEW.  A run still in the renewals leaves them and
\* is aborted as LEASE_LOST.
HearLost(m) ==
  LET gone == { t \in Named(m) : run[t].leased }
  IN  /\ m.what = "lost"
      /\ run' = [t \in DOMAIN run |->
                  IF t \in gone THEN [Aborted(gone)[t] EXCEPT !.leased = FALSE] ELSE run[t]]
      /\ told' = told \ {m}
      /\ UNCHANGED <<db, worker>>

LoseMessage(m) == told' = told \ {m} /\ UNCHANGED <<db, worker, run>>

ClaimAfterAbort(t) ==
  /\ run[t].phase = "aborted" /\ run[t].next
  /\ SettleAs(t, db, -1)
  /\ UNCHANGED <<worker, told>>

EndAborted(t) ==
  /\ run[t].phase = "aborted" /\ ~worker[run[t].worker].open
  /\ run' = Without({t})
  /\ UNCHANGED <<db, worker, told>>

\* keepLeases: one RENEW for all the runs in the renewals; those whose token is
\* gone are named in its reply.
Renew(w) ==
  LET sent == { t \in RunsOf(w) : run[t].leased }
      held == { t \in sent : Holds(db, run[t].job, t) }
  IN  /\ sent # {}
      /\ db' = Renewed(db, { run[t].job : t \in held })
      /\ Tell(LostOf(sent \ held))
      /\ UNCHANGED <<worker, run>>

(***************************************************************************)
(* Closing a worker                                                        *)
(***************************************************************************)

\* closeWorker: nothing starts from here on, a pending BLPOP ends -- with the
\* token, when it had popped one.
Close(w) ==
  /\ worker[w].open
  /\ worker' = [worker EXCEPT ![w].open = FALSE,
                              ![w].phase = IF @ = "wait" THEN "ended" ELSE @,
                              ![w].left = 0]
  /\ db' \in IF worker[w].phase = "wait" THEN {db, [db EXCEPT !.wake = 0]} ELSE {db}
  /\ UNCHANGED <<run, told>>

\* The loop sees the close before it sends another CLAIM: where it goes round,
\* or behind the SYNC.
LoopEnds(w) ==
  /\ worker[w].phase \in {"claim", "sent"} /\ ~worker[w].open
  /\ worker' = [worker EXCEPT ![w].phase = "ended", ![w].free = 0]
  /\ UNCHANGED <<db, run, told>>

\* giveBack: one RELEASE for the jobs of a reply that came after the close.
ReleaseRuns(T) ==
  \E ord \in Orders[{ run[t].job : t \in { s \in T : Holds(db, run[s].job, s) } }] :
    db' = Release(db, { run[t].job : t \in { s \in T : Holds(db, run[s].job, s) } }, ord)

GiveBackOffered(w) ==
  /\ worker[w].phase = "reply" /\ ~worker[w].open
  /\ ReleaseRuns(InPhase(w, "offered"))
  /\ run' = Without(InPhase(w, "offered"))
  /\ worker' = [worker EXCEPT ![w].phase = "ended", ![w].left = 0]
  /\ UNCHANGED told

GiveBackNext(t) ==
  /\ run[t].phase = "next" /\ ~worker[run[t].worker].open
  /\ ReleaseRuns({t})
  /\ run' = Without({t})
  /\ UNCHANGED <<worker, told>>

\* abortAll once the grace has passed.
AbortAll(w) ==
  /\ ~worker[w].open /\ InPhase(w, "running") # {}
  /\ run' = Aborted(InPhase(w, "running"))
  /\ UNCHANGED <<db, worker, told>>

\* Nothing that is on its way finds the worker any more.
Unheard(w) == told' = { m \in told : m.to # w }

\* A new worker takes the place of one that is done.
Restart(w) ==
  /\ worker[w].phase = "ended" /\ RunsOf(w) = {}
  /\ worker' = [worker EXCEPT ![w] = NewWorker] /\ Unheard(w)
  /\ UNCHANGED <<db, run>>

(***************************************************************************)
(* Failures                                                                *)
(***************************************************************************)

\* The process dies: its jobs stay active until their leases lapse.
Crash(w) ==
  /\ worker[w].phase # "ended" \/ RunsOf(w) # {}
  /\ worker' = [worker EXCEPT ![w] = [NewWorker EXCEPT !.open = FALSE, !.phase = "ended"]]
  /\ run' = Without(RunsOf(w)) /\ Unheard(w)
  /\ db' \in IF worker[w].phase = "wait" THEN {db, [db EXCEPT !.wake = 0]} ELSE {db}

\* CLAIM never ran, or its reply was lost (the loop backs off and claims again),
\* or after the close the RELEASE failed.
LoseClaim(w) ==
  /\ worker[w].phase \in {"sent", "reply"}
  /\ run' = Without(InPhase(w, "offered"))
  /\ worker' = [worker EXCEPT ![w].phase = IF worker[w].open THEN "claim" ELSE "ended",
                              ![w].left = 0, ![w].free = 0]
  /\ UNCHANGED <<db, told>>

\* The blocked connection failed, maybe after its BLPOP popped the token.
LoseWait(w) ==
  /\ worker[w].phase = "wait"
  /\ worker' = [worker EXCEPT ![w].phase = "claim", ![w].left = 0]
  /\ db' \in {db, [db EXCEPT !.wake = 0]}
  /\ UNCHANGED <<run, told>>

\* A settle never reached Redis, or ran and its reply was lost, or a RELEASE
\* failed: the slot ends, and what it held lapses.
LoseSlot(t) ==
  /\ run[t].phase \in {"ending", "next"}
  /\ run' = Without({t})
  /\ UNCHANGED <<db, worker, told>>

(***************************************************************************)
(* The clients of the queue, and time                                      *)
(***************************************************************************)

Add(j, delay) == db' = AddJob(db, j, delay) /\ UNCHANGED <<worker, run, told>>

\* CANCEL, and the event it publishes with the token of an active job, to every
\* worker that listens.
CancelJob(j) ==
  LET t == db.hash[j].token
  IN  /\ Cancelable(db, j)
      /\ db' = Cancel(db, j)
      /\ \E W \in SUBSET Workers :
           Tell({ [what |-> "canceled", to |-> w, job |-> j, token |-> t] :
                    w \in { v \in W : t # None } })
      /\ UNCHANGED <<worker, run>>

RetryJob(j) == Retryable(db, j) /\ db' = Retry(db, j) /\ UNCHANGED <<worker, run, told>>

RemoveJob(j) == Removable(db, j) /\ db' = Remove(db, j) /\ UNCHANGED <<worker, run, told>>

PauseQueue == db' = Pause(db) /\ UNCHANGED <<worker, run, told>>

ResumeQueue == db' = Resume(db) /\ UNCHANGED <<worker, run, told>>

Tick ==
  /\ db' = PassTime(db)
  /\ worker' = [w \in Workers |-> [worker[w] EXCEPT
                  !.left = IF worker[w].phase = "wait" THEN Max2(0, @ - 1) ELSE @]]
  /\ UNCHANGED <<run, told>>

(***************************************************************************)
(* The specification                                                       *)
(***************************************************************************)

LoopNext(w) == CountFree(w) \/ Claim(w) \/ StartOffered(w) \/ WakeUp(w) \/ WaitEnds(w)

Settle(t) == CompleteRun(t) \/ \E retryIn \in RetryDelays : FailRun(t, retryIn)

SlotNext(t) ==
  HandlerEnds(t) \/ Settle(t) \/ StartNext(t) \/ ClaimAfterAbort(t) \/ EndAborted(t)

MessageNext(m) == HearCancel(m) \/ HearLost(m) \/ LoseMessage(m)

CloseNext(w) ==
  Close(w) \/ LoopEnds(w) \/ GiveBackOffered(w) \/ AbortAll(w) \/ Restart(w) \/ Crash(w)

ClientNext ==
  \/ \E j \in Jobs : \/ \E delay \in Delays : Add(j, delay)
                     \/ CancelJob(j) \/ RetryJob(j) \/ RemoveJob(j)
  \/ PauseQueue \/ ResumeQueue

\* Everything but the end of a worker.
OpenNext ==
  \/ \E w \in Workers : LoopNext(w) \/ Renew(w) \/ LoseClaim(w) \/ LoseWait(w)
  \/ \E t \in DOMAIN run : SlotNext(t) \/ LoseSlot(t)
  \/ \E m \in told : MessageNext(m)
  \/ ClientNext
  \/ Tick

Next ==
  \/ OpenNext
  \/ \E w \in Workers : CloseNext(w)
  \/ \E t \in DOMAIN run : GiveBackNext(t)

Spec == Init /\ [][Next]_vars

\* Jobs are added, workers run them, replies are lost, and every worker but
\* those of `steady' may crash and be replaced.
BusyNext(steady) ==
  \/ \E w \in Workers : LoopNext(w) \/ Renew(w) \/ LoseClaim(w) \/ LoseWait(w)
  \/ \E w \in Workers \ steady : Crash(w) \/ Restart(w)
  \/ \E t \in DOMAIN run : SlotNext(t) \/ LoseSlot(t)
  \/ \E m \in told : MessageNext(m)
  \/ \E j \in Jobs, delay \in Delays : Add(j, delay)
  \/ Tick

\* The clock advances, the loop of a live worker goes on, whose claims are not
\* all lost, a slot goes on -- its handler ends, by itself or by its timeout --
\* and what is on its way comes or is lost.
Fairness ==
  /\ WF_vars(Tick)
  /\ \A w \in Workers : WF_vars(LoopNext(w)) /\ SF_vars(Claim(w))
  /\ \A t \in Tokens : /\ WF_vars(t \in DOMAIN run /\ SlotNext(t))
                        /\ WF_vars(\E m \in told : m.token = t /\ MessageNext(m))

(***************************************************************************)
(* Properties                                                              *)
(***************************************************************************)

\* The types of the four variables; the times left stay within the range the
\* scripts tell apart.
TypeOK ==
  /\ IsStore(db)
  /\ worker \in [Workers -> Worker]
  /\ DOMAIN run \subseteq Tokens
  /\ \A t \in DOMAIN run : run[t] \in Run
  /\ told \subseteq Message

\* Whatever scripts ran, in whatever order, every job is in exactly the set
\* its hash names (scripts/*.ts move an id and write `state' line by line).
JobsInPlace == SetsMatchHash(db)

\* A token is held exactly by an active job, by one job only, and the run that
\* carries it runs that job: trusting the token alone, as the settles do, never
\* settles another job.
TokenIsFence ==
  /\ TokensFence(db)
  /\ \A j \in Jobs : db.hash[j].token \in DOMAIN run => run[db.hash[j].token].job = j

\* A job that is queued has an attempt left and one that runs has been counted,
\* through retries, lapses and jobs given back: no attempt beyond `attempts'.
AttemptBudget == AttemptsLeft(db)

\* A worker has no more runs than slots, whatever is in flight: its loop asks for
\* the slots it counted free, while the slots' own settles claim for themselves.
SlotsBounded == \A w \in Workers : Cardinality(RunsOf(w)) <= Concurrency

\* A run cut off while its worker stays open holds its job no more, however late
\* the cancel or the renewal that named it is heard: settling nothing of it
\* (settleAborted) strands no job until its lease lapses.
AbortedHoldsNothing ==
  \A t \in DOMAIN run :
    run[t].phase = "aborted" /\ run[t].next => ~Holds(db, run[t].job, t)

\* A slot serves one job at a time: none is given out twice between the loop's
\* claim and the slots' own (loop.ts: free, run-job.ts: runSlot), and one that was
\* cut off is free to go on (abort.ts: hearCancels, keepLeases).
SlotsSound == SlotsBounded /\ AbortedHoldsNothing

\* A worker that will send a CLAIM without being woken.
AboutToClaim(w) ==
  /\ worker[w].open
  /\ worker[w].phase = "sent" \/ (worker[w].phase = "claim" /\ Free(w) > 0)

\* While workers neither close nor crash, claimable work is never left with
\* neither a token on `wake' nor a worker about to claim: the baton the claim
\* passes, and the token each add, retry, give-back and resume leaves, suffice.
WorkHasWaker ==
  db.ready # {} /\ ~db.paused => db.wake = 1 \/ \E w \in Workers : AboutToClaim(w)

\* A job leaves the run that holds it only by that run's own settle or
\* give-back, by a cancel, or by a lease that lapsed: never by another
\* worker's claim while the lease holds.
NoTheft ==
  [][\A j \in Jobs :
       LET t == db.hash[j].token
       IN  t # None /\ db'.hash[j].token # t =>
             \/ t \in DOMAIN run /\ t \notin DOMAIN run'
             \/ db'.hash[j].state = "none"
             \/ db.active[j] < 0]_vars

\* With one worker that stays up, every job that is added ends: a crash, a lost
\* reply, a lapsed lease, an erased wake token delay it, never for ever.
JobsEnd ==
  \A j \in Jobs :
    db.hash[j].state \in {"waiting", "delayed", "active"}
      ~> db.hash[j].state \in {"none", "completed", "failed"}

\* The life of a job (JobLifecycle), which the queue implements.
Lifecycle == INSTANCE JobLifecycle WITH
  status  <- [j \in Jobs |-> db.hash[j].state],
  attempt <- [j \in Jobs |-> db.hash[j].attempt],
  paused  <- db.paused

LifecycleSpec == Lifecycle!Spec

=============================================================================
