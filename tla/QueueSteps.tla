----------------------------- MODULE QueueSteps -----------------------------
(***************************************************************************)
(* A durable step of a job (packages/redis/src/queue/scripts/step.ts and   *)
(* worker/job/steps.ts): its value is kept in the job's hash, and an       *)
(* attempt that finds it there does not run the step again.  A lease may   *)
(* lapse while the step runs, and the next attempt run it too: the fence   *)
(* is the token of the claim and the deadline of the lease, both looked at *)
(* by the script.                                                          *)
(***************************************************************************)
EXTENDS Naturals

CONSTANT MaxAttempts    \* bound on the claims of the job

ASSUME StepsAssumption == MaxAttempts \in Nat \ {0}

VARIABLES
  held,      \* the attempt whose token the job holds, and whether its lease lasts
  stored,    \* the attempt whose value the hash holds, or 0
  attempt,   \* each attempt's place in the step, and the value it was given
  aborted    \* attempts whose signal was aborted

stepVars == <<held, stored, attempt, aborted>>

StepAttempts == 1 .. MaxAttempts

\* The value an attempt computes is its own: it stands for the attempt.
StepValues == 0 .. MaxAttempts

StepsInit ==
  /\ held = [token |-> 0, leased |-> FALSE]
  /\ stored = 0
  /\ attempt = [a \in StepAttempts |-> [at |-> "none", given |-> 0]]
  /\ aborted = {}

Moves(a, at) == attempt' = [attempt EXCEPT ![a].at = at]

\* A mistake: a lease that lasts, whoever's it is.
BadHoldsJob(a) == held.leased

\* The fence: the job holds the attempt's token, and its lease has not lapsed.
HoldsJob(a) == held.token = a /\ held.leased

AttemptsLeft == held.token < MaxAttempts

\* CLAIM: a job that waits, or whose lease lapsed and is reclaimed.
ClaimAgain ==
  /\ AttemptsLeft /\ ~held.leased
  /\ held' = [token |-> held.token + 1, leased |-> TRUE]
  /\ Moves(held.token + 1, "run")
  /\ UNCHANGED <<stored, aborted>>

LeaseLapses ==
  /\ held.leased
  /\ held' = [held EXCEPT !.leased = FALSE]
  /\ UNCHANGED <<stored, attempt, aborted>>

\* RENEW pushes a lease that lapsed and was not reclaimed: it still holds.
RenewLate ==
  /\ held.token # 0 /\ ~held.leased /\ attempt[held.token].at \notin {"ended", "given"}
  /\ held' = [held EXCEPT !.leased = TRUE]
  /\ UNCHANGED <<stored, attempt, aborted>>

\* The signal: the lease was seen lost, the job cancelled, the worker closed.
AbortRun(a) ==
  /\ attempt[a].at \in {"run", "begun", "working", "committing"} /\ a \notin aborted
  /\ aborted' = aborted \cup {a}
  /\ UNCHANGED <<held, stored, attempt>>

\* STEP_BEGIN runs: lost; a stored value; or a full lease, and the work may run.
StepBegin(a) ==
  /\ attempt[a].at = "run"
  /\ IF a \in aborted \/ ~HoldsJob(a) THEN Moves(a, "ended")
     ELSE IF stored # 0 THEN attempt' = [attempt EXCEPT ![a] = [at |-> "read", given |-> stored]]
     ELSE Moves(a, "begun")
  /\ UNCHANGED <<held, stored, aborted>>

\* Its answer: an attempt aborted meanwhile neither runs the work nor reads.
StepAnswered(a) ==
  /\ attempt[a].at \in {"begun", "read"}
  /\ attempt' = [attempt EXCEPT ![a] =
       IF a \in aborted THEN [at |-> "ended", given |-> 0]
       ELSE [@ EXCEPT !.at = IF attempt[a].at = "read" THEN "given" ELSE "working"]]
  /\ UNCHANGED <<held, stored, aborted>>

\* The work resolves, and is encoded.
StepWorked(a) ==
  /\ attempt[a].at = "working"
  /\ Moves(a, "committing")
  /\ UNCHANGED <<held, stored, aborted>>

\* STEP_COMMIT, aborted or not; only its answer to an attempt that still runs
\* gives the value.
StepCommit(a) ==
  /\ attempt[a].at = "committing"
  /\ stored' = IF HoldsJob(a) THEN a ELSE stored
  /\ \E answered \in BOOLEAN :
       attempt' = [attempt EXCEPT ![a] =
         IF HoldsJob(a) /\ answered /\ a \notin aborted THEN [at |-> "given", given |-> a]
         ELSE [at |-> "ended", given |-> 0]]
  /\ UNCHANGED <<held, aborted>>

\* The call or the work fails, the value is refused, or the process dies.
StepFails(a) ==
  /\ attempt[a].at \in {"run", "begun", "read", "working", "committing"}
  /\ attempt' = [attempt EXCEPT ![a] = [at |-> "ended", given |-> 0]]
  /\ UNCHANGED <<held, stored, aborted>>

\* The attempt fails after its step, or before: its job is back to waiting.
AttemptFails(a) ==
  /\ attempt[a].at \in {"ended", "given"} /\ HoldsJob(a)
  /\ held' = [held EXCEPT !.leased = FALSE]
  /\ UNCHANGED <<stored, attempt, aborted>>

StepsNext ==
  \/ ClaimAgain \/ LeaseLapses \/ RenewLate
  \/ \E a \in StepAttempts :
       \/ AbortRun(a) \/ StepBegin(a) \/ StepAnswered(a) \/ StepWorked(a)
       \/ StepCommit(a) \/ StepFails(a) \/ AttemptFails(a)

StepsSpec == StepsInit /\ [][StepsNext]_stepVars

\* The types of the four variables.
StepsTypeOK ==
  /\ held \in [token : StepValues, leased : BOOLEAN]
  /\ stored \in StepValues
  /\ attempt \in [StepAttempts -> [at : {"none", "run", "begun", "read", "working", "committing", "given", "ended"},
                                   given : StepValues]]
  /\ aborted \subseteq StepAttempts

\* Every attempt that is given the step's value is given the one the hash
\* holds: no attempt that lost the job writes over it, whatever it was doing
\* when its lease lapsed (step.ts HELD, steps.ts runStep).
OneStepValue == \A a \in StepAttempts : attempt[a].given # 0 => attempt[a].given = stored

=============================================================================
